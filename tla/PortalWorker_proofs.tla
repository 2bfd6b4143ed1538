------------------------ MODULE PortalWorker_proofs ------------------------
(***************************************************************************)
(* Safety of the Node worker, for any number of sessions, entries and      *)
(* requests, whatever calls Go abandons and whatever the browser does.     *)
(***************************************************************************)
EXTENDS PortalWorker, FiniteSetTheorems, TLAPS

----------------------------------------------------------------------------
(* What Go and the worker know of a request.                               *)

Open(c) == rpc[c].at # "idle"

(* Who waits for a request has sent it; one that is open has a session id. *)
Calls ==
  /\ \A i \in Id : go[i].call # None =>
       /\ Open(go[i].call) /\ rpc[go[i].call].id = i /\ rpc[go[i].call].action = go[i].action
       /\ go[i].at \in {"calling", "dropping"}
  /\ \A i \in Id : go[i].at = "dropping" => go[i].action = "close"
  /\ \A c \in Call : Open(c) => rpc[c].id \in Id

(* While a challenge is open, Go waits for it, or has given the id up.     *)
Challenging(c) == Open(c) /\ rpc[c].action = "challenge"
Challenges ==
  /\ \A c \in Call : Challenging(c) =>
       \/ go[rpc[c].id].at = "calling" /\ go[rpc[c].id].call = c
       \/ go[rpc[c].id].at \in {"dropping", "none"}
  /\ \A c, d \in Call : Challenging(c) /\ Challenging(d) /\ rpc[c].id = rpc[d].id => c = d

----------------------------------------------------------------------------
(* What the worker's map says of an entry.                                 *)

(* An entry is in the map, under one id, until its context has been closed;*)
(* while that is going on, or has been done, nobody may take it.           *)
Entries ==
  /\ \A e \in Entry : Filed(e) <=> closing[e] # "done"
  /\ \A i, j \in Id : sessions[i] = sessions[j] /\ sessions[i] # None => i = j
  /\ \A e \in Entry : closing[e] # "no" => busy[e]
  /\ \A e \in Entry : late[e] => closing[e] # "no"

(* An operation runs on the entry of its session, alone.                   *)
Runs ==
  /\ \A c \in Call : rpc[c].at = "running" =>
       /\ rpc[c].entry \in Entry /\ sessions[rpc[c].id] = rpc[c].entry
       /\ busy[rpc[c].entry] /\ closing[rpc[c].entry] = "no"
  /\ \A c, d \in Call : rpc[c].at = "running" /\ rpc[d].at = "running" /\ rpc[c].entry = rpc[d].entry => c = d

(* A handler that waits for an entry to be closed finds nothing in the map *)
(* under its id afterwards, and no other waits under that id.              *)
Waiting(c) == rpc[c].at \in {"expiring", "room"}
Waits ==
  /\ \A c \in Call : rpc[c].at = "expiring" => \E e \in Entry :
       /\ rpc[c].waits = {e}
       /\ \/ closing[e] = "pending" /\ sessions[rpc[c].id] = e
          \/ closing[e] = "done" /\ sessions[rpc[c].id] = None
  /\ \A c \in Call : rpc[c].at = "room" => rpc[c].action = "challenge" /\ sessions[rpc[c].id] = None
  /\ \A c, d \in Call : Waiting(c) /\ Waiting(d) /\ rpc[c].id = rpc[d].id => c = d

(* Whatever a handler awaits has begun.                                    *)
Awaits == \A c \in Call : \A e \in rpc[c].waits : closing[e] # "no"

Bounded == Size <= MaxSessions

IInv == TypeOK /\ Calls /\ Challenges /\ Entries /\ Runs /\ Waits /\ Awaits /\ Bounded

----------------------------------------------------------------------------
(* What the pieces of a step do to handlers and calls.                     *)

Others(c) == \A d \in Call \ {c} : rpc'[d] = rpc[d]
OtherIds(i) == \A j \in Id \ {i} : go'[j] = go[j]

(* A handler goes on to another place, with its request and its entry.     *)
Moves(c, at) ==
  /\ rpc' \in [Call -> Handler] /\ Others(c)
  /\ rpc'[c].at = at /\ rpc'[c].id = rpc[c].id /\ rpc'[c].action = rpc[c].action

(* A handler awaits the closing of entries.                                *)
LEMMA AwaitMoves ==
  ASSUME TypeOK, NEW c \in Call, NEW place \in {"expiring", "room", "ending"},
         NEW S \in SUBSET Entry, NEW reply \in Reply, Await(c, place, S, reply)
  PROVE  Moves(c, place) /\ rpc'[c].waits = S
<1> DEFINE h == [rpc[c] EXCEPT !.at = place, !.waits = S, !.reply = reply]
<1>1. rpc[c] \in Handler
  BY DEF TypeOK
<1>2. /\ h \in Handler /\ h.at = place /\ h.id = rpc[c].id /\ h.action = rpc[c].action /\ h.waits = S
  BY <1>1 DEF Handler
<1>3. rpc' = [rpc EXCEPT ![c] = h]
  BY DEF Await
<1> HIDE DEF h
<1> QED
  BY <1>2, <1>3 DEF TypeOK, Moves, Others

(* A handler begins to run on an entry.                                    *)
LEMMA RunMoves ==
  ASSUME TypeOK, NEW c \in Call, NEW e \in Entry,
         \/ rpc' = [rpc EXCEPT ![c].at = "running", ![c].entry = e]
         \/ rpc' = [rpc EXCEPT ![c].at = "running", ![c].entry = e, ![c].waits = {}]
  PROVE  Moves(c, "running") /\ rpc'[c].entry = e
<1>1. rpc[c] \in Handler
  BY DEF TypeOK
<1>2. PICK h : /\ rpc' = [rpc EXCEPT ![c] = h]
               /\ \/ h = [rpc[c] EXCEPT !.at = "running", !.entry = e]
                  \/ h = [rpc[c] EXCEPT !.at = "running", !.entry = e, !.waits = {}]
  OBVIOUS
<1>3. /\ h \in Handler /\ h.at = "running" /\ h.id = rpc[c].id /\ h.action = rpc[c].action /\ h.entry = e
  BY <1>1, <1>2 DEF Handler
<1> QED
  BY <1>2, <1>3 DEF TypeOK, Moves, Others

(* What Go makes of an answer, or of none.                                 *)
LEMMA AfterFacts ==
  ASSUME NEW action \in Action, NEW reply \in Reply
  PROVE  LET g == After(action, reply) IN
         /\ g \in GoState /\ g.call = None /\ g.action = "close"
         /\ action = "close" => g.at = "none"
         /\ action = "challenge" /\ reply = "failed" => g.at = "dropping"
<1>1. \A at \in {"none", "live", "calling", "dropping"} :
        GoAt(at) \in GoState /\ GoAt(at).at = at /\ GoAt(at).call = None /\ GoAt(at).action = "close"
  BY DEF GoAt, GoState, Action
<1> QED
  BY <1>1 DEF After

(* A request that ends leaves its slot, and tells whoever still waits.     *)
LEMMA EndFacts ==
  ASSUME TypeOK, NEW c \in Call, NEW reply \in Reply, End(c, reply)
  PROVE  /\ rpc' \in [Call -> Handler] /\ Others(c) /\ rpc'[c].at = "idle"
         /\ go' \in [Id -> GoState]
         /\ Listening(c) /\ rpc[c].id \in Id =>
              OtherIds(rpc[c].id) /\ go'[rpc[c].id] = After(rpc[c].action, reply)
         /\ ~Listening(c) => go' = go
<1>1. Idle \in Handler /\ Idle.at = "idle"
  BY DEF Idle, Handler, Action, Reply
<1>2. After(rpc[c].action, reply) \in GoState
  BY AfterFacts DEF TypeOK, Handler
<1> QED
  BY <1>1, <1>2 DEF End, TypeOK, Others, OtherIds

(* A call that Go sends is refused at once, or opens a request.            *)
LEMMA SendFacts ==
  ASSUME TypeOK, NEW i \in Id, NEW place \in {"calling", "dropping"}, NEW action \in Action,
         SendCall(i, place, action)
  PROVE  /\ go' \in [Id -> GoState] /\ rpc' \in [Call -> Handler] /\ OtherIds(i)
         /\ \/ rpc' = rpc /\ go'[i] = After(action, "failed")
            \/ \E c \in Call :
                 /\ ~Open(c) /\ Others(c) /\ rpc'[c].at = "reading" /\ rpc'[c].id = i
                 /\ rpc'[c].action = action
                 /\ go'[i].at = place /\ go'[i].action = action /\ go'[i].call = c
<1>1. CASE Refused
  <2>1. After(action, "failed") \in GoState
    BY AfterFacts DEF Reply
  <2> QED
    BY <1>1, <2>1 DEF SendCall, TypeOK, OtherIds
<1>2. CASE ~Refused
  <2>1. PICK c \in Call \ Active :
          /\ go' = [go EXCEPT ![i] = [at |-> place, action |-> action, call |-> c]]
          /\ rpc' = [rpc EXCEPT ![c] = [Idle EXCEPT !.at = "reading", !.action = action, !.id = i]]
    BY <1>2 DEF SendCall
  <2> DEFINE g == [at |-> place, action |-> action, call |-> c]
             h == [Idle EXCEPT !.at = "reading", !.action = action, !.id = i]
  <2>2. g \in GoState /\ g.at = place /\ g.action = action /\ g.call = c
    BY DEF GoState
  <2>3. h \in Handler /\ h.at = "reading" /\ h.id = i /\ h.action = action
    BY DEF Idle, Handler, Reply
  <2>4. go' = [go EXCEPT ![i] = g] /\ rpc' = [rpc EXCEPT ![c] = h] /\ ~Open(c)
    BY <2>1 DEF Active, Open
  <2> HIDE DEF g, h
  <2>5. /\ go' \in [Id -> GoState] /\ rpc' \in [Call -> Handler] /\ OtherIds(i) /\ Others(c)
        /\ go'[i] = g /\ rpc'[c] = h
    BY <2>2, <2>3, <2>4 DEF TypeOK, OtherIds, Others
  <2> QED
    BY <2>2, <2>3, <2>4, <2>5
<1> QED
  BY <1>1, <1>2

----------------------------------------------------------------------------
(* Every step keeps the types.                                             *)

(* Both sides start empty.                                                 *)
LEMMA InitType ==
  ASSUME Init PROVE TypeOK
<1>1. GoAt("none") \in GoState /\ Idle \in Handler
  BY DEF GoAt, GoState, Idle, Handler, Action, Reply
<1> QED
  BY <1>1 DEF Init, TypeOK

(* Go's steps keep the types.                                              *)
LEMMA GoType ==
  ASSUME TypeOK, NEW i \in Id, Go(i) \/ GoDrops(i) PROVE TypeOK'
<1>1. CASE GoOpens(i)
  BY <1>1, SendFacts DEF GoOpens, entryVars, TypeOK, Action
<1>2. CASE \E a \in Action : GoCalls(i, a)
  BY <1>2, SendFacts DEF GoCalls, entryVars, TypeOK
<1>3. CASE GoGivesUp(i)
  <2>1. After(go[i].action, "failed") \in GoState
    BY AfterFacts DEF TypeOK, GoState, Reply
  <2> QED
    BY <1>3, <2>1 DEF GoGivesUp, entryVars, TypeOK
<1>4. CASE GoDrops(i)
  BY <1>4, SendFacts DEF GoDrops, entryVars, TypeOK, Action
<1> QED
  BY <1>1, <1>2, <1>3, <1>4 DEF Go

(* drop keeps the types of what it changes.                                *)
LEMMA DropType ==
  ASSUME TypeOK, NEW S \in SUBSET Entry, DropAll(S)
  PROVE  busy' \in [Entry -> BOOLEAN] /\ closing' \in [Entry -> {"no", "pending", "done"}]
<1>1. \A e \in Entry : (busy[e] \/ e \in S) \in BOOLEAN
  OBVIOUS
<1>2. busy' \in [Entry -> BOOLEAN]
  BY <1>1 DEF DropAll
<1>3. closing' \in [Entry -> {"no", "pending", "done"}]
  BY DEF DropAll, TypeOK
<1> QED
  BY <1>2, <1>3

(* The handler's entry, if its session has one.                            *)
LEMMA TargetFacts ==
  ASSUME TypeOK, NEW i \in Id
  PROVE  /\ Target(i) \in SUBSET Entry
         /\ \A e \in Entry : e \in Target(i) <=> sessions[i] = e
<1>1. sessions[i] \in {None} \cup Entry /\ None \notin Entry
  BY WorkerSets DEF TypeOK
<1> QED
  BY <1>1 DEF Target

(* A handler's steps keep the types.                                       *)
LEMMA HandlerType ==
  ASSUME TypeOK, Calls, NEW c \in Call,
         Read(c) \/ ReadAborted(c) \/ RunFails(c) \/ Deadline(c)
  PROVE  TypeOK'
<1>1. CASE ReadBusy(c) \/ ReadAborted(c) \/ ReadMissing(c) \/ Full(c) \/ CreateBeyondBound(c)
  <2>1. PICK r \in Reply : End(c, r)
    BY <1>1 DEF ReadBusy, ReadAborted, ReadMissing, Full, CreateBeyondBound, Reply
  <2>2. UNCHANGED <<up, sessions, entryVars>>
    BY <1>1 DEF ReadBusy, ReadAborted, ReadMissing, Full, CreateBeyondBound
  <2> QED
    BY <2>1, <2>2, EndFacts DEF entryVars, TypeOK
<1>2. CASE Ending(c)
  <2>1. rpc[c].reply \in Reply
    BY DEF TypeOK, Handler
  <2> QED
    BY <1>2, <2>1, EndFacts DEF Ending, entryVars, TypeOK
<1>3. CASE ReadExpired(c)
  <2>1. PICK e \in Entry : DropAll({e}) /\ Await(c, "expiring", {e}, "ok")
    BY <1>3 DEF ReadExpired
  <2>2. Moves(c, "expiring")
    BY <2>1, AwaitMoves DEF Reply
  <2> QED
    BY <1>3, <2>1, <2>2, DropType DEF ReadExpired, Moves, TypeOK
<1>4. CASE ReadClose(c) \/ RunFails(c) \/ Deadline(c)
  <2>1. Open(c)
    BY <1>4 DEF ReadClose, RunFails, Deadline, NoEntry, Usable, Reads, Open
  <2> DEFINE S == Target(rpc[c].id)
  <2>2. S \in SUBSET Entry
    BY <2>1, TargetFacts DEF Calls
  <2>3. DropAll(S) /\ \E r \in Reply : Await(c, "ending", S, r)
    BY <1>4 DEF ReadClose, RunFails, Deadline, Reply
  <2>4. Moves(c, "ending")
    BY <2>2, <2>3, AwaitMoves
  <2>5. late' \in [Entry -> BOOLEAN] /\ context' \in [Entry -> {"none", "opening", "open"}]
    BY <1>4 DEF ReadClose, RunFails, Deadline, TypeOK
  <2>6. UNCHANGED <<up, go, sessions, expired>>
    BY <1>4 DEF ReadClose, RunFails, Deadline
  <2> QED
    BY <2>2, <2>3, <2>4, <2>5, <2>6, DropType DEF Moves, TypeOK
<1>5. CASE MakeRoom(c)
  <2> DEFINE due == {e \in Entry : Filed(e) /\ ~busy[e] /\ expired[e]}
  <2>1. DropAll(due) /\ Await(c, "room", due, "failed")
    BY <1>5 DEF MakeRoom
  <2>2. Moves(c, "room")
    BY <2>1, AwaitMoves DEF Reply
  <2> QED
    BY <1>5, <2>1, <2>2, DropType DEF MakeRoom, Moves, TypeOK
<1>6. CASE \E e \in Entry : Create(c, e)
  <2>1. PICK e \in Entry : Create(c, e)
    BY <1>6
  <2>2. Moves(c, "running")
    BY <2>1, RunMoves DEF Create
  <2> QED
    BY <2>1, <2>2 DEF Create, Moves, TypeOK
<1>7. CASE Start(c)
  <2>1. Moves(c, "running")
    BY <1>7, RunMoves DEF Start
  <2> QED
    BY <1>7, <2>1 DEF Start, Moves, TypeOK
<1> QED
  BY <1>1, <1>2, <1>3, <1>4, <1>5, <1>6, <1>7 DEF Read

(* So do the browser's, the timers' and the restart.                       *)
LEMMA RestType ==
  ASSUME TypeOK,
         \/ \E c \in Call : RunOk(c)
         \/ \E e \in Entry : Opened(e) \/ LateEnd(e) \/ Close(e) \/ Expire(e)
         \/ ReapTick \/ Restart
  PROVE  TypeOK'
<1>1. CASE \E c \in Call : RunOk(c)
  <2>1. PICK c \in Call : RunOk(c)
    BY <1>1
  <2>2. busy' \in [Entry -> BOOLEAN] /\ expired' \in [Entry -> BOOLEAN]
    BY <2>1 DEF RunOk, IdleAgain, TypeOK
  <2>3. go' \in [Id -> GoState] /\ rpc' \in [Call -> Handler]
    BY <2>1, EndFacts DEF RunOk, Reply
  <2> QED
    BY <2>1, <2>2, <2>3 DEF RunOk, TypeOK
<1>2. CASE \E e \in Entry : Opened(e) \/ Expire(e)
  BY <1>2 DEF Opened, Expire, TypeOK
<1>6. CASE \E e \in Entry : LateEnd(e)
  BY <1>6 DEF LateEnd, TypeOK
<1>7. CASE \E e \in Entry : CloseDone(e)
  <2>1. PICK e \in Entry : CloseDone(e)
    BY <1>7
  <2>2. sessions' \in [Id -> {None} \cup Entry]
    BY <2>1 DEF CloseDone, TypeOK
  <2>3. closing' \in [Entry -> {"no", "pending", "done"}] /\ expired' \in [Entry -> BOOLEAN]
    BY <2>1 DEF CloseDone, TypeOK
  <2>4. context' \in [Entry -> {"none", "opening", "open"}]
    BY <2>1 DEF CloseDone, TypeOK
  <2> QED
    BY <2>1, <2>2, <2>3, <2>4 DEF CloseDone, TypeOK
<1>3. CASE \E e \in Entry : CloseStuck(e)
  <2>1. \A i \in Id : After(go[i].action, "failed") \in GoState
    BY AfterFacts DEF TypeOK, GoState, Reply
  <2>2. Idle \in Handler
    BY DEF Idle, Handler, Action, Reply
  <2>3. go' \in [Id -> GoState]
    BY <1>3, <2>1 DEF CloseStuck, TypeOK
  <2>4. rpc' \in [Call -> Handler] /\ sessions' \in [Id -> {None} \cup Entry]
    BY <1>3, <2>2 DEF CloseStuck
  <2>5. /\ up' \in BOOLEAN /\ busy' \in [Entry -> BOOLEAN] /\ expired' \in [Entry -> BOOLEAN]
        /\ closing' \in [Entry -> {"no", "pending", "done"}]
        /\ context' \in [Entry -> {"none", "opening", "open"}] /\ late' \in [Entry -> BOOLEAN]
    BY <1>3 DEF CloseStuck
  <2> QED
    BY <2>3, <2>4, <2>5 DEF TypeOK
<1>4. CASE ReapTick
  <2> DEFINE S == {e \in Entry : Reapable(e)}
  <2>1. S \in SUBSET Entry /\ DropAll(S)
    BY <1>4 DEF ReapTick
  <2> HIDE DEF S
  <2> QED
    BY <1>4, <2>1, DropType DEF ReapTick, TypeOK
<1>5. CASE Restart
  <2>1. GoAt("none") \in GoState
    BY DEF GoAt, GoState, Action
  <2> QED
    BY <1>5, <2>1 DEF Restart, entryVars, TypeOK
<1> QED
  BY <1>1, <1>2, <1>3, <1>4, <1>5, <1>6, <1>7 DEF Close

----------------------------------------------------------------------------
(* Every step keeps what Go and the worker know of a request.              *)

(* Go does nothing, and every handler goes on with its request.            *)
LEMMA SameCalls ==
  ASSUME TypeOK, Calls, Challenges, go' = go,
         \A c \in Call : /\ rpc'[c].id = rpc[c].id /\ rpc'[c].action = rpc[c].action
                         /\ Open(c)' <=> Open(c)
  PROVE  Calls' /\ Challenges'
<1>1. \A i \in Id : go[i].call # None => go[i].call \in Call
  BY DEF TypeOK, GoState
<1>2. Challenges'
  BY DEF Challenges, Challenging
<1>3. Calls'
  BY <1>1 DEF Calls
<1> QED
  BY <1>2, <1>3

(* A handler that moves does.                                              *)
LEMMA MovedCalls ==
  ASSUME TypeOK, Calls, Challenges, go' = go, NEW c \in Call, Open(c), NEW at, at # "idle", Moves(c, at)
  PROVE  Calls' /\ Challenges'
<1>1. \A d \in Call : /\ rpc'[d].id = rpc[d].id /\ rpc'[d].action = rpc[d].action
                      /\ Open(d)' <=> Open(d)
  BY DEF Moves, Others, Open
<1> QED
  BY <1>1, SameCalls

(* An answer ends the request, and the waiting of Go for it.               *)
LEMMA EndCalls ==
  ASSUME TypeOK, Calls, Challenges, NEW c \in Call, Open(c), NEW reply \in Reply, End(c, reply)
  PROVE  Calls' /\ Challenges'
<1> DEFINE i == rpc[c].id
<1>1. i \in Id
  BY DEF Calls
<1>2. /\ Others(c) /\ ~Open(c)'
      /\ Listening(c) => OtherIds(i) /\ go'[i] = After(rpc[c].action, reply)
      /\ ~Listening(c) => go' = go
  BY <1>1, EndFacts DEF Open
<1>3. Listening(c) <=> go[i].call = c
  BY <1>1, WorkerSets DEF Listening
<1>4. \A d \in Call \ {c} : rpc'[d] = rpc[d] /\ (Open(d)' <=> Open(d))
  BY <1>2 DEF Others, Open
<1>5. \A j \in Id : go[j].call # None => go[j].call \in Call
  BY DEF TypeOK, GoState
<1>6. CASE ~Listening(c)
  <2>1. go' = go /\ \A j \in Id : go[j].call # c
    BY <1>1, <1>2, <1>3, <1>6, WorkerSets DEF Calls
  <2>2. Calls'
    BY <1>2, <1>4, <1>5, <2>1 DEF Calls
  <2>3. Challenges'
    BY <1>2, <1>4, <2>1 DEF Challenges, Challenging
  <2> QED
    BY <2>2, <2>3
<1>7. CASE Listening(c)
  <2>1. /\ go[i].call = c /\ c # None /\ go[i].at \in {"calling", "dropping"} /\ go[i].action = rpc[c].action
        /\ go[i].at = "dropping" => rpc[c].action = "close"
    BY <1>1, <1>3, <1>7, WorkerSets DEF Calls
  <2> DEFINE g == After(rpc[c].action, reply)
  <2>2. g.call = None /\ g.action = "close" /\ (rpc[c].action = "close" => g.at = "none")
    BY AfterFacts DEF TypeOK, Handler
  <2>3. go'[i] = g /\ \A j \in Id \ {i} : go'[j] = go[j]
    BY <1>2, <1>7 DEF OtherIds
  <2> HIDE DEF g
  <2>4. \A j \in Id \ {i} : go[j].call # c
    BY <2>1 DEF Calls
  <2>5. Calls'
    <3>1. ASSUME NEW j \in Id, go'[j].call # None
          PROVE  /\ Open(go[j].call)' /\ rpc'[go'[j].call].id = j
                 /\ rpc'[go'[j].call].action = go'[j].action
                 /\ go'[j].at \in {"calling", "dropping"}
      <4>1. j # i /\ go'[j] = go[j] /\ go[j].call \in Call \ {c}
        BY <1>5, <2>2, <2>3, <2>4, <3>1
      <4> QED
        BY <1>4, <3>1, <4>1 DEF Calls
    <3>2. \A j \in Id : go'[j].at = "dropping" => go'[j].action = "close"
      BY <2>2, <2>3 DEF Calls
    <3>3. \A d \in Call : Open(d)' => rpc'[d].id \in Id
      BY <1>2, <1>4 DEF Calls
    <3> QED
      BY <3>1, <3>2, <3>3 DEF Calls
  <2>6. \A d \in Call : Challenging(d)' => d # c /\ Challenging(d) /\ rpc'[d] = rpc[d]
    BY <1>2, <1>4 DEF Challenging
  <2>7. ASSUME NEW d \in Call, Challenging(d)', rpc[d].id = i
        PROVE  go'[i].at \in {"dropping", "none"}
    <3>1. go[i].at = "dropping"
      BY <2>1, <2>6, <2>7 DEF Challenges
    <3> QED
      BY <2>1, <2>2, <2>3, <3>1
  <2>8. ASSUME NEW d \in Call, Challenging(d)'
        PROVE  \/ go'[rpc'[d].id].at = "calling" /\ go'[rpc'[d].id].call = d
               \/ go'[rpc'[d].id].at \in {"dropping", "none"}
    <3>1. rpc'[d] = rpc[d] /\ Challenging(d) /\ rpc[d].id \in Id
      BY <2>6, <2>8 DEF Calls, Challenging
    <3>2. CASE rpc[d].id = i
      BY <2>7, <2>8, <3>1, <3>2
    <3>3. CASE rpc[d].id # i
      BY <2>3, <3>1, <3>3 DEF Challenges
    <3> QED
      BY <3>2, <3>3
  <2>9. Challenges'
    BY <2>6, <2>8 DEF Challenges
  <2> QED
    BY <2>5, <2>9
<1> QED
  BY <1>6, <1>7

(* A request sent is one Go waits for, and no second challenge of its id.  *)
LEMMA SendCalls ==
  ASSUME TypeOK, Calls, Challenges, NEW i \in Id, NEW place \in {"calling", "dropping"}, NEW action \in Action,
         SendCall(i, place, action), go[i].call = None,
         place = "dropping" => action = "close",
         place = "calling" => \A c \in Call : Challenging(c) => rpc[c].id # i
  PROVE  Calls' /\ Challenges'
<1>1. \A j \in Id : go[j].call # None => go[j].call \in Call
  BY DEF TypeOK, GoState
<1>2. OtherIds(i)
  BY SendFacts
<1>3. CASE rpc' = rpc /\ go'[i] = After(action, "failed")
  <2>1. go'[i].call = None /\ go'[i].action = "close" /\ (action = "close" => go'[i].at = "none")
    BY <1>3, AfterFacts DEF Reply
  <2>2. Calls'
    BY <1>1, <1>2, <1>3, <2>1 DEF Calls, OtherIds, Open
  <2>3. ASSUME NEW c \in Call, Challenging(c)
        PROVE  \/ go'[rpc[c].id].at = "calling" /\ go'[rpc[c].id].call = c
               \/ go'[rpc[c].id].at \in {"dropping", "none"}
    <3>1. CASE rpc[c].id = i
      BY <2>1, <2>3, <3>1
    <3>2. CASE rpc[c].id # i
      BY <1>2, <2>3, <3>2 DEF Challenges, OtherIds, Calls, Challenging
    <3> QED
      BY <3>1, <3>2
  <2>4. Challenges'
    BY <1>3, <2>3 DEF Challenges, Challenging, Open
  <2> QED
    BY <2>2, <2>4
<1>4. CASE \E c \in Call :
              /\ ~Open(c) /\ Others(c) /\ rpc'[c].at = "reading" /\ rpc'[c].id = i
              /\ rpc'[c].action = action
              /\ go'[i].at = place /\ go'[i].action = action /\ go'[i].call = c
  <2>1. PICK c \in Call :
              /\ ~Open(c) /\ Others(c) /\ rpc'[c].at = "reading" /\ rpc'[c].id = i
              /\ rpc'[c].action = action
              /\ go'[i].at = place /\ go'[i].action = action /\ go'[i].call = c
    BY <1>4
  <2>2. \A d \in Call \ {c} : rpc'[d] = rpc[d] /\ (Open(d)' <=> Open(d)) /\ (Challenging(d)' <=> Challenging(d))
    BY <2>1 DEF Others, Open, Challenging
  <2>3. Open(c)' /\ (Challenging(c)' <=> action = "challenge")
    BY <2>1 DEF Open, Challenging
  <2>4. Calls'
    <3>1. ASSUME NEW j \in Id, go'[j].call # None
          PROVE  /\ Open(go[j].call)' /\ rpc'[go'[j].call].id = j
                 /\ rpc'[go'[j].call].action = go'[j].action
                 /\ go'[j].at \in {"calling", "dropping"}
      <4>1. CASE j = i
        BY <2>1, <2>3, <4>1
      <4>2. CASE j # i
        <5>1. go'[j] = go[j] /\ go[j].call \in Call \ {c}
          BY <1>1, <1>2, <2>1, <3>1, <4>2 DEF OtherIds, Calls
        <5> QED
          BY <2>2, <3>1, <5>1 DEF Calls
      <4> QED
        BY <4>1, <4>2
    <3>2. \A j \in Id : go'[j].at = "dropping" => go'[j].action = "close"
      BY <1>2, <2>1 DEF Calls, OtherIds
    <3>3. \A d \in Call : Open(d)' => rpc'[d].id \in Id
      BY <2>1, <2>2 DEF Calls
    <3> QED
      BY <3>1, <3>2, <3>3 DEF Calls
  <2>5. ASSUME NEW d \in Call, Challenging(d)'
        PROVE  \/ go'[rpc'[d].id].at = "calling" /\ go'[rpc'[d].id].call = d
               \/ go'[rpc'[d].id].at \in {"dropping", "none"}
    <3>1. CASE d = c
      BY <2>1, <2>3, <2>5, <3>1
    <3>2. CASE d # c
      <4>1. Challenging(d) /\ rpc'[d] = rpc[d] /\ rpc[d].id \in Id
        BY <2>2, <2>5, <3>2 DEF Calls, Challenging
      <4>2. CASE rpc[d].id = i
        BY <2>1, <4>1, <4>2
      <4>3. CASE rpc[d].id # i
        BY <1>2, <4>1, <4>3 DEF Challenges, OtherIds
      <4> QED
        BY <4>2, <4>3
    <3> QED
      BY <3>1, <3>2
  <2>6. ASSUME NEW d \in Call, NEW f \in Call, Challenging(d)', Challenging(f)', rpc'[d].id = rpc'[f].id
        PROVE  d = f
    <3>1. CASE d # c /\ f # c
      BY <2>2, <2>6, <3>1 DEF Challenges
    <3>2. CASE Challenging(c)'
      <4>1. \A x \in Call \ {c} : Challenging(x)' => rpc'[x].id # i
        BY <2>2, <2>3, <3>2
      <4> QED
        BY <2>1, <2>6, <3>1, <4>1
    <3> QED
      BY <2>6, <3>1, <3>2
  <2> QED
    BY <2>4, <2>5, <2>6 DEF Challenges
<1> QED
  BY <1>3, <1>4, SendFacts

(* Go's steps keep the two sides of the bridge together.                   *)
LEMMA GoCallsKept ==
  ASSUME TypeOK, Calls, Challenges, NEW i \in Id, Go(i) \/ GoDrops(i)
  PROVE  Calls' /\ Challenges'
<1>0. go[i].at \in {"none", "live"} => go[i].call = None
  BY DEF Calls
<1>1. CASE GoOpens(i)
  BY <1>0, <1>1, SendCalls DEF GoOpens, Action
<1>2. CASE \E a \in Action : GoCalls(i, a)
  <2>1. \A c \in Call : Challenging(c) => rpc[c].id # i
    BY <1>2 DEF GoCalls, Challenges
  <2> QED
    BY <1>0, <1>2, <2>1, SendCalls DEF GoCalls
<1>3. CASE GoDrops(i)
  BY <1>3, SendCalls DEF GoDrops, Action
<1>4. CASE GoGivesUp(i)
  <2>1. /\ go'[i] = After(go[i].action, "failed") /\ rpc' = rpc /\ go[i].call # None
        /\ \A j \in Id \ {i} : go'[j] = go[j]
    BY <1>4 DEF GoGivesUp, TypeOK
  <2>2. /\ go'[i].call = None /\ go'[i].action = "close"
        /\ go[i].action = "close" => go'[i].at = "none"
        /\ go[i].action = "challenge" => go'[i].at = "dropping"
    BY <2>1, AfterFacts DEF TypeOK, GoState, Reply
  <2>3. go[i].at \in {"calling", "dropping"} /\ (go[i].at = "dropping" => go[i].action = "close")
        /\ rpc[go[i].call].action = go[i].action
    BY <2>1 DEF Calls
  <2>4. Calls'
    BY <2>1, <2>2 DEF Calls, Open
  <2>5. ASSUME NEW c \in Call, Challenging(c)
        PROVE  \/ go'[rpc[c].id].at = "calling" /\ go'[rpc[c].id].call = c
               \/ go'[rpc[c].id].at \in {"dropping", "none"}
    <3>1. CASE rpc[c].id = i
      <4>1. (go[i].at = "calling" /\ go[i].call = c) \/ go[i].at = "dropping"
        BY <2>3, <2>5, <3>1 DEF Challenges
      <4> QED
        BY <2>2, <2>3, <2>5, <3>1, <4>1 DEF Challenging
    <3>2. CASE rpc[c].id # i
      BY <2>1, <2>5, <3>2 DEF Challenges, Calls, Challenging
    <3> QED
      BY <3>1, <3>2
  <2>6. Challenges'
    BY <2>1, <2>5 DEF Challenges, Challenging, Open
  <2> QED
    BY <2>4, <2>6
<1> QED
  BY <1>1, <1>2, <1>3, <1>4 DEF Go

(* So do the worker's.                                                     *)
LEMMA WorkerCallsKept ==
  ASSUME TypeOK, Calls, Challenges, NEW c \in Call,
         Read(c) \/ ReadAborted(c) \/ Run(c) \/ Deadline(c)
  PROVE  Calls' /\ Challenges'
<1>1. Open(c)
  BY DEF Read, Run, ReadBusy, ReadExpired, ReadClose, ReadMissing, MakeRoom, Full, Create, CreateBeyondBound, Start,
         Ending, ReadAborted, RunOk, RunFails, Deadline, MayCreate, NoEntry, Usable, Reads, Open
<1>2. ASSUME \E r \in Reply : End(c, r)
      PROVE  Calls' /\ Challenges'
  BY <1>1, <1>2, EndCalls
<1>3. ASSUME go' = go, \E at \in {"expiring", "room", "running", "ending"} : Moves(c, at)
      PROVE  Calls' /\ Challenges'
  BY <1>1, <1>3, MovedCalls
<1>4. CASE ReadBusy(c) \/ ReadAborted(c) \/ ReadMissing(c) \/ Full(c) \/ CreateBeyondBound(c) \/ RunOk(c)
  BY <1>2, <1>4 DEF ReadBusy, ReadAborted, ReadMissing, Full, CreateBeyondBound, RunOk, Reply
<1>5. CASE Ending(c)
  BY <1>2, <1>5 DEF Ending, TypeOK, Handler
<1>6. CASE ReadExpired(c)
  <2>1. PICK e \in Entry : Await(c, "expiring", {e}, "ok")
    BY <1>6 DEF ReadExpired
  <2>2. Moves(c, "expiring")
    BY <2>1, AwaitMoves DEF Reply
  <2> QED
    BY <1>3, <1>6, <2>2 DEF ReadExpired
<1>7. CASE ReadClose(c) \/ RunFails(c) \/ Deadline(c)
  <2> DEFINE S == Target(rpc[c].id)
  <2>1. S \in SUBSET Entry /\ \E r \in Reply : Await(c, "ending", S, r)
    BY <1>1, <1>7, TargetFacts DEF Calls, ReadClose, RunFails, Deadline, Reply
  <2>2. Moves(c, "ending")
    BY <2>1, AwaitMoves
  <2> QED
    BY <1>3, <1>7, <2>2 DEF ReadClose, RunFails, Deadline
<1>8. CASE MakeRoom(c)
  <2> DEFINE due == {e \in Entry : Filed(e) /\ ~busy[e] /\ expired[e]}
  <2>1. Await(c, "room", due, "failed")
    BY <1>8 DEF MakeRoom
  <2>2. Moves(c, "room")
    BY <2>1, AwaitMoves DEF Reply
  <2> QED
    BY <1>3, <1>8, <2>2 DEF MakeRoom
<1>9. CASE Start(c) \/ \E e \in Entry : Create(c, e)
  <2>1. Moves(c, "running") /\ go' = go
    BY <1>9, RunMoves DEF Start, Create
  <2> QED
    BY <1>3, <2>1
<1> QED
  BY <1>4, <1>5, <1>6, <1>7, <1>8, <1>9 DEF Read, Run

(* So do the browser's, the timers' and the restart.                       *)
LEMMA RestCallsKept ==
  ASSUME TypeOK, Calls, Challenges,
         \/ \E e \in Entry : Opened(e) \/ LateEnd(e) \/ Close(e) \/ Expire(e)
         \/ ReapTick \/ Restart
  PROVE  Calls' /\ Challenges'
<1>1. ASSUME UNCHANGED <<go, rpc>>
      PROVE  Calls' /\ Challenges'
  <2>1. \A c \in Call : /\ rpc'[c].id = rpc[c].id /\ rpc'[c].action = rpc[c].action
                        /\ Open(c)' <=> Open(c)
    BY <1>1 DEF Open
  <2> QED
    BY <1>1, <2>1, SameCalls
<1>2. CASE ReapTick \/ \E e \in Entry : Opened(e) \/ LateEnd(e) \/ CloseDone(e) \/ Expire(e)
  BY <1>1, <1>2 DEF ReapTick, Opened, LateEnd, CloseDone, Expire
<1>3. CASE \E e \in Entry : CloseStuck(e)
  <2>1. \A c \in Call : ~Open(c)'
    BY <1>3 DEF CloseStuck, Open, Idle
  <2>2. ASSUME NEW i \in Id PROVE go'[i].call = None /\ (go'[i].at = "dropping" => go'[i].action = "close")
    <3>1. go'[i] = IF go[i].call # None THEN After(go[i].action, "failed") ELSE go[i]
      BY <1>3 DEF CloseStuck
    <3>2. CASE go[i].call # None
      BY <3>1, <3>2, AfterFacts DEF TypeOK, GoState, Reply
    <3>3. CASE go[i].call = None
      BY <3>1, <3>3 DEF Calls
    <3> QED
      BY <3>2, <3>3
  <2> QED
    BY <2>1, <2>2 DEF Calls, Challenges, Challenging
<1>4. CASE Restart
  <2>1. \A i \in Id : go'[i].call = None /\ go'[i].at = "none"
    BY <1>4 DEF Restart, GoAt
  <2>2. rpc' = rpc
    BY <1>4 DEF Restart
  <2> QED
    BY <2>1, <2>2 DEF Calls, Challenges, Challenging, Open
<1> QED
  BY <1>2, <1>3, <1>4 DEF Close

----------------------------------------------------------------------------
(* What the worker's map says of an entry, step by step.                   *)

(* A step that files and frees nothing, and starts nothing.                *)
LEMMA Steady ==
  ASSUME Entries, Runs, Bounded, sessions' = sessions,
         \A e \in Entry : /\ closing'[e] = "done" <=> closing[e] = "done"
                          /\ closing'[e] # "no" => busy'[e]
                          /\ late'[e] => closing'[e] # "no",
         \A c \in Call : rpc'[c].at = "running" =>
           rpc'[c] = rpc[c] /\ busy'[rpc[c].entry] /\ closing'[rpc[c].entry] = "no"
  PROVE  Entries' /\ Runs' /\ Bounded'
<1>1. Entries'
  BY DEF Entries, Filed
<1>2. Runs'
  BY DEF Runs
<1>3. Bounded'
  BY DEF Bounded, Size
<1> QED
  BY <1>1, <1>2, <1>3

(* Waiting handlers are disturbed only by the map or a closing undone.     *)
LEMMA SteadyWaits ==
  ASSUME Waits, sessions' = sessions,
         \A e \in Entry : closing[e] # "no" => closing'[e] = closing[e],
         \A c \in Call : Waiting(c)' => rpc'[c] = rpc[c]
  PROVE  Waits'
<1>1. \A c \in Call : Waiting(c)' => Waiting(c)
  BY DEF Waiting
<1>2. ASSUME NEW c \in Call, rpc'[c].at = "expiring"
      PROVE  \E e \in Entry :
               /\ rpc'[c].waits = {e}
               /\ \/ closing'[e] = "pending" /\ sessions'[rpc'[c].id] = e
                  \/ closing'[e] = "done" /\ sessions'[rpc'[c].id] = None
  <2>1. rpc'[c] = rpc[c]
    BY <1>2 DEF Waiting
  <2> QED
    BY <1>2, <2>1 DEF Waits
<1>3. ASSUME NEW c \in Call, rpc'[c].at = "room"
      PROVE  rpc'[c].action = "challenge" /\ sessions'[rpc'[c].id] = None
  <2>1. rpc'[c] = rpc[c]
    BY <1>3 DEF Waiting
  <2> QED
    BY <1>3, <2>1 DEF Waits
<1>4. \A c, d \in Call : Waiting(c)' /\ Waiting(d)' /\ rpc'[c].id = rpc'[d].id => c = d
  BY <1>1 DEF Waits
<1> QED
  BY <1>2, <1>3, <1>4 DEF Waits

(* A step that touches none of it, and ends or sends at most a request.    *)
LEMMA Untouched ==
  ASSUME Entries, Runs, Waits, Bounded, UNCHANGED <<sessions, closing, busy>>,
         \A e \in Entry : late'[e] => late[e],
         \A c \in Call : rpc'[c] = rpc[c] \/ rpc'[c].at \in {"idle", "reading"}
  PROVE  Entries' /\ Runs' /\ Waits' /\ Bounded'
<1>1. Entries' /\ Runs' /\ Bounded'
  <2>1. \A e \in Entry : /\ closing'[e] = "done" <=> closing[e] = "done"
                         /\ closing'[e] # "no" => busy'[e]
                         /\ late'[e] => closing'[e] # "no"
    BY DEF Entries
  <2>2. ASSUME NEW c \in Call, rpc'[c].at = "running"
        PROVE  rpc'[c] = rpc[c] /\ busy'[rpc[c].entry] /\ closing'[rpc[c].entry] = "no"
    <3>1. rpc'[c] = rpc[c]
      BY <2>2
    <3> QED
      BY <2>2, <3>1 DEF Runs
  <2> QED
    BY <2>1, <2>2, Steady
<1>2. Waits'
  <2>1. \A c \in Call : Waiting(c)' => rpc'[c] = rpc[c]
    BY DEF Waiting
  <2> QED
    BY <2>1, SteadyWaits
<1> QED
  BY <1>1, <1>2

(* Entries are dropped while one handler, which may have run on them, goes *)
(* on to await their closing.                                              *)
LEMMA Drops ==
  ASSUME TypeOK, Entries, Runs, Bounded, NEW S \in SUBSET Entry, DropAll(S), sessions' = sessions,
         \A e \in S : Filed(e),
         \A e \in Entry : late'[e] => late[e] \/ e \in S,
         \A c \in Call : rpc'[c].at = "running" => rpc'[c] = rpc[c] /\ rpc[c].entry \notin S
  PROVE  /\ Entries' /\ Runs' /\ Bounded'
         /\ \A e \in Entry : closing[e] # "no" => closing'[e] = closing[e]
         /\ \A e \in S : closing'[e] \in {"pending", "done"}
<1>1. \A e \in Entry :
        /\ busy'[e] <=> (busy[e] \/ e \in S)
        /\ closing'[e] = IF e \in S /\ closing[e] = "no" THEN "pending" ELSE closing[e]
        /\ closing[e] \in {"no", "pending", "done"}
  BY DEF DropAll, TypeOK
<1>2. \A e \in Entry : /\ closing'[e] = "done" <=> closing[e] = "done"
                       /\ closing'[e] # "no" => busy'[e]
                       /\ late'[e] => closing'[e] # "no"
  BY <1>1 DEF Entries
<1>3. \A c \in Call : rpc'[c].at = "running" =>
        rpc'[c] = rpc[c] /\ busy'[rpc[c].entry] /\ closing'[rpc[c].entry] = "no"
  <2> SUFFICES ASSUME NEW c \in Call, rpc'[c].at = "running"
               PROVE  rpc'[c] = rpc[c] /\ busy'[rpc[c].entry] /\ closing'[rpc[c].entry] = "no"
    OBVIOUS
  <2>1. rpc'[c] = rpc[c] /\ rpc[c].entry \notin S /\ rpc[c].at = "running"
    OBVIOUS
  <2>2. rpc[c].entry \in Entry /\ busy[rpc[c].entry] /\ closing[rpc[c].entry] = "no"
    BY <2>1 DEF Runs
  <2> QED
    BY <1>1, <2>1, <2>2
<1>4. Entries' /\ Runs' /\ Bounded'
  BY <1>2, <1>3, Steady
<1> QED
  BY <1>1, <1>4

(* A handler without an entry: there is none in the map under its id.      *)
LEMMA NoEntryFacts ==
  ASSUME Waits, NEW c \in Call, NoEntry(c)
  PROVE  sessions[rpc[c].id] = None
<1>1. CASE Reads(c, None)
  BY <1>1 DEF Reads
<1>2. CASE rpc[c].at = "expiring" /\ Resumable(c)
  <2>1. PICK e \in Entry : /\ rpc[c].waits = {e}
                           /\ \/ closing[e] = "pending" /\ sessions[rpc[c].id] = e
                              \/ closing[e] = "done" /\ sessions[rpc[c].id] = None
    BY <1>2 DEF Waits
  <2> QED
    BY <1>2, <2>1 DEF Resumable
<1> QED
  BY <1>1, <1>2 DEF NoEntry

(* And of a challenge: no other handler waits to file one under that id.   *)
LEMMA ChallengeFacts ==
  ASSUME Challenges, Waits, NEW c \in Call, rpc[c].action = "challenge",
         NoEntry(c) \/ (rpc[c].at = "room" /\ Resumable(c))
  PROVE  /\ sessions[rpc[c].id] = None
         /\ \A d \in Call : Waiting(d) /\ rpc[d].id = rpc[c].id => d = c
<1>1. sessions[rpc[c].id] = None
  BY NoEntryFacts DEF Waits
<1>2. ASSUME NEW d \in Call, Waiting(d), rpc[d].id = rpc[c].id
      PROVE  d = c
  <2>1. CASE Waiting(c)
    BY <1>2, <2>1 DEF Waits
  <2>2. CASE Reads(c, None)
    <3>1. CASE rpc[d].at = "room"
      <4>1. Challenging(d) /\ Challenging(c)
        BY <2>2, <3>1 DEF Waits, Challenging, Open, Reads
      <4> QED
        BY <1>2, <4>1 DEF Challenges
    <3>2. CASE rpc[d].at = "expiring"
      <4>1. PICK e \in Entry : /\ rpc[d].waits = {e}
                               /\ \/ closing[e] = "pending" /\ sessions[rpc[d].id] = e
                                  \/ closing[e] = "done" /\ sessions[rpc[d].id] = None
        BY <3>2 DEF Waits
      <4>2. Resumable(d)
        BY <1>1, <1>2, <3>2, <4>1, WorkerSets DEF Resumable
      <4> QED
        BY <2>2, <4>2 DEF Reads, Quiet
    <3> QED
      BY <1>2, <3>1, <3>2 DEF Waiting
  <2> QED
    BY <2>1, <2>2 DEF NoEntry, Waiting
<1> QED
  BY <1>1, <1>2

(* The steps that touch neither the map nor the closing of an entry.       *)
LEMMA QuietSteps ==
  ASSUME TypeOK, Calls, Entries, Runs, Waits, Bounded,
         \/ \E i \in Id : Go(i) \/ GoDrops(i)
         \/ \E c \in Call : \/ ReadBusy(c) \/ ReadMissing(c) \/ Full(c) \/ CreateBeyondBound(c)
                            \/ Ending(c) \/ ReadAborted(c)
         \/ \E e \in Entry : Opened(e) \/ LateEnd(e) \/ Expire(e)
         \/ Restart
  PROVE  Entries' /\ Runs' /\ Waits' /\ Bounded'
<1>1. ASSUME NEW i \in Id, NEW place \in {"calling", "dropping"}, NEW action \in Action,
             SendCall(i, place, action), UNCHANGED <<up, sessions, entryVars>>
      PROVE  Entries' /\ Runs' /\ Waits' /\ Bounded'
  <2>1. \A c \in Call : rpc'[c] = rpc[c] \/ rpc'[c].at \in {"idle", "reading"}
    BY <1>1, SendFacts DEF Others
  <2> QED
    BY <1>1, <2>1, Untouched DEF entryVars
<1>2. ASSUME NEW i \in Id, Go(i) \/ GoDrops(i)
      PROVE  Entries' /\ Runs' /\ Waits' /\ Bounded'
  <2>1. CASE GoOpens(i)
    BY <1>1, <2>1 DEF GoOpens, Action
  <2>2. CASE \E a \in Action : GoCalls(i, a)
    BY <1>1, <2>2 DEF GoCalls
  <2>3. CASE GoDrops(i)
    BY <1>1, <2>3 DEF GoDrops, Action
  <2>4. CASE GoGivesUp(i)
    BY <2>4, Untouched DEF GoGivesUp, entryVars
  <2> QED
    BY <1>2, <2>1, <2>2, <2>3, <2>4 DEF Go
<1>3. ASSUME NEW c \in Call, \/ ReadBusy(c) \/ ReadMissing(c) \/ Full(c) \/ CreateBeyondBound(c)
                             \/ Ending(c) \/ ReadAborted(c)
      PROVE  Entries' /\ Runs' /\ Waits' /\ Bounded'
  <2>1. PICK r \in Reply : End(c, r)
    BY <1>3 DEF ReadBusy, ReadMissing, Full, CreateBeyondBound, Ending, ReadAborted, Reply, TypeOK, Handler
  <2>2. UNCHANGED <<up, sessions, entryVars>>
    BY <1>3 DEF ReadBusy, ReadMissing, Full, CreateBeyondBound, Ending, ReadAborted
  <2>3. \A d \in Call : rpc'[d] = rpc[d] \/ rpc'[d].at \in {"idle", "reading"}
    BY <2>1, EndFacts DEF Others
  <2> QED
    BY <2>2, <2>3, Untouched DEF entryVars
<1>4. ASSUME NEW e \in Entry, Opened(e) \/ LateEnd(e) \/ Expire(e)
      PROVE  Entries' /\ Runs' /\ Waits' /\ Bounded'
  <2>1. UNCHANGED <<rpc, sessions, busy, closing>>
    BY <1>4 DEF Opened, LateEnd, Expire
  <2>2. \A f \in Entry : late'[f] => late[f]
    BY <1>4 DEF Opened, LateEnd, Expire, TypeOK
  <2> QED
    BY <2>1, <2>2, Untouched
<1>5. CASE Restart
  BY <1>5, Untouched DEF Restart, entryVars
<1> QED
  BY <1>2, <1>3, <1>4, <1>5

(* A closing that begins: no operation is going on in the entry, or it is  *)
(* the operation that has failed.                                          *)
LEMMA DropSteps ==
  ASSUME TypeOK, Calls, Entries, Runs, Waits, Bounded,
         \/ \E c \in Call : ReadClose(c) \/ RunFails(c) \/ Deadline(c)
         \/ ReapTick
  PROVE  Entries' /\ Runs' /\ Waits' /\ Bounded'
<1>1. ASSUME NEW c \in Call, ReadClose(c) \/ RunFails(c) \/ Deadline(c)
      PROVE  Entries' /\ Runs' /\ Waits' /\ Bounded'
  <2>1. rpc[c].id \in Id
    BY <1>1 DEF Calls, ReadClose, RunFails, Deadline, NoEntry, Usable, Reads, Open
  <2> DEFINE S == Target(rpc[c].id)
  <2>2. S \in SUBSET Entry /\ \A e \in Entry : e \in S <=> sessions[rpc[c].id] = e
    BY <2>1, TargetFacts
  <2>3. DropAll(S) /\ sessions' = sessions /\ \E r \in Reply : Await(c, "ending", S, r)
    BY <1>1 DEF ReadClose, RunFails, Deadline, Reply
  <2>4. Moves(c, "ending")
    BY <2>2, <2>3, AwaitMoves
  <2>5. \A d \in Call \ {c} : rpc'[d] = rpc[d]
    BY <2>4 DEF Moves, Others
  <2>6. \A e \in S : Filed(e)
    BY <2>1, <2>2 DEF Filed
  <2>7. \A e \in Entry : late'[e] => late[e] \/ e \in S
    <3>1. CASE ReadClose(c) \/ RunFails(c)
      BY <3>1 DEF ReadClose, RunFails
    <3>2. CASE Deadline(c)
      <4>1. rpc[c].entry \in S
        BY <2>2, <3>2 DEF Runs, Deadline
      <4>2. late' = [late EXCEPT ![rpc[c].entry] = TRUE]
        BY <3>2 DEF Deadline
      <4> QED
        BY <4>1, <4>2 DEF TypeOK
    <3> QED
      BY <1>1, <3>1, <3>2
  <2>8. ASSUME NEW d \in Call \ {c}, rpc[d].at = "running"
        PROVE  rpc[d].entry \notin S
    <3>1. rpc[d].entry \in Entry /\ busy[rpc[d].entry]
      BY <2>8 DEF Runs
    <3>2. CASE RunFails(c) \/ Deadline(c)
      <4>1. rpc[c].at = "running"
        BY <3>2 DEF RunFails, Deadline
      <4>2. sessions[rpc[c].id] = rpc[c].entry /\ rpc[c].entry # rpc[d].entry
        BY <2>8, <4>1 DEF Runs
      <4> QED
        BY <2>2, <3>1, <4>2
    <3>3. CASE ReadClose(c)
      <4>1. NoEntry(c) \/ \E e \in Entry : Usable(c, e)
        BY <3>3 DEF ReadClose
      <4>2. CASE NoEntry(c)
        BY <2>2, <3>1, <4>2, NoEntryFacts, WorkerSets
      <4>3. CASE \E e \in Entry : Usable(c, e)
        BY <2>2, <3>1, <4>3 DEF Usable, Reads, Taken
      <4> QED
        BY <4>1, <4>2, <4>3
    <3> QED
      BY <1>1, <3>2, <3>3
  <2>9. \A d \in Call : rpc'[d].at = "running" => rpc'[d] = rpc[d] /\ rpc[d].entry \notin S
    BY <2>4, <2>5, <2>8 DEF Moves
  <2> HIDE DEF S
  <2>10. Entries' /\ Runs' /\ Bounded' /\ \A e \in Entry : closing[e] # "no" => closing'[e] = closing[e]
    BY <2>2, <2>3, <2>6, <2>7, <2>9, Drops
  <2>11. \A d \in Call : Waiting(d)' => rpc'[d] = rpc[d]
    BY <2>4, <2>5 DEF Moves, Waiting
  <2>12. Waits'
    BY <2>3, <2>10, <2>11, SteadyWaits
  <2> QED
    BY <2>10, <2>12
<1>2. CASE ReapTick
  <2> DEFINE S == {e \in Entry : Reapable(e)}
  <2>1. S \in SUBSET Entry /\ DropAll(S) /\ UNCHANGED <<sessions, rpc, late>>
    BY <1>2 DEF ReapTick
  <2>2. \A e \in S : Filed(e) /\ ~busy[e]
    BY DEF Reapable
  <2> HIDE DEF S
  <2>3. \A d \in Call : rpc'[d].at = "running" => rpc'[d] = rpc[d] /\ rpc[d].entry \notin S
    BY <2>1, <2>2 DEF Runs
  <2>4. Entries' /\ Runs' /\ Bounded' /\ \A e \in Entry : closing[e] # "no" => closing'[e] = closing[e]
    BY <2>1, <2>2, <2>3, Drops
  <2>5. Waits'
    BY <2>1, <2>4, SteadyWaits
  <2> QED
    BY <2>4, <2>5
<1> QED
  BY <1>1, <1>2

(* The entry the handler found has expired: it waits for its closing.      *)
LEMMA ExpiredStep ==
  ASSUME TypeOK, Calls, Entries, Runs, Waits, Bounded, NEW c \in Call, ReadExpired(c)
  PROVE  Entries' /\ Runs' /\ Waits' /\ Bounded'
<1>1. PICK e \in Entry : /\ Reads(c, e) /\ ~busy[e] /\ DropAll({e}) /\ Await(c, "expiring", {e}, "ok")
                         /\ UNCHANGED <<sessions, late>>
  BY DEF ReadExpired, Taken
<1>2. Moves(c, "expiring") /\ rpc'[c].waits = {e}
  BY <1>1, AwaitMoves DEF Reply
<1>3. sessions[rpc[c].id] = e /\ rpc[c].id \in Id /\ rpc[c].at = "reading" /\ Filed(e)
  BY <1>1 DEF Reads, Calls, Open, Filed
<1>4. \A d \in Call \ {c} : rpc'[d] = rpc[d]
  BY <1>2 DEF Moves, Others
<1>5. \A d \in Call : rpc'[d].at = "running" => rpc'[d] = rpc[d] /\ rpc[d].entry \notin {e}
  BY <1>1, <1>2, <1>4 DEF Runs, Moves
<1>6. /\ Entries' /\ Runs' /\ Bounded'
      /\ \A f \in Entry : closing[f] # "no" => closing'[f] = closing[f]
      /\ closing'[e] \in {"pending", "done"}
  BY <1>1, <1>3, <1>5, Drops
<1>7. closing[e] = "no" /\ closing'[e] = "pending"
  BY <1>1, <1>3, <1>6 DEF Entries, Filed
<1>8. \A d \in Call \ {c} : Waiting(d) => rpc[d].id # rpc[c].id
  BY <1>3, <1>7, WorkerSets DEF Waits, Waiting
<1>9. Waits'
  <2>1. ASSUME NEW d \in Call, rpc'[d].at = "expiring"
        PROVE  \E f \in Entry :
                 /\ rpc'[d].waits = {f}
                 /\ \/ closing'[f] = "pending" /\ sessions'[rpc'[d].id] = f
                    \/ closing'[f] = "done" /\ sessions'[rpc'[d].id] = None
    <3>1. CASE d = c
      BY <1>1, <1>2, <1>3, <1>7, <3>1 DEF Moves
    <3>2. CASE d # c
      <4>1. PICK f \in Entry : /\ rpc[d].waits = {f}
                               /\ \/ closing[f] = "pending" /\ sessions[rpc[d].id] = f
                                  \/ closing[f] = "done" /\ sessions[rpc[d].id] = None
        BY <1>4, <2>1, <3>2 DEF Waits
      <4> QED
        BY <1>1, <1>4, <1>6, <3>2, <4>1
    <3> QED
      BY <3>1, <3>2
  <2>2. \A d \in Call : rpc'[d].at = "room" => rpc'[d].action = "challenge" /\ sessions'[rpc'[d].id] = None
    BY <1>1, <1>2, <1>4 DEF Waits, Moves
  <2>3. ASSUME NEW d \in Call, NEW f \in Call, Waiting(d)', Waiting(f)', rpc'[d].id = rpc'[f].id
        PROVE  d = f
    <3>1. rpc'[c].id = rpc[c].id /\ \A x \in Call \ {c} : (Waiting(x)' <=> Waiting(x)) /\ rpc'[x] = rpc[x]
      BY <1>2, <1>4 DEF Moves, Waiting
    <3> QED
      BY <1>8, <2>3, <3>1 DEF Waits
  <2> QED
    BY <2>1, <2>2, <2>3 DEF Waits
<1> QED
  BY <1>6, <1>9

(* The map is full: the handler waits for what has expired to be closed.   *)
LEMMA RoomStep ==
  ASSUME TypeOK, Calls, Challenges, Entries, Runs, Waits, Bounded, NEW c \in Call, MakeRoom(c)
  PROVE  Entries' /\ Runs' /\ Waits' /\ Bounded'
<1> DEFINE S == {e \in Entry : Filed(e) /\ ~busy[e] /\ expired[e]}
<1>1. /\ S \in SUBSET Entry /\ DropAll(S) /\ Await(c, "room", S, "failed") /\ UNCHANGED <<sessions, late>>
      /\ NoEntry(c) /\ rpc[c].action = "challenge"
  BY DEF MakeRoom
<1>2. \A e \in S : Filed(e) /\ ~busy[e]
  OBVIOUS
<1> HIDE DEF S
<1>3. Moves(c, "room")
  BY <1>1, AwaitMoves DEF Reply
<1>4. \A d \in Call \ {c} : rpc'[d] = rpc[d]
  BY <1>3 DEF Moves, Others
<1>5. \A d \in Call : rpc'[d].at = "running" => rpc'[d] = rpc[d] /\ rpc[d].entry \notin S
  BY <1>2, <1>3, <1>4 DEF Runs, Moves
<1>6. /\ Entries' /\ Runs' /\ Bounded'
      /\ \A f \in Entry : closing[f] # "no" => closing'[f] = closing[f]
  BY <1>1, <1>2, <1>5, Drops
<1>7. /\ sessions[rpc[c].id] = None
      /\ \A d \in Call \ {c} : Waiting(d) => rpc[d].id # rpc[c].id
  BY <1>1, ChallengeFacts
<1>8. Waits'
  <2>1. ASSUME NEW d \in Call, rpc'[d].at = "expiring"
        PROVE  \E f \in Entry :
                 /\ rpc'[d].waits = {f}
                 /\ \/ closing'[f] = "pending" /\ sessions'[rpc'[d].id] = f
                    \/ closing'[f] = "done" /\ sessions'[rpc'[d].id] = None
    <3>1. d # c
      BY <1>3, <2>1 DEF Moves
    <3>2. PICK f \in Entry : /\ rpc[d].waits = {f}
                             /\ \/ closing[f] = "pending" /\ sessions[rpc[d].id] = f
                                \/ closing[f] = "done" /\ sessions[rpc[d].id] = None
      BY <1>4, <2>1, <3>1 DEF Waits
    <3> QED
      BY <1>1, <1>4, <1>6, <3>1, <3>2
  <2>2. \A d \in Call : rpc'[d].at = "room" => rpc'[d].action = "challenge" /\ sessions'[rpc'[d].id] = None
    BY <1>1, <1>3, <1>4, <1>7 DEF Waits, Moves
  <2>3. ASSUME NEW d \in Call, NEW f \in Call, Waiting(d)', Waiting(f)', rpc'[d].id = rpc'[f].id
        PROVE  d = f
    <3>1. rpc'[c].id = rpc[c].id /\ \A x \in Call \ {c} : (Waiting(x)' <=> Waiting(x)) /\ rpc'[x] = rpc[x]
      BY <1>3, <1>4 DEF Moves, Waiting
    <3> QED
      BY <1>7, <2>3, <3>1 DEF Waits
  <2> QED
    BY <2>1, <2>2, <2>3 DEF Waits
<1> QED
  BY <1>6, <1>8

(* A session is filed under an id that has none, and nobody waits under.   *)
LEMMA CreateStep ==
  ASSUME TypeOK, Calls, Challenges, Entries, Runs, Waits, Bounded,
         NEW c \in Call, NEW e \in Entry, Create(c, e)
  PROVE  Entries' /\ Runs' /\ Waits' /\ Bounded'
<1> DEFINE i == rpc[c].id
<1>1. /\ rpc[c].action = "challenge" /\ Unused(e) /\ Size < MaxSessions
      /\ NoEntry(c) \/ (rpc[c].at = "room" /\ Resumable(c))
  BY DEF Create, MayCreate, HasRoom
<1>2. /\ sessions[i] = None
      /\ \A d \in Call \ {c} : Waiting(d) => rpc[d].id # i
  BY <1>1, ChallengeFacts
<1>3. i \in Id
  BY <1>1 DEF NoEntry, Reads, Calls, Open
<1>4. Moves(c, "running") /\ rpc'[c].entry = e
  BY RunMoves DEF Create
<1>5. \A d \in Call \ {c} : rpc'[d] = rpc[d]
  BY <1>4 DEF Moves, Others
<1>6. /\ sessions'[i] = e /\ \A j \in Id \ {i} : sessions'[j] = sessions[j]
      /\ closing'[e] = "no" /\ \A f \in Entry \ {e} : closing'[f] = closing[f]
      /\ busy'[e] /\ \A f \in Entry \ {e} : busy'[f] = busy[f]
      /\ late' = late
  BY <1>3 DEF Create, TypeOK
<1>7. ~Filed(e) /\ ~late[e] /\ \A d \in Call : rpc[d].entry # e /\ e \notin rpc[d].waits
  BY <1>1 DEF Unused
<1>8. Entries'
  <2>1. \A f \in Entry : Filed(f)' <=> closing'[f] # "done"
    BY <1>2, <1>3, <1>6, WorkerSets DEF Entries, Filed
  <2>2. \A j, k \in Id : sessions'[j] = sessions'[k] /\ sessions'[j] # None => j = k
    BY <1>6, <1>7 DEF Entries, Filed
  <2>3. \A f \in Entry : (closing'[f] # "no" => busy'[f]) /\ (late'[f] => closing'[f] # "no")
    BY <1>6, <1>7 DEF Entries
  <2> QED
    BY <2>1, <2>2, <2>3 DEF Entries
<1>9. Runs'
  <2>1. ASSUME NEW d \in Call \ {c}, rpc[d].at = "running"
        PROVE  /\ rpc[d].entry \in Entry \ {e} /\ rpc[d].id # i /\ rpc[d].id \in Id
               /\ sessions[rpc[d].id] = rpc[d].entry /\ busy[rpc[d].entry] /\ closing[rpc[d].entry] = "no"
    BY <1>2, <1>7, <2>1, WorkerSets DEF Runs, Calls, Open
  <2>2. \A d \in Call : rpc'[d].at = "running" =>
          /\ rpc'[d].entry \in Entry /\ sessions'[rpc'[d].id] = rpc'[d].entry
          /\ busy'[rpc'[d].entry] /\ closing'[rpc'[d].entry] = "no"
    BY <1>4, <1>5, <1>6, <2>1 DEF Moves
  <2>3. \A d, f \in Call : rpc'[d].at = "running" /\ rpc'[f].at = "running" /\ rpc'[d].entry = rpc'[f].entry => d = f
    BY <1>4, <1>5, <1>7 DEF Runs
  <2> QED
    BY <2>2, <2>3 DEF Runs
<1>10. Waits'
  <2>1. ASSUME NEW d \in Call, Waiting(d)'
        PROVE  d # c /\ rpc'[d] = rpc[d] /\ Waiting(d) /\ sessions'[rpc[d].id] = sessions[rpc[d].id]
    <3>1. d # c
      BY <1>4, <2>1 DEF Moves, Waiting
    <3>2. rpc'[d] = rpc[d] /\ Waiting(d)
      BY <1>5, <2>1, <3>1 DEF Waiting
    <3>3. rpc[d].id \in Id \ {i}
      BY <1>2, <3>1, <3>2 DEF Calls, Open, Waiting
    <3> QED
      BY <1>6, <3>1, <3>2, <3>3
  <2>2. ASSUME NEW d \in Call, rpc'[d].at = "expiring"
        PROVE  \E f \in Entry :
                 /\ rpc'[d].waits = {f}
                 /\ \/ closing'[f] = "pending" /\ sessions'[rpc'[d].id] = f
                    \/ closing'[f] = "done" /\ sessions'[rpc'[d].id] = None
    <3>1. rpc'[d] = rpc[d] /\ sessions'[rpc[d].id] = sessions[rpc[d].id]
      BY <2>1, <2>2 DEF Waiting
    <3>2. PICK f \in Entry : /\ rpc[d].waits = {f}
                             /\ \/ closing[f] = "pending" /\ sessions[rpc[d].id] = f
                                \/ closing[f] = "done" /\ sessions[rpc[d].id] = None
      BY <2>2, <3>1 DEF Waits
    <3>3. f # e
      BY <1>7, <3>2
    <3> QED
      BY <1>6, <3>1, <3>2, <3>3
  <2>3. ASSUME NEW d \in Call, rpc'[d].at = "room"
        PROVE  rpc'[d].action = "challenge" /\ sessions'[rpc'[d].id] = None
    BY <2>1, <2>3 DEF Waits, Waiting
  <2>4. \A d, f \in Call : Waiting(d)' /\ Waiting(f)' /\ rpc'[d].id = rpc'[f].id => d = f
    BY <2>1 DEF Waits
  <2> QED
    BY <2>2, <2>3, <2>4 DEF Waits
<1>11. Bounded'
  <2> DEFINE F == {j \in Id : sessions[j] # None}
             G == {j \in Id : sessions'[j] # None}
  <2>1. IsFiniteSet(F)
    BY FS_Subset, WorkerSets
  <2>2. G = F \cup {i} /\ i \notin F
    BY <1>2, <1>3, <1>6, WorkerSets
  <2>3. Cardinality(G) = Cardinality(F) + 1
    BY <2>1, <2>2, FS_AddElement
  <2>4. Cardinality(F) \in Nat /\ Cardinality(F) < MaxSessions
    BY <1>1, <2>1, FS_CardinalityType DEF Size
  <2> HIDE DEF F, G
  <2>5. Cardinality(G) <= MaxSessions
    BY <2>3, <2>4, WorkerBounds
  <2> QED
    BY <2>5 DEF Bounded, Size, G
<1> QED
  BY <1>8, <1>9, <1>10, <1>11

(* An operation begins on an entry that is not busy.                       *)
LEMMA StartStep ==
  ASSUME TypeOK, Calls, Entries, Runs, Waits, Bounded, NEW c \in Call, Start(c)
  PROVE  Entries' /\ Runs' /\ Waits' /\ Bounded'
<1>1. PICK e \in Entry : /\ Usable(c, e) /\ busy' = [busy EXCEPT ![e] = TRUE]
                         /\ rpc' = [rpc EXCEPT ![c].at = "running", ![c].entry = e]
                         /\ UNCHANGED <<sessions, closing, late>>
  BY DEF Start
<1>2. Moves(c, "running") /\ rpc'[c].entry = e
  BY <1>1, RunMoves
<1>3. \A d \in Call \ {c} : rpc'[d] = rpc[d]
  BY <1>2 DEF Moves, Others
<1>4. sessions[rpc[c].id] = e /\ ~busy[e] /\ closing[e] = "no"
  BY <1>1 DEF Usable, Reads, Taken, Entries
<1>5. busy'[e] /\ \A f \in Entry \ {e} : busy'[f] = busy[f]
  BY <1>1 DEF TypeOK
<1>6. Entries'
  BY <1>1, <1>5 DEF Entries, Filed
<1>7. \A d \in Call : rpc[d].at = "running" => rpc[d].entry # e
  BY <1>4 DEF Runs
<1>8. Runs'
  BY <1>1, <1>2, <1>3, <1>4, <1>5, <1>7 DEF Runs, Moves
<1>9. Waits'
  <2>1. \A d \in Call : Waiting(d)' => rpc'[d] = rpc[d]
    BY <1>2, <1>3 DEF Moves, Waiting
  <2> QED
    BY <1>1, <2>1, SteadyWaits
<1>10. Bounded'
  BY <1>1 DEF Bounded, Size
<1> QED
  BY <1>6, <1>8, <1>9, <1>10

(* It ends, and gives the entry back.                                      *)
LEMMA RunOkStep ==
  ASSUME TypeOK, Entries, Runs, Waits, Bounded, NEW c \in Call, RunOk(c)
  PROVE  Entries' /\ Runs' /\ Waits' /\ Bounded'
<1> DEFINE e == rpc[c].entry
<1>1. e \in Entry /\ closing[e] = "no"
  BY DEF RunOk, Runs
<1>2. UNCHANGED <<sessions, closing, late>> /\ \A f \in Entry \ {e} : busy'[f] = busy[f]
  BY <1>1 DEF RunOk, IdleAgain, TypeOK
<1>3. Others(c) /\ rpc'[c].at = "idle"
  BY EndFacts DEF RunOk, Reply
<1>4. \A f \in Entry : /\ closing'[f] = "done" <=> closing[f] = "done"
                       /\ closing'[f] # "no" => busy'[f]
                       /\ late'[f] => closing'[f] # "no"
  BY <1>1, <1>2 DEF Entries
<1>5. ASSUME NEW d \in Call, rpc'[d].at = "running"
      PROVE  rpc'[d] = rpc[d] /\ busy'[rpc[d].entry] /\ closing'[rpc[d].entry] = "no"
  <2>1. d # c /\ rpc'[d] = rpc[d] /\ rpc[d].at = "running"
    BY <1>3, <1>5 DEF Others
  <2>2. rpc[d].entry \in Entry \ {e} /\ busy[rpc[d].entry] /\ closing[rpc[d].entry] = "no"
    BY <2>1 DEF Runs, RunOk
  <2> QED
    BY <1>2, <2>1, <2>2
<1>6. Entries' /\ Runs' /\ Bounded'
  BY <1>2, <1>4, <1>5, Steady
<1>7. Waits'
  <2>1. \A d \in Call : Waiting(d)' => rpc'[d] = rpc[d]
    BY <1>3 DEF Others, Waiting
  <2> QED
    BY <1>2, <2>1, SteadyWaits
<1> QED
  BY <1>6, <1>7

(* The browser has closed a context: whoever waited finds it gone.         *)
LEMMA CloseDoneStep ==
  ASSUME TypeOK, Calls, Entries, Runs, Waits, Bounded, NEW e \in Entry, CloseDone(e)
  PROVE  Entries' /\ Runs' /\ Waits' /\ Bounded'
<1>1. /\ closing[e] = "pending" /\ UNCHANGED <<rpc, busy, late>>
      /\ closing'[e] = "done" /\ \A f \in Entry \ {e} : closing'[f] = closing[f]
      /\ \A i \in Id : sessions'[i] = IF sessions[i] = e THEN None ELSE sessions[i]
  BY DEF CloseDone, TypeOK
<1>2. e # None /\ None \notin Entry
  BY WorkerSets
<1>3. Entries'
  <2>1. \A f \in Entry : Filed(f)' <=> closing'[f] # "done"
    BY <1>1, <1>2 DEF Entries, Filed
  <2>2. \A i, j \in Id : sessions'[i] = sessions'[j] /\ sessions'[i] # None => i = j
    BY <1>1, <1>2 DEF Entries
  <2>3. \A f \in Entry : (closing'[f] # "no" => busy'[f]) /\ (late'[f] => closing'[f] # "no")
    BY <1>1 DEF Entries
  <2> QED
    BY <2>1, <2>2, <2>3 DEF Entries
<1>4. Runs'
  <2>1. ASSUME NEW c \in Call, rpc[c].at = "running"
        PROVE  /\ rpc[c].entry \in Entry \ {e} /\ rpc[c].id \in Id
               /\ sessions[rpc[c].id] = rpc[c].entry /\ busy[rpc[c].entry] /\ closing[rpc[c].entry] = "no"
    BY <1>1, <2>1 DEF Runs, Calls, Open
  <2> QED
    BY <1>1, <2>1 DEF Runs
<1>5. Waits'
  <2>1. ASSUME NEW c \in Call, rpc[c].at = "expiring"
        PROVE  \E f \in Entry :
                 /\ rpc[c].waits = {f}
                 /\ \/ closing'[f] = "pending" /\ sessions'[rpc[c].id] = f
                    \/ closing'[f] = "done" /\ sessions'[rpc[c].id] = None
    <3>1. PICK f \in Entry : /\ rpc[c].waits = {f}
                             /\ \/ closing[f] = "pending" /\ sessions[rpc[c].id] = f
                                \/ closing[f] = "done" /\ sessions[rpc[c].id] = None
      BY <2>1 DEF Waits
    <3>2. rpc[c].id \in Id
      BY <2>1 DEF Calls, Open
    <3> QED
      BY <1>1, <1>2, <3>1, <3>2
  <2>2. ASSUME NEW c \in Call, rpc[c].at = "room"
        PROVE  rpc[c].action = "challenge" /\ sessions'[rpc[c].id] = None
    <3>1. rpc[c].id \in Id
      BY <2>2 DEF Calls, Open
    <3> QED
      BY <1>1, <1>2, <2>2, <3>1 DEF Waits
  <2> QED
    BY <1>1, <2>1, <2>2 DEF Waits, Waiting
<1>6. Bounded'
  <2> DEFINE F == {j \in Id : sessions[j] # None}
             G == {j \in Id : sessions'[j] # None}
  <2>1. IsFiniteSet(F) /\ G \subseteq F
    BY <1>1, FS_Subset, WorkerSets
  <2>2. Cardinality(G) <= Cardinality(F) /\ IsFiniteSet(G)
    BY <2>1, FS_Subset
  <2>3. Cardinality(F) \in Nat /\ Cardinality(G) \in Nat /\ Cardinality(F) <= MaxSessions
    BY <2>1, <2>2, FS_CardinalityType DEF Bounded, Size
  <2> HIDE DEF F, G
  <2>4. Cardinality(G) <= MaxSessions
    BY <2>2, <2>3, WorkerBounds
  <2> QED
    BY <2>4 DEF Bounded, Size, G
<1> QED
  BY <1>3, <1>4, <1>5, <1>6

(* The process has exited: it holds nothing.                                *)
LEMMA CloseStuckStep ==
  ASSUME NEW e \in Entry, CloseStuck(e)
  PROVE  Entries' /\ Runs' /\ Waits' /\ Bounded'
<1>1. /\ \A c \in Call : rpc'[c].at = "idle"
      /\ \A i \in Id : sessions'[i] = None
      /\ \A f \in Entry : busy'[f] /\ closing'[f] = "done" /\ ~late'[f]
  BY DEF CloseStuck, Idle
<1>2. Entries'
  BY <1>1, WorkerSets DEF Entries, Filed
<1>3. Runs' /\ Waits'
  BY <1>1 DEF Runs, Waits, Waiting
<1>4. Bounded'
  <2>1. {i \in Id : sessions'[i] # None} = {}
    BY <1>1
  <2> QED
    BY <2>1, FS_EmptySet, WorkerBounds DEF Bounded, Size
<1> QED
  BY <1>2, <1>3, <1>4

(* A closing awaited stays begun: an entry is used again only when no      *)
(* handler awaits it, and whoever awaits a closing has begun it.           *)
LEMMA AwaitsKept ==
  ASSUME TypeOK, Calls, Awaits, Next
  PROVE  Awaits'
<1> DEFINE Began == \A c \in Call : \A e \in rpc'[c].waits : e \in rpc[c].waits \/ closing'[e] # "no"
           Stays == \A e \in Entry : closing[e] # "no" =>
                      closing'[e] # "no" \/ \A c \in Call : e \notin rpc'[c].waits
<1>1. \A c \in Call : rpc[c].waits \subseteq Entry
  BY DEF TypeOK, Handler
<1>2. ASSUME Began, Stays, \A c \in Call : rpc'[c].waits \subseteq Entry PROVE Awaits'
  BY <1>1, <1>2 DEF Awaits
<1>3. Idle.waits = {}
  BY DEF Idle
<1>4. ASSUME closing' = closing, \A c \in Call : rpc'[c].waits \subseteq rpc[c].waits PROVE Awaits'
  BY <1>4 DEF Awaits
<1>5. ASSUME NEW i \in Id, Go(i) \/ GoDrops(i) PROVE Awaits'
  <2>1. closing' = closing
    BY <1>5 DEF Go, GoOpens, GoCalls, GoDrops, GoGivesUp, entryVars
  <2>2. \A c \in Call : rpc'[c].waits \subseteq rpc[c].waits
    <3>1. CASE GoGivesUp(i)
      BY <3>1 DEF GoGivesUp
    <3>2. CASE ~GoGivesUp(i)
      <4>1. PICK place \in {"calling", "dropping"}, action \in Action : SendCall(i, place, action)
        BY <1>5, <3>2 DEF Go, GoOpens, GoCalls, GoDrops, Action
      <4>2. \/ rpc' = rpc
            \/ \E c \in Call : rpc' = [rpc EXCEPT ![c] = [Idle EXCEPT !.at = "reading", !.action = action, !.id = i]]
        BY <4>1 DEF SendCall
      <4>3. [Idle EXCEPT !.at = "reading", !.action = action, !.id = i].waits = {}
        BY DEF Idle
      <4> QED
        BY <4>2, <4>3 DEF TypeOK
    <3> QED
      BY <3>1, <3>2
  <2> QED
    BY <1>4, <2>1, <2>2
<1>6. ASSUME NEW c \in Call, Read(c) \/ ReadAborted(c) \/ Run(c) \/ Deadline(c) PROVE Awaits'
  <2>1. ASSUME NEW reply, End(c, reply), closing' = closing PROVE Awaits'
    <3>1. \A d \in Call : rpc'[d] = rpc[d] \/ rpc'[d] = Idle
      BY <2>1 DEF End, TypeOK
    <3> QED
      BY <1>3, <1>4, <2>1, <3>1
  <2>2. ASSUME NEW S \in SUBSET Entry, NEW place \in {"expiring", "room", "ending"}, NEW reply \in Reply,
               DropAll(S), Await(c, place, S, reply)
        PROVE  Awaits'
    <3>1. \A e \in Entry : closing'[e] = IF e \in S /\ closing[e] = "no" THEN "pending" ELSE closing[e]
      BY <2>2 DEF DropAll
    <3>2. Moves(c, place) /\ rpc'[c].waits = S
      BY <2>2, AwaitMoves
    <3>3. Began /\ Stays /\ \A d \in Call : rpc'[d].waits \subseteq Entry
      BY <1>1, <3>1, <3>2 DEF Moves, Others
    <3> QED
      BY <1>2, <3>3
  <2>3. CASE ReadBusy(c) \/ ReadAborted(c) \/ ReadMissing(c) \/ Full(c) \/ CreateBeyondBound(c)
             \/ Ending(c) \/ RunOk(c)
    BY <2>1, <2>3 DEF ReadBusy, ReadAborted, ReadMissing, Full, CreateBeyondBound, Ending, RunOk, entryVars
  <2>4. CASE ReadExpired(c)
    BY <2>2, <2>4 DEF ReadExpired, Reply
  <2>5. CASE ReadClose(c) \/ RunFails(c) \/ Deadline(c)
    <3>1. rpc[c].id \in Id
      BY <2>5 DEF Calls, ReadClose, RunFails, Deadline, NoEntry, Usable, Reads, Open
    <3>2. Target(rpc[c].id) \in SUBSET Entry
      BY <3>1, TargetFacts
    <3> QED
      BY <2>2, <2>5, <3>2 DEF ReadClose, RunFails, Deadline, Reply
  <2>6. CASE MakeRoom(c)
    BY <2>2, <2>6 DEF MakeRoom, Reply
  <2>7. ASSUME NEW e \in Entry, Create(c, e) PROVE Awaits'
    <3>1. \A d \in Call : e \notin rpc[d].waits
      BY <2>7 DEF Create, Unused
    <3>2. \A d \in Call : rpc'[d].waits \subseteq rpc[d].waits
      BY <2>7 DEF Create, TypeOK, Handler
    <3>3. \A f \in Entry \ {e} : closing'[f] = closing[f]
      BY <2>7 DEF Create, TypeOK
    <3> QED
      BY <1>1, <3>1, <3>2, <3>3 DEF Awaits
  <2>8. CASE Start(c)
    <3>1. closing' = closing
      BY <2>8 DEF Start
    <3>2. \A d \in Call : rpc'[d].waits = rpc[d].waits
      BY <2>8 DEF Start, TypeOK, Handler
    <3> QED
      BY <1>4, <3>1, <3>2
  <2> QED
    BY <1>6, <2>3, <2>4, <2>5, <2>6, <2>7, <2>8 DEF Read, Run
<1>7. ASSUME NEW e \in Entry, Opened(e) \/ LateEnd(e) \/ Expire(e) PROVE Awaits'
  BY <1>4, <1>7 DEF Opened, LateEnd, Expire
<1>8. ASSUME NEW e \in Entry, Close(e) PROVE Awaits'
  <2>1. CASE CloseDone(e)
    <3>1. rpc' = rpc /\ \A f \in Entry : closing[f] # "no" => closing'[f] # "no"
      BY <2>1 DEF CloseDone, TypeOK
    <3> QED
      BY <1>1, <3>1 DEF Awaits
  <2>2. CASE CloseStuck(e)
    BY <1>3, <2>2 DEF CloseStuck, Awaits
  <2> QED
    BY <1>8, <2>1, <2>2 DEF Close
<1>9. CASE ReapTick
  <2>1. rpc' = rpc /\ \A f \in Entry : closing[f] # "no" => closing'[f] # "no"
    BY <1>9 DEF ReapTick, DropAll
  <2> QED
    BY <1>1, <2>1 DEF Awaits
<1>10. CASE Restart
  BY <1>4, <1>10 DEF Restart, entryVars
<1> QED
  BY <1>5, <1>6, <1>7, <1>8, <1>9, <1>10 DEF Next

----------------------------------------------------------------------------
(* The invariant, and what follows from it.                                *)

(* The invariant holds at first.                                           *)
LEMMA InitInv ==
  ASSUME Init PROVE IInv
<1>1. TypeOK
  BY InitType
<1>2. /\ \A c \in Call : rpc[c].at = "idle"
      /\ \A i \in Id : go[i].at = "none" /\ go[i].call = None /\ sessions[i] = None
      /\ \A e \in Entry : busy[e] /\ closing[e] = "done" /\ ~late[e]
  BY DEF Init, GoAt, Idle
<1>3. Calls /\ Challenges
  BY <1>2 DEF Calls, Challenges, Challenging, Open
<1>4. Entries /\ Runs /\ Waits
  BY <1>2, WorkerSets DEF Entries, Filed, Runs, Waits, Waiting
<1>5. Bounded
  <2>1. {i \in Id : sessions[i] # None} = {}
    BY <1>2
  <2> QED
    BY <2>1, FS_EmptySet, WorkerBounds DEF Bounded, Size
<1>6. Awaits
  BY DEF Init, Idle, Awaits
<1> QED
  BY <1>1, <1>3, <1>4, <1>5, <1>6 DEF IInv

(* Every step keeps the invariant.                                         *)
LEMMA StepInv ==
  ASSUME IInv, [Next]_vars PROVE IInv'
<1> USE DEF IInv
<1>1. CASE UNCHANGED vars
  BY <1>1 DEF vars, entryVars, TypeOK, Calls, Challenges, Challenging, Open, Entries, Filed, Runs,
       Waits, Waiting, Awaits, Bounded, Size
<1>2. CASE Next
  <2>1. TypeOK'
    BY <1>2, GoType, HandlerType, RestType DEF Next, Run
  <2>2. Calls' /\ Challenges'
    BY <1>2, GoCallsKept, WorkerCallsKept, RestCallsKept DEF Next
  <2>3. Entries' /\ Runs' /\ Waits' /\ Bounded'
    <3>1. CASE \E i \in Id : Go(i) \/ GoDrops(i)
      BY <3>1, QuietSteps
    <3>2. ASSUME NEW c \in Call, Read(c) \/ ReadAborted(c) \/ Run(c) \/ Deadline(c)
          PROVE  Entries' /\ Runs' /\ Waits' /\ Bounded'
      <4>1. CASE ReadBusy(c) \/ ReadMissing(c) \/ Full(c) \/ CreateBeyondBound(c) \/ Ending(c) \/ ReadAborted(c)
        BY <4>1, QuietSteps
      <4>2. CASE ReadClose(c) \/ RunFails(c) \/ Deadline(c)
        BY <4>2, DropSteps
      <4>3. CASE ReadExpired(c)
        BY <4>3, ExpiredStep
      <4>4. CASE MakeRoom(c)
        BY <4>4, RoomStep
      <4>5. CASE \E e \in Entry : Create(c, e)
        BY <4>5, CreateStep
      <4>6. CASE Start(c)
        BY <4>6, StartStep
      <4>7. CASE RunOk(c)
        BY <4>7, RunOkStep
      <4> QED
        BY <3>2, <4>1, <4>2, <4>3, <4>4, <4>5, <4>6, <4>7 DEF Read, Run
    <3>3. CASE \E e \in Entry : Opened(e) \/ LateEnd(e) \/ Expire(e)
      BY <3>3, QuietSteps
    <3>4. CASE \E e \in Entry : Close(e)
      BY <3>4, CloseDoneStep, CloseStuckStep DEF Close
    <3>5. CASE ReapTick
      BY <3>5, DropSteps
    <3>6. CASE Restart
      BY <3>6, QuietSteps
    <3> QED
      BY <1>2, <3>1, <3>2, <3>3, <3>4, <3>5, <3>6 DEF Next
  <2>4. Awaits'
    BY <1>2, AwaitsKept
  <2> QED
    BY <2>1, <2>2, <2>3, <2>4
<1> QED
  BY <1>1, <1>2

(* The invariant holds in every state.                                     *)
LEMMA Invariant == Spec => []IInv
<1>1. Init => IInv
  BY InitInv
<1>2. IInv /\ [Next]_vars => IInv'
  BY StepInv
<1> QED
  BY <1>1, <1>2, PTL DEF Spec

(* Every variable of the worker's model keeps its type.                    *)
THEOREM TypeCorrect == Spec => []TypeOK
<1>1. IInv => TypeOK
  BY DEF IInv
<1> QED
  BY <1>1, Invariant, PTL

(* handle: an operation has its context to itself, and none runs on one    *)
(* that is being closed, though calls are abandoned while they run.        *)
THEOREM OneRun == Spec => []OneRunPerContext
<1>1. IInv => OneRunPerContext
  BY DEF IInv, Entries, Runs, Running, Filed, OneRunPerContext, Calls, Open
<1> QED
  BY <1>1, Invariant, PTL

(* drop: a context can be found in the map until it has been closed.       *)
THEOREM Tracked == Spec => []ContextsTracked
<1>1. IInv => ContextsTracked
  BY DEF IInv, Entries, ContextsTracked
<1> QED
  BY <1>1, Invariant, PTL

(* handle, bridge.Call: whoever waits, waits for something under way: Go   *)
(* for an open request of its session, a handler for closings begun.       *)
THEOREM NobodyWaitsInVain == Spec => []WaitsBacked
<1>1. IInv => WaitsBacked
  BY DEF IInv, Calls, Open, Awaits, WaitsBacked
<1> QED
  BY <1>1, Invariant, PTL

(* Each context kept is in the map under an id of its own.                 *)
LEMMA KeptFit ==
  ASSUME IInv
  PROVE  IsFiniteSet(Kept) /\ Size \in Nat /\ Cardinality(Kept) <= Size
<1> DEFINE F == {i \in Id : sessions[i] # None}
           id == [e \in Kept |-> CHOOSE i \in Id : sessions[i] = e]
<1>1. \A e \in Kept : e \in Entry /\ id[e] \in Id /\ sessions[id[e]] = e
  BY DEF IInv, Entries, Filed, Kept
<1>2. id = [e \in Kept |-> id[e]]
  OBVIOUS
<1>3. IsFiniteSet(F)
  BY FS_Subset, WorkerSets
<1> HIDE DEF id
<1>4. \A e \in Kept : id[e] \in F
  BY <1>1, WorkerSets
<1>5. id \in [Kept -> F]
  BY <1>2, <1>4
<1>6. id \in [Kept -> F] /\ \A e, f \in Kept : id[e] = id[f] => e = f
  BY <1>1, <1>5
<1>7. id \in Injection(Kept, F)
  BY <1>6 DEF Injection, IsInjective
<1>8. IsFiniteSet(Kept) /\ Cardinality(Kept) <= Cardinality(F)
  BY <1>3, <1>7, FS_Injection
<1> QED
  BY <1>3, <1>8, FS_CardinalityType DEF Size

(* handle: contexts, those being closed included, stay within capacity:    *)
(* each is in the map under an id of its own.                              *)
THEOREM WithinCapacity == Spec => []ContextsBounded
<1>1. ASSUME IInv PROVE ContextsBounded
  <2> DEFINE C == {e \in Entry : context[e] # "none" /\ closing[e] # "done"}
  <2>1. C \subseteq Kept
    BY DEF Kept
  <2>2. Size \in Nat /\ Size <= MaxSessions
    BY <1>1, KeptFit DEF IInv, Bounded
  <2>3. Cardinality(C) <= Cardinality(Kept) /\ Cardinality(C) \in Nat /\ Cardinality(Kept) \in Nat
    BY <1>1, <2>1, KeptFit, FS_Subset, FS_CardinalityType
  <2> HIDE DEF C
  <2>4. Cardinality(C) <= MaxSessions
    BY <1>1, <2>2, <2>3, KeptFit, WorkerBounds
  <2> QED
    BY <2>4 DEF ContextsBounded, C
<1> QED
  BY <1>1, Invariant, PTL

----------------------------------------------------------------------------
(* The worker keeps its pool.                                              *)

poolVars == <<Kept, InUse, BeingClosed>>
PoolStep == [Pool!Next]_poolVars

(* Handlers that do not run before or after a step use nothing.            *)
LEMMA SameUse ==
  ASSUME \A c \in Call : \/ rpc'[c] = rpc[c]
                         \/ rpc[c].at # "running" /\ rpc'[c].at # "running"
  PROVE  InUse' = InUse
<1>1. \A e \in Entry : Running(e)' = Running(e)
  BY DEF Running
<1> QED
  BY <1>1 DEF InUse

(* A handler that begins to run on an entry uses it.                       *)
LEMMA MoreUse ==
  ASSUME NEW c \in Call, Others(c), rpc[c].at # "running", NEW e \in Entry,
         rpc'[c].at = "running", rpc'[c].entry = e
  PROVE  InUse' = InUse \cup {e}
<1>1. \A f \in Entry : Running(f)' = IF f = e THEN Running(f) \cup {c} ELSE Running(f)
  BY DEF Running, Others
<1> QED
  BY <1>1 DEF InUse

(* One that ends was alone on its entry, which is used no longer.          *)
LEMMA LessUse ==
  ASSUME Runs, NEW c \in Call, Others(c), rpc[c].at = "running", rpc'[c].at # "running"
  PROVE  rpc[c].entry \in InUse /\ InUse' = InUse \ {rpc[c].entry}
<1>1. rpc[c].entry \in Entry /\ Running(rpc[c].entry) = {c}
  BY DEF Runs, Running
<1>2. \A f \in Entry : Running(f)' = Running(f) \ {c}
  BY DEF Running, Others
<1>3. \A f \in Entry : c \in Running(f) => f = rpc[c].entry
  BY DEF Running
<1> QED
  BY <1>1, <1>2, <1>3 DEF InUse

(* Whatever is used is marked busy and not being closed.                   *)
LEMMA UsedAreBusy ==
  ASSUME Runs
  PROVE  \A e \in InUse : e \in Entry /\ busy[e] /\ closing[e] = "no"
BY DEF Runs, InUse, Running

(* Entries that are dropped while nobody uses them are closed.             *)
LEMMA DropsClose ==
  ASSUME TypeOK, Entries, Runs, NEW S \in SUBSET Entry, DropAll(S), InUse' = InUse,
         \A e \in S : Filed(e) /\ e \notin InUse
  PROVE  Pool!Close(S)
<1>1. \A e \in Entry : closing'[e] = IF e \in S /\ closing[e] = "no" THEN "pending" ELSE closing[e]
  BY DEF DropAll
<1>2. \A e \in S : closing[e] \in {"no", "pending"}
  BY DEF Entries, TypeOK
<1>3. S \subseteq Kept \ InUse
  BY <1>2 DEF Kept
<1>4. Kept' = Kept
  BY <1>1 DEF Kept
<1>5. BeingClosed' = BeingClosed \cup S
  BY <1>1, <1>2 DEF BeingClosed
<1> QED
  BY <1>3, <1>4, <1>5 DEF Pool!Close

(* Go's steps, and the answers to requests that are not running, use none. *)
LEMMA PoolIdle ==
  ASSUME IInv,
         \/ \E i \in Id : Go(i) \/ GoDrops(i)
         \/ \E c \in Call : \/ ReadBusy(c) \/ ReadMissing(c) \/ Full(c) \/ CreateBeyondBound(c)
                            \/ Ending(c) \/ ReadAborted(c)
         \/ \E e \in Entry : Opened(e) \/ LateEnd(e) \/ Expire(e)
         \/ Restart
  PROVE  UNCHANGED poolVars
<1> USE DEF IInv
<1>1. closing' = closing
  BY DEF Go, GoOpens, GoCalls, GoDrops, GoGivesUp, ReadBusy, ReadMissing, Full, CreateBeyondBound,
         Ending, ReadAborted, Opened, LateEnd, Expire, Restart, entryVars
<1>2. \A c \in Call : rpc'[c] = rpc[c] \/ (rpc[c].at # "running" /\ rpc'[c].at # "running")
  <2>1. ASSUME NEW i \in Id, Go(i) \/ GoDrops(i)
        PROVE  \A c \in Call : rpc'[c] = rpc[c] \/ (rpc[c].at # "running" /\ rpc'[c].at # "running")
    <3>1. CASE GoGivesUp(i)
      BY <3>1 DEF GoGivesUp
    <3>2. CASE ~GoGivesUp(i)
      <4>1. PICK place \in {"calling", "dropping"}, action \in Action : SendCall(i, place, action)
        BY <2>1, <3>2 DEF Go, GoOpens, GoCalls, GoDrops, Action
      <4>2. \/ rpc' = rpc
            \/ \E c \in Call : ~Open(c) /\ Others(c) /\ rpc'[c].at = "reading"
        BY <4>1, SendFacts
      <4> QED
        BY <4>2 DEF Open, Others
    <3> QED
      BY <3>1, <3>2
  <2>2. ASSUME NEW c \in Call,
               \/ ReadBusy(c) \/ ReadMissing(c) \/ Full(c) \/ CreateBeyondBound(c)
               \/ Ending(c) \/ ReadAborted(c)
        PROVE  \A d \in Call : rpc'[d] = rpc[d] \/ (rpc[d].at # "running" /\ rpc'[d].at # "running")
    <3>1. PICK r \in Reply : End(c, r)
      BY <2>2 DEF ReadBusy, ReadMissing, Full, CreateBeyondBound, Ending, ReadAborted, Reply, TypeOK, Handler
    <3>2. Others(c) /\ rpc'[c].at = "idle"
      BY <3>1, EndFacts
    <3>3. rpc[c].at # "running"
      BY <2>2 DEF ReadBusy, ReadMissing, Full, CreateBeyondBound, Ending, ReadAborted, MayCreate,
                  NoEntry, Reads, Resumable
    <3> QED
      BY <3>2, <3>3 DEF Others
  <2>3. ASSUME (\E e \in Entry : Opened(e) \/ LateEnd(e) \/ Expire(e)) \/ Restart
        PROVE  rpc' = rpc
    BY <2>3 DEF Opened, LateEnd, Expire, Restart
  <2> QED
    BY <2>1, <2>2, <2>3
<1>3. InUse' = InUse
  BY <1>2, SameUse
<1> QED
  BY <1>1, <1>3 DEF poolVars, Kept, BeingClosed

(* The steps that close what nobody uses.                                  *)
LEMMA PoolCloses ==
  ASSUME IInv,
         ReapTick \/ \E c \in Call : ReadExpired(c) \/ ReadClose(c) \/ MakeRoom(c)
  PROVE  \E S \in SUBSET Entry : Pool!Close(S)
<1> USE DEF IInv
<1>1. CASE ReapTick
  <2> DEFINE S == {e \in Entry : Reapable(e)}
  <2>1. S \in SUBSET Entry /\ DropAll(S) /\ rpc' = rpc
    BY <1>1 DEF ReapTick
  <2>2. \A e \in S : Filed(e) /\ e \notin InUse
    BY UsedAreBusy DEF Reapable
  <2>3. InUse' = InUse
    BY <2>1, SameUse
  <2> HIDE DEF S
  <2> QED
    BY <2>1, <2>2, <2>3, DropsClose
<1>2. ASSUME NEW c \in Call, ReadExpired(c) \/ ReadClose(c) \/ MakeRoom(c)
      PROVE  \E S \in SUBSET Entry : Pool!Close(S)
  <2>1. rpc[c].at # "running" /\ rpc[c].id \in Id
    BY <1>2 DEF ReadExpired, ReadClose, MakeRoom, NoEntry, Usable, Reads, Calls, Open
  <2>2. PICK S \in SUBSET Entry, place \in {"expiring", "room", "ending"}, r \in Reply :
          /\ DropAll(S) /\ Await(c, place, S, r)
          /\ \A e \in S : Filed(e) /\ ~busy[e]
    <3>1. CASE ReadExpired(c)
      <4>1. PICK e \in Entry : Reads(c, e) /\ ~Taken(e) /\ DropAll({e}) /\ Await(c, "expiring", {e}, "ok")
        BY <3>1 DEF ReadExpired
      <4>2. Filed(e) /\ ~busy[e]
        BY <2>1, <4>1 DEF Filed, Reads, Taken
      <4> QED
        BY <4>1, <4>2 DEF Reply
    <3>2. CASE ReadClose(c)
      <4> DEFINE S == Target(rpc[c].id)
      <4>1. S \in SUBSET Entry /\ \A e \in Entry : e \in S <=> sessions[rpc[c].id] = e
        BY <2>1, TargetFacts
      <4>2. DropAll(S) /\ Await(c, "ending", S, "ok") /\ (NoEntry(c) \/ \E e \in Entry : Usable(c, e))
        BY <3>2 DEF ReadClose
      <4>3. \A e \in S : Filed(e)
        BY <2>1, <4>1 DEF Filed
      <4>4. \A e \in S : ~busy[e]
        <5>1. CASE NoEntry(c)
          BY <4>1, <5>1, NoEntryFacts, WorkerSets
        <5>2. CASE \E e \in Entry : Usable(c, e)
          BY <4>1, <5>2 DEF Usable, Reads, Taken
        <5> QED
          BY <4>2, <5>1, <5>2
      <4> HIDE DEF S
      <4> QED
        BY <4>1, <4>2, <4>3, <4>4 DEF Reply
    <3>3. CASE MakeRoom(c)
      <4> DEFINE S == {e \in Entry : Filed(e) /\ ~busy[e] /\ expired[e]}
      <4>1. DropAll(S) /\ Await(c, "room", S, "failed")
        BY <3>3 DEF MakeRoom
      <4>2. S \in SUBSET Entry /\ \A e \in S : Filed(e) /\ ~busy[e]
        OBVIOUS
      <4> HIDE DEF S
      <4> QED
        BY <4>1, <4>2 DEF Reply
    <3> QED
      BY <1>2, <3>1, <3>2, <3>3
  <2>3. Moves(c, place)
    BY <2>2, AwaitMoves
  <2>4. InUse' = InUse
    BY <2>1, <2>3, SameUse DEF Moves, Others
  <2>5. \A e \in S : Filed(e) /\ e \notin InUse
    BY <2>2, UsedAreBusy
  <2> QED
    BY <2>2, <2>4, <2>5, DropsClose
<1> QED
  BY <1>1, <1>2

(* The step that opens a context has found room for it.                    *)
LEMMA PoolOpens ==
  ASSUME IInv, NEW c \in Call, NEW e \in Entry, Create(c, e)
  PROVE  Pool!Open(e)
<1> USE DEF IInv
<1>1. rpc[c].at # "running"
  BY DEF Create, MayCreate, NoEntry, Reads
<1>2. Moves(c, "running") /\ rpc'[c].entry = e
  BY RunMoves DEF Create
<1>3. InUse' = InUse \cup {e}
  BY <1>1, <1>2, MoreUse DEF Moves
<1>4. e \notin Kept
  BY DEF Create, Unused, Entries, Kept
<1>5. closing' = [closing EXCEPT ![e] = "no"] /\ closing \in [Entry -> {"no", "pending", "done"}]
  BY DEF Create, TypeOK
<1>6. Kept' = Kept \cup {e} /\ BeingClosed' = BeingClosed
  BY <1>4, <1>5 DEF Kept, BeingClosed
<1>7. Cardinality(Kept) < MaxSessions
  <2>1. Size < MaxSessions
    BY DEF Create, MayCreate, HasRoom
  <2> QED
    BY <2>1, KeptFit, FS_CardinalityType, WorkerBounds
<1>8. Pool!Cardinality(Kept) = Cardinality(Kept)
  BY DEF Pool!Cardinality, Cardinality
<1> QED
  BY <1>3, <1>4, <1>6, <1>7, <1>8 DEF Pool!Open

(* An operation begins on an entry that is in the map and idle.            *)
LEMMA PoolBegins ==
  ASSUME IInv, NEW c \in Call, Start(c)
  PROVE  \E e \in Entry : Pool!Begin(e)
<1> USE DEF IInv
<1>1. PICK e \in Entry : /\ Usable(c, e)
                         /\ rpc' = [rpc EXCEPT ![c].at = "running", ![c].entry = e]
  BY DEF Start
<1>2. rpc[c].at # "running" /\ rpc[c].id \in Id /\ sessions[rpc[c].id] = e /\ ~busy[e]
  BY <1>1 DEF Usable, Reads, Taken, Calls, Open
<1>3. InUse' = InUse \cup {e}
  BY <1>1, <1>2, RunMoves, MoreUse DEF Moves
<1>4. e \in Kept \ (InUse \cup BeingClosed)
  <2>1. closing[e] = "no"
    BY <1>2 DEF Entries
  <2> QED
    BY <1>2, <2>1, UsedAreBusy DEF Kept, BeingClosed
<1>5. closing' = closing
  BY DEF Start
<1> QED
  BY <1>3, <1>4, <1>5 DEF Pool!Begin, Kept, BeingClosed

(* One that succeeds gives its entry back; one that fails closes it.       *)
LEMMA PoolEnds ==
  ASSUME IInv, NEW c \in Call, Run(c) \/ Deadline(c)
  PROVE  \E e \in Entry : Pool!End(e) \/ Pool!Fail(e)
<1> DEFINE e == rpc[c].entry
<1> USE DEF IInv
<1>1. rpc[c].at = "running"
  BY DEF Run, RunOk, RunFails, Deadline
<1>2. e \in Entry /\ sessions[rpc[c].id] = e /\ closing[e] = "no" /\ rpc[c].id \in Id
  BY <1>1 DEF Runs, Calls, Open
<1>3. CASE RunOk(c)
  <2>1. End(c, "ok") /\ closing' = closing
    BY <1>3 DEF RunOk
  <2>2. Others(c) /\ rpc'[c].at = "idle"
    BY <2>1, EndFacts DEF Reply
  <2>3. e \in InUse /\ InUse' = InUse \ {e}
    BY <1>1, <2>2, LessUse
  <2>4. Pool!End(e)
    BY <2>1, <2>3 DEF Pool!End, Kept, BeingClosed
  <2> QED
    BY <1>2, <2>4
<1>4. CASE RunFails(c) \/ Deadline(c)
  <2> DEFINE S == Target(rpc[c].id)
  <2>1. S \in SUBSET Entry /\ \A f \in Entry : f \in S <=> f = e
    BY <1>2, TargetFacts
  <2>2. DropAll(S) /\ \E r \in Reply : Await(c, "ending", S, r)
    BY <1>4 DEF RunFails, Deadline, Reply
  <2>3. Others(c) /\ rpc'[c].at = "ending"
    BY <2>1, <2>2, AwaitMoves DEF Moves
  <2>4. e \in InUse /\ InUse' = InUse \ {e}
    BY <1>1, <2>3, LessUse
  <2>5. \A f \in Entry : closing'[f] = IF f = e THEN "pending" ELSE closing[f]
    BY <1>2, <2>1, <2>2 DEF DropAll
  <2> HIDE DEF S
  <2>6. Kept' = Kept /\ BeingClosed' = BeingClosed \cup {e}
    BY <1>2, <2>5 DEF Kept, BeingClosed
  <2>7. Pool!Fail(e)
    BY <2>4, <2>6 DEF Pool!Fail
  <2> QED
    BY <1>2, <2>7
<1> QED
  BY <1>3, <1>4 DEF Run

(* A close that ends frees the place; one that hangs ends the worker.      *)
LEMMA PoolClosed ==
  ASSUME IInv, NEW e \in Entry, Close(e)
  PROVE  Pool!Closed(e) \/ Pool!Exit
<1> USE DEF IInv
<1>1. CASE CloseDone(e)
  <2>1. closing[e] = "pending" /\ closing' = [closing EXCEPT ![e] = "done"] /\ rpc' = rpc
    BY <1>1 DEF CloseDone
  <2>2. InUse' = InUse
    BY <2>1, SameUse
  <2>3. \A f \in Entry : closing'[f] = IF f = e THEN "done" ELSE closing[f]
    BY <2>1 DEF TypeOK
  <2>4. e \in BeingClosed /\ Kept' = Kept \ {e} /\ BeingClosed' = BeingClosed \ {e}
    BY <2>1, <2>3 DEF Kept, BeingClosed
  <2> QED
    BY <2>2, <2>4 DEF Pool!Closed
<1>2. CASE CloseStuck(e)
  <2>1. \A f \in Entry : closing'[f] = "done"
    BY <1>2 DEF CloseStuck
  <2>2. \A c \in Call : rpc'[c].at = "idle"
    BY <1>2 DEF CloseStuck, Idle
  <2>3. \A f \in Entry : Running(f)' = {}
    BY <2>2 DEF Running
  <2>4. Kept' = {} /\ BeingClosed' = {} /\ InUse' = {}
    BY <2>1, <2>3 DEF Kept, BeingClosed, InUse
  <2> QED
    BY <2>4 DEF Pool!Exit
<1> QED
  BY <1>1, <1>2 DEF Close

(* Every step of the worker is a step of the pool, or none.                *)
LEMMA StepKeepsPool ==
  ASSUME IInv, [Next]_vars PROVE PoolStep
<1>1. CASE UNCHANGED vars
  BY <1>1 DEF vars, entryVars, PoolStep, poolVars, Kept, InUse, BeingClosed, Running
<1>2. CASE \/ \E i \in Id : Go(i) \/ GoDrops(i)
           \/ \E c \in Call : \/ ReadBusy(c) \/ ReadMissing(c) \/ Full(c) \/ CreateBeyondBound(c)
                              \/ Ending(c) \/ ReadAborted(c)
           \/ \E e \in Entry : Opened(e) \/ LateEnd(e) \/ Expire(e)
           \/ Restart
  BY <1>2, PoolIdle DEF PoolStep
<1>3. CASE ReapTick \/ \E c \in Call : ReadExpired(c) \/ ReadClose(c) \/ MakeRoom(c)
  BY <1>3, PoolCloses DEF PoolStep, Pool!Next
<1>4. CASE \E c \in Call, e \in Entry : Create(c, e)
  BY <1>4, PoolOpens DEF PoolStep, Pool!Next
<1>5. CASE \E c \in Call : Start(c)
  BY <1>5, PoolBegins DEF PoolStep, Pool!Next
<1>6. CASE \E c \in Call : Run(c) \/ Deadline(c)
  BY <1>6, PoolEnds DEF PoolStep, Pool!Next
<1>7. CASE \E e \in Entry : Close(e)
  BY <1>7, PoolClosed DEF PoolStep, Pool!Next
<1> QED
  BY <1>1, <1>2, <1>3, <1>4, <1>5, <1>6, <1>7 DEF Next, Read

(* handle, drop: nothing begins on a context whose closing has begun, none *)
(* is closed under an operation that is awaited, and a place is free only  *)
(* when its context has been closed: the worker implements ContextPool.    *)
THEOREM ContextsArePooled == Spec => KeepsPool
<1>1. Init => Pool!Init
  BY DEF Init, Idle, Pool!Init, Kept, InUse, BeingClosed, Running
<1>2. IInv /\ [Next]_vars => [Pool!Next]_poolVars
  BY StepKeepsPool DEF PoolStep
<1> QED
  BY <1>1, <1>2, Invariant, PTL DEF Spec, KeepsPool, Pool!Spec, Pool!poolVars, poolVars
=============================================================================
