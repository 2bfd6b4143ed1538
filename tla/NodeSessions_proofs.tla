------------------------- MODULE NodeSessions_proofs --------------------------
(***************************************************************************)
(* Proofs about NodeSessions, for every number of requests, sessions and   *)
(* places.                                                                 *)
(***************************************************************************)
EXTENDS NodeSessions, FiniteSetTheorems, TLAPS

-------------------------------------------------------------------------------
(* Types.                                                                   *)

EntryNamed ==
  \A r \in Request : req[r].at \in {"working", "failing"} => req[r].entry \in Sid

Typed == TypeOK /\ EntryNamed

\* The Map is empty at first.
LEMMA InitTyped == Init => Typed
BY NodeSets DEF Init, Typed, TypeOK, EntryNamed, Idle, Handler, Path

\* drop keeps the types of what it changes.
LEMMA DropType ==
  ASSUME TypeOK, NEW S \in SUBSET Sid, Drop(S)
  PROVE  /\ sessions' \subseteq Sid
         /\ browser' \in [Sid -> {"none", "open", "closing", "closed"}]
         /\ authenticated' \in [Sid -> BOOLEAN]
BY DEF TypeOK, Drop

\* Every callback keeps the types.
LEMMA NextTyped == Typed /\ [Next]_vars => Typed'
<1> SUFFICES ASSUME Typed, [Next]_vars
             PROVE  Typed'
  OBVIOUS
<1> USE NodeSets DEF Typed, TypeOK, EntryNamed, Handler, Path, Idle, Answer, entryVars
<1>1. ASSUME NEW r \in Request, Admit(r)
      PROVE  Typed'
  <2>1. PICK path \in {"login", "challenge"}, cookie \in Cookie :
          /\ Drop(sessions \cap {cookie})
          /\ req' = [req EXCEPT ![r] = [at |-> "admitted", path |-> path,
                                        entry |-> None, waits |-> Own(cookie)]]
    BY <1>1 DEF Admit
  <2>2. Own(cookie) \subseteq Sid
    BY DEF Own
  <2> QED BY <1>1, <2>1, <2>2, DropType DEF Admit
<1>2. ASSUME NEW r \in Request, Work(r)
      PROVE  Typed'
  <2>1. PICK path \in {"challenge", "prepare", "client", "reports"},
             cookie \in issued :
          /\ EntryOf(cookie) # None
          /\ busy' = [busy EXCEPT ![EntryOf(cookie)] = TRUE]
          /\ req' = [req EXCEPT ![r] =
               [at |-> "working", path |-> path, entry |-> EntryOf(cookie),
                waits |-> {}]]
    BY <1>2 DEF Work
  <2>2. EntryOf(cookie) \in Sid
    BY <2>1 DEF EntryOf
  <2> QED BY <1>2, <2>1, <2>2 DEF Work
<1>3. ASSUME NEW r \in Request, SignOut(r)
      PROVE  Typed'
  <2>1. PICK cookie \in Cookie :
          /\ Drop(sessions \cap {cookie})
          /\ req' = [req EXCEPT ![r] = [at |-> "leaving", path |-> "logout",
                                        entry |-> None, waits |-> Own(cookie)]]
    BY <1>3 DEF SignOut
  <2>2. Own(cookie) \subseteq Sid
    BY DEF Own
  <2> QED BY <1>3, <2>1, <2>2, DropType DEF SignOut
<1>4. ASSUME NEW r \in Request, Resume(r)
      PROVE  Typed'
  <2>1. CASE Full(r) \/ Left(r)
    BY <2>1 DEF Full, Left
  <2>2. ASSUME NEW s \in Sid, Create(r, s)
        PROVE  Typed'
    BY <2>2 DEF Create
  <2>3. CASE Failed(r)
    BY <2>3 DEF Failed, Release
  <2> QED BY <1>4, <2>1, <2>2, <2>3 DEF Resume
<1>5. ASSUME NEW r \in Request, Portal(r)
      PROVE  Typed'
  <2>1. CASE WorkOk(r)
    BY <2>1 DEF WorkOk, Release
  <2>2. CASE WorkFails(r)
    BY <2>2, DropType DEF WorkFails
  <2>3. CASE WorkInVain(r)
    BY <2>3 DEF WorkInVain, Release
  <2> QED BY <1>5, <2>1, <2>2, <2>3 DEF Portal
<1>6. ASSUME NEW s \in Sid, CloseDone(s) \/ Expire(s)
      PROVE  Typed'
  BY <1>6 DEF CloseDone, Expire
<1>7. CASE Browse
  <2>1. PICK cookie \in issued : Drop(Lapsed(cookie))
    BY <1>7 DEF Browse
  <2>2. Lapsed(cookie) \subseteq Sid
    BY DEF Lapsed
  <2> QED BY <1>7, <2>1, <2>2, DropType DEF Browse
<1>8. CASE Tick
  <2>1. Due \subseteq Sid
    BY DEF Due
  <2> QED BY <1>8, <2>1, DropType DEF Tick
<1>9. CASE UNCHANGED vars
  BY <1>9 DEF vars
<1> QED BY <1>1, <1>2, <1>3, <1>4, <1>5, <1>6, <1>7, <1>8, <1>9 DEF Next

-------------------------------------------------------------------------------
(* Who drives a browser.  A session that was never created is not busy, so  *)
(* the request that creates one is the first to mark it.                    *)

Drives(r, s) == req[r].at \in {"working", "failing"} /\ req[r].entry = s

Driven ==
  /\ \A s \in sessions : browser[s] # "none"
  /\ \A r \in Request, s \in Sid :
       Drives(r, s) => busy[s] /\ browser[s] # "none"
  /\ \A r, q \in Request, s \in Sid : Drives(r, s) /\ Drives(q, s) => r = q
  /\ \A s \in Sid : busy[s] => \E r \in Request : Drives(r, s)

\* A step keeps the browsers that exist, and a session it adds has one.
Keeps ==
  /\ \A s \in Sid : browser[s] # "none" => browser'[s] # "none"
  /\ \A s \in sessions' : s \in sessions \/ browser'[s] # "none"

\* What a step does to the drivers: nothing, one more, or one less.
Same == /\ busy' = busy
        /\ \A q \in Request, t \in Sid : Drives(q, t)' <=> Drives(q, t)
Takes(r, s) ==
  /\ ~busy[s] /\ browser'[s] # "none"
  /\ busy' = [busy EXCEPT ![s] = TRUE]
  /\ \A q \in Request, t \in Sid :
       Drives(q, t)' <=> Drives(q, t) \/ (q = r /\ t = s)
Gives(r, s) ==
  /\ Drives(r, s)
  /\ busy' = [busy EXCEPT ![s] = FALSE]
  /\ \A q \in Request, t \in Sid : Drives(q, t)' <=> Drives(q, t) /\ q # r

\* Nobody begins or ends: the drivers stay as they were.
LEMMA SameKeeps == TypeOK /\ Driven /\ Keeps /\ Same => Driven'
BY DEF TypeOK, Driven, Keeps, Same

\* A request begins on a session nobody drives.
LEMMA TakesKeeps ==
  ASSUME TypeOK, Driven, Keeps, NEW r \in Request, NEW s \in Sid, Takes(r, s)
  PROVE  Driven'
<1>1. \A t \in Sid : busy'[t] <=> busy[t] \/ t = s
  BY DEF TypeOK, Takes
<1>2. \A t \in sessions' : browser'[t] # "none"
  BY DEF TypeOK, Driven, Keeps
<1>3. \A q \in Request, t \in Sid : Drives(q, t)' => busy'[t] /\ browser'[t] # "none"
  BY <1>1 DEF Driven, Keeps, Takes
<1>4. \A p, q \in Request, t \in Sid : Drives(p, t)' /\ Drives(q, t)' => p = q
  BY DEF Driven, Takes
<1>5. \A t \in Sid : busy'[t] => \E q \in Request : Drives(q, t)'
  BY <1>1 DEF Driven, Takes
<1> QED BY <1>2, <1>3, <1>4, <1>5 DEF Driven

\* A request that ends was alone on its session.
LEMMA GivesKeeps ==
  ASSUME TypeOK, Driven, Keeps, NEW r \in Request, NEW s \in Sid, Gives(r, s)
  PROVE  Driven'
<1>1. \A t \in Sid : busy'[t] <=> busy[t] /\ t # s
  BY DEF TypeOK, Gives
<1>2. \A t \in Sid : Drives(r, t) <=> t = s
  BY DEF Gives, Drives
<1>3. \A t \in sessions' : browser'[t] # "none"
  BY DEF TypeOK, Driven, Keeps
<1>4. \A q \in Request, t \in Sid : Drives(q, t)' => busy'[t] /\ browser'[t] # "none"
  BY <1>1 DEF Driven, Keeps, Gives
<1>5. \A p, q \in Request, t \in Sid : Drives(p, t)' /\ Drives(q, t)' => p = q
  BY DEF Driven, Gives
<1>6. \A t \in Sid : busy'[t] => \E q \in Request : Drives(q, t)'
  BY <1>1, <1>2 DEF Driven, Gives
<1> QED BY <1>3, <1>4, <1>5, <1>6 DEF Driven

\* drop takes no browser from a session.
LEMMA DropKeeps ==
  ASSUME TypeOK, NEW S, Drop(S)
  PROVE  Keeps
BY DEF TypeOK, Drop, Keeps

\* Every step keeps each browser to one request.
LEMMA NextDriven ==
  ASSUME Typed, Driven, [Next]_vars
  PROVE  Driven'
<1>0. TypeOK
  BY DEF Typed
<1>1. ASSUME NEW r \in Request, Admit(r) \/ SignOut(r)
      PROVE  Keeps /\ Same
  <2>1. Keeps
    BY <1>0, <1>1, DropKeeps DEF Admit, SignOut
  <2>2. PICK h \in Handler : /\ h.at \notin {"working", "failing"}
                            /\ req' = [req EXCEPT ![r] = h]
    <3>1. CASE Admit(r)
      <4>1. PICK path \in {"login", "challenge"}, cookie \in Cookie :
              req' = [req EXCEPT ![r] = [at |-> "admitted", path |-> path,
                                         entry |-> None, waits |-> Own(cookie)]]
        BY <3>1 DEF Admit
      <4> QED BY <1>0, <4>1 DEF Own, Handler, Path, TypeOK
    <3>2. CASE SignOut(r)
      <4>1. PICK cookie \in Cookie :
              req' = [req EXCEPT ![r] = [at |-> "leaving", path |-> "logout",
                                         entry |-> None, waits |-> Own(cookie)]]
        BY <3>2 DEF SignOut
      <4> QED BY <1>0, <4>1 DEF Own, Handler, Path, TypeOK
    <3> QED BY <1>1, <3>1, <3>2
  <2>3. req[r].at = "idle" /\ busy' = busy
    BY <1>1 DEF Admit, SignOut
  <2> QED BY <1>0, <2>1, <2>2, <2>3 DEF Same, Drives, TypeOK
<1>2. ASSUME NEW r \in Request, Work(r)
      PROVE  Keeps /\ \E s \in Sid : Takes(r, s)
  <2>1. PICK path \in {"challenge", "prepare", "client", "reports"},
             cookie \in issued :
          /\ EntryOf(cookie) # None /\ ~IsBusy(EntryOf(cookie))
          /\ busy' = [busy EXCEPT ![EntryOf(cookie)] = TRUE]
          /\ req' = [req EXCEPT ![r] =
               [at |-> "working", path |-> path, entry |-> EntryOf(cookie),
                waits |-> {}]]
    BY <1>2 DEF Work
  <2>2. EntryOf(cookie) \in sessions
    BY <2>1 DEF EntryOf
  <2>3. Keeps
    BY <1>2 DEF Work, Keeps
  <2>4. req[r].at = "idle" /\ browser' = browser
    BY <1>2 DEF Work
  <2>5. EntryOf(cookie) \in Sid /\ browser[EntryOf(cookie)] # "none"
    BY <1>0, <2>2 DEF TypeOK, Driven
  <2>6. \A q \in Request, t \in Sid :
          Drives(q, t)' <=> Drives(q, t) \/ (q = r /\ t = EntryOf(cookie))
    BY <1>0, <2>1, <2>4 DEF Drives, TypeOK
  <2>7. Takes(r, EntryOf(cookie))
    BY <2>1, <2>4, <2>5, <2>6 DEF Takes, IsBusy
  <2> QED BY <2>3, <2>5, <2>7
<1>3. ASSUME NEW r \in Request, NEW s \in Sid, Create(r, s)
      PROVE  Keeps /\ Takes(r, s)
  <2>1. Keeps
    BY <1>0, <1>3 DEF Create, Keeps, TypeOK
  <2>2. ~busy[s]
    BY <1>3 DEF Create, Driven
  <2> QED BY <1>0, <1>3, <2>1, <2>2 DEF Create, Takes, Drives, TypeOK
<1>4. ASSUME NEW r \in Request, Full(r) \/ Left(r) \/ WorkFails(r)
      PROVE  Keeps /\ Same
  <2>1. CASE Full(r) \/ Left(r)
    BY <1>0, <2>1 DEF Full, Left, Resumable, Answer, entryVars, Keeps, Same, Drives, Idle, TypeOK
  <2>2. CASE WorkFails(r)
    <3>1. Keeps
      BY <1>0, <2>2, DropKeeps DEF WorkFails
    <3> QED BY <1>0, <2>2, <3>1 DEF WorkFails, Same, Drives, TypeOK
  <2> QED BY <1>4, <2>1, <2>2
<1>5. ASSUME NEW r \in Request, WorkOk(r) \/ Failed(r) \/ WorkInVain(r)
      PROVE  Keeps /\ \E s \in Sid : Gives(r, s)
  <2>1. /\ req[r].entry \in Sid /\ Drives(r, req[r].entry)
        /\ busy' = [busy EXCEPT ![req[r].entry] = FALSE]
        /\ req' = [req EXCEPT ![r] = Idle]
        /\ UNCHANGED <<sessions, browser>>
    BY <1>5 DEF WorkOk, Failed, WorkInVain, Release, Answer, Drives, Typed, EntryNamed
  <2>2. Keeps
    BY <2>1 DEF Keeps
  <2>3. Gives(r, req[r].entry)
    BY <1>0, <2>1 DEF Gives, Drives, Idle, TypeOK
  <2> QED BY <2>1, <2>2, <2>3
<1>6. ASSUME NEW s \in Sid, CloseDone(s) \/ Expire(s)
      PROVE  Keeps /\ Same
  BY <1>0, <1>6 DEF CloseDone, Expire, entryVars, Keeps, Same, Drives, TypeOK
<1>7. CASE Browse \/ Tick
  <2>1. Keeps
    BY <1>0, <1>7, DropKeeps DEF Browse, Tick
  <2>2. Same
    BY <1>7 DEF Browse, Tick, Same, Drives
  <2> QED BY <1>0, <2>1, <2>2, SameKeeps
<1>8. CASE UNCHANGED vars
  BY <1>8 DEF vars, entryVars, Driven, Drives
<1>9. ASSUME NEW r \in Request, Resume(r) \/ Portal(r)
      PROVE  Keeps /\ (Same \/ \E s \in Sid : Takes(r, s) \/ Gives(r, s))
  BY <1>3, <1>4, <1>5, <1>9 DEF Resume, Portal
<1> QED
  BY <1>0, <1>1, <1>2, <1>6, <1>7, <1>8, <1>9, SameKeeps, TakesKeeps, GivesKeeps
     DEF Next

-------------------------------------------------------------------------------
(* The size of the Map.                                                     *)

Bounded == IsFiniteSet(sessions) /\ Cardinality(sessions) <= MaxSessions

\* A step that adds a session has looked at the size.
LEMMA NextBounded ==
  ASSUME Typed, Bounded, [Next]_vars
  PROVE  Bounded'
<1>1. IsFiniteSet(sessions) /\ Cardinality(sessions) \in Nat
  BY FS_CardinalityType DEF Bounded
<1>2. CASE sessions' \subseteq sessions
  <2>1. IsFiniteSet(sessions') /\ Cardinality(sessions') <= Cardinality(sessions)
    BY <1>1, <1>2, FS_Subset
  <2> QED BY <1>1, <2>1, FS_CardinalityType, NodeBounds DEF Bounded
<1>3. ASSUME NEW r \in Request, NEW s \in Sid, Create(r, s)
      PROVE  Bounded'
  <2>1. /\ IsFiniteSet(sessions')
        /\ \/ Cardinality(sessions') = Cardinality(sessions)
           \/ Cardinality(sessions') = Cardinality(sessions) + 1
    BY <1>1, <1>3, FS_AddElement DEF Create
  <2>2. Cardinality(sessions) < MaxSessions
    BY <1>3 DEF Create, Room
  <2> QED BY <1>1, <2>1, <2>2, NodeBounds DEF Bounded
<1>4. CASE UNCHANGED vars
  BY <1>2, <1>4 DEF vars
<1>5. CASE Next /\ \A r \in Request, s \in Sid : ~Create(r, s)
  <2>1. sessions' \subseteq sessions
    BY <1>5 DEF Next, Admit, Work, SignOut, Resume, Full, Left, Failed, Portal,
       WorkOk, WorkFails, WorkInVain, CloseDone, Expire, Browse, Tick, Drop
  <2> QED BY <1>2, <2>1
<1> QED BY <1>3, <1>4, <1>5

-------------------------------------------------------------------------------
(* Browsers and the Map.                                                    *)

Reachable == sessions = {s \in Sid : browser[s] = "open"}

\* What a step does to both: it forgets and closes, creates, or ends a closing.
Drops(S) == S \subseteq sessions /\ Drop(S)
\* What leaves the Map is being closed, the rest stays as it was.
LEMMA DropReaches ==
  ASSUME TypeOK, Reachable, NEW S, Drops(S)
  PROVE  Reachable' /\ \A s \in Sid : browser'[s] \in {"none", "open"} => browser'[s] = browser[s]
BY DEF TypeOK, Reachable, Drops, Drop

\* Every drop is of sessions of the Map.
LEMMA DropsOnly ==
  ASSUME Typed,
         Browse \/ Tick \/ \E r \in Request : Admit(r) \/ SignOut(r) \/ WorkFails(r)
  PROVE  \E S : Drops(S)
<1>1. CASE Browse \/ Tick
  BY <1>1 DEF Browse, Tick, Lapsed, Due, Drops
<1>2. CASE \E r \in Request : Admit(r) \/ SignOut(r) \/ WorkFails(r)
  <2>1. PICK x : Drop(sessions \cap {x})
    BY <1>2 DEF Admit, SignOut, WorkFails
  <2>2. Drops(sessions \cap {x})
    BY <2>1 DEF Drops
  <2> QED BY <2>2
<1> QED BY <1>1, <1>2

\* The other steps leave both alone, but for Create and CloseDone.
LEMMA NextReaches ==
  ASSUME Typed, Reachable, [Next]_vars
  PROVE  Reachable'
<1>0. TypeOK
  BY DEF Typed
<1>1. CASE Browse \/ Tick \/ \E r \in Request : Admit(r) \/ SignOut(r) \/ WorkFails(r)
  BY <1>0, <1>1, DropsOnly, DropReaches
<1>2. ASSUME NEW r \in Request, NEW s \in Sid, Create(r, s)
      PROVE  Reachable'
  BY <1>0, <1>2 DEF Create, Reachable, TypeOK
<1>3. ASSUME NEW s \in Sid, CloseDone(s)
      PROVE  Reachable'
  BY <1>0, <1>3 DEF CloseDone, Reachable, TypeOK
<1>4. ASSUME \/ \E r \in Request : \/ Work(r) \/ Full(r) \/ Left(r) \/ Failed(r)
                                   \/ WorkOk(r) \/ WorkInVain(r)
             \/ \E s \in Sid : Expire(s)
             \/ UNCHANGED vars
      PROVE  Reachable'
  <2>1. UNCHANGED <<sessions, browser>>
    BY <1>4 DEF Work, Full, Left, Failed, WorkOk, WorkInVain, Expire, vars
  <2> QED BY <2>1 DEF Reachable
<1> QED BY <1>1, <1>2, <1>3, <1>4 DEF Next, Resume, Portal

-------------------------------------------------------------------------------
(* The theorems.                                                            *)

Inv == Typed /\ Driven /\ Bounded /\ Reachable

\* The invariant holds in every state.
LEMMA Invariance == Spec => []Inv
<1>1. Init => Inv
  <2> SUFFICES ASSUME Init
               PROVE  Inv
    OBVIOUS
  <2>1. Driven
    BY DEF Init, Driven, Drives, Idle
  <2>2. Bounded
    BY FS_EmptySet, NodeBounds DEF Init, Bounded
  <2>3. Reachable
    BY DEF Init, Reachable
  <2> QED BY <2>1, <2>2, <2>3, InitTyped DEF Inv
<1>2. Inv /\ [Next]_vars => Inv'
  BY NextTyped, NextDriven, NextBounded, NextReaches DEF Inv
<1> QED BY <1>1, <1>2, PTL DEF Spec

\* Every variable of app.js's model keeps its type.
THEOREM TypeCorrect == Spec => []TypeOK
<1>1. Inv => TypeOK
  BY DEF Inv, Typed
<1> QED BY <1>1, Invariance, PTL

\* One request at a time drives a browser, and the busy mark is exactly that a
\* request does, though an expired session hides its mark from the middleware and
\* may be dropped in the middle of an operation.
THEOREM BrowsersAreNotShared == Spec => []OneOperation
<1>1. Inv => OneOperation
  BY DEF Inv, Driven, Drives, OneOperation, Workers
<1> QED BY <1>1, Invariance, PTL

\* The Map never holds more than maxSessions, however many sign-ins wait for a drop
\* before they look at its size, and every open browser is in it.
THEOREM MapStaysBounded == Spec => []MapBounded
<1>1. Inv => MapBounded
  BY DEF Inv, Bounded, Reachable, MapBounded
<1> QED BY <1>1, Invariance, PTL

===============================================================================
