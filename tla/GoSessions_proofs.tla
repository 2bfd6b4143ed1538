-------------------------- MODULE GoSessions_proofs ---------------------------
(***************************************************************************)
(* Proofs about GoSessions, for every number of requests, sessions, slots  *)
(* and tokens and for both workers.                                        *)
(***************************************************************************)
EXTENDS GoSessions, FiniteSetTheorems, TLAPS

-------------------------------------------------------------------------------
(* Types.  A handler that works on a session names one, and a report is    *)
(* fetched for a session that is signed in.                                *)

EntryNamed ==
  \A r \in Request :
    req[r].at \in {"reclaiming", "calling", "dropping", "reporting",
                   "published", "expelled", "discarding", "waiting", "woken"}
    => req[r].entry \in Sid

SignedInKnown ==
  /\ \A s \in Sid : authenticated[s] => account[s] \in Account
  /\ \A r \in Request : req[r].at = "reporting" => authenticated[req[r].entry]

Typed == TypeOK /\ EntryNamed /\ SignedInKnown

\* A cookie opens a session or nothing.
LEMMA LookupNamesSession ==
  ASSUME TypeOK, NEW c
  PROVE  Lookup(c) \in {None} \cup Sid
BY DEF TypeOK, Lookup, Token

\* A session's current token is a token.
LEMMA TokenOfType ==
  ASSUME TypeOK, NEW s \in Sid
  PROVE  TokenOf(s) \in Token
BY DEF TypeOK, TokenOf, Token

\* Nothing is allocated at first.
LEMMA InitTyped == Init => Typed
BY SetsAssumption DEF Init, Typed, TypeOK, EntryNamed, SignedInKnown, Idle, Step, Handler, Place, Path

\* Every critical section keeps the types.
LEMMA NextTyped == Typed /\ [Next]_vars => Typed'
<1> SUFFICES ASSUME Typed, [Next]_vars
             PROVE  Typed'
  OBVIOUS
<1> USE SetsAssumption, BoundsAssumption, RatioAssumption
    DEF Typed, TypeOK, EntryNamed, SignedInKnown, Handler, Place, Path,
        entryVars, Step, Goto, Answer, Acquire, Release, Idle
<1>1. ASSUME NEW r \in Request, Arrive(r)
      PROVE  Typed'
  BY <1>1 DEF Arrive
<1>2. ASSUME NEW r \in Request, Reclaim(r)
      PROVE  Typed'
  <2>1. CASE ReclaimSkip(r)
    BY <2>1 DEF ReclaimSkip
  <2>2. ASSUME NEW s \in Sid, ReclaimStart(r, s)
        PROVE  Typed'
    BY <2>2 DEF ReclaimStart
  <2>3. CASE ReclaimDrop(r)
    BY <2>3 DEF ReclaimDrop
  <2>4. CASE ReclaimRelease(r)
    BY <2>4 DEF ReclaimRelease
  <2> QED BY <1>2, <2>1, <2>2, <2>3, <2>4 DEF Reclaim
<1>3. ASSUME NEW r \in Request, Route(r)
      PROVE  Typed'
  <2> DEFINE c == Lookup(req[r].cookie)
  <2>0. c \in {None} \cup Sid
    BY LookupNamesSession
  <2> HIDE DEF c
  <2>1. CASE RouteSignOut(r)
    BY <2>1 DEF RouteSignOut
  <2>2. CASE RouteRefuse(r)
    BY <2>2 DEF RouteRefuse
  <2>3. CASE RouteAdmit(r)
    BY <2>0, <2>3 DEF RouteAdmit, c
  <2>4. ASSUME NEW s \in Sid, RouteCreate(r, s)
        PROVE  Typed'
    BY <2>4 DEF RouteCreate, Token
  <2>5. CASE RouteBeyondBound(r)
    BY <2>5 DEF RouteBeyondBound
  <2>6. CASE SwitchProvider(r)
    BY <2>0, <2>6 DEF SwitchProvider, c
  <2> QED BY <1>3, <2>1, <2>2, <2>3, <2>4, <2>5, <2>6 DEF Route
<1>4. ASSUME NEW r \in Request, Mutate(r)
      PROVE  Typed'
  <2>0. req[r].at = "calling" => TokenOf(req[r].entry) \in Token
    BY TokenOfType
  <2>1. CASE FinishRemove(r)
    BY <2>1 DEF FinishRemove
  <2>2. CASE FinishChallenge(r)
    BY <2>0, <2>2 DEF FinishChallenge
  <2>3. CASE FinishPrepare(r)
    BY <2>0, <2>3 DEF FinishPrepare
  <2>4. ASSUME NEW a \in Account, FinishLogin(r, a)
        PROVE  Typed'
    BY <2>4 DEF FinishLogin, Rotate, WorkerSignsIn, Token
  <2>5. CASE DropDone(r)
    BY <2>5 DEF DropDone
  <2>6. CASE AnswerRelease(r)
    BY <2>6 DEF AnswerRelease
  <2> QED BY <1>4, <2>1, <2>2, <2>3, <2>4, <2>5, <2>6 DEF Mutate
<1>5. ASSUME NEW r \in Request, Reports(r)
      PROVE  Typed'
  <2> DEFINE c == Lookup(req[r].cookie)
  <2>0. c \in {None} \cup Sid
    BY LookupNamesSession
  <2> HIDE DEF c
  <2>t. \A s \in Sid : TokenOf(s) \in Token
    BY TokenOfType
  <2>1. CASE ReportsRefuse(r)
    BY <2>1 DEF ReportsRefuse
  <2>2. CASE ReportsCached(r)
    BY <2>0, <2>t, <2>2 DEF ReportsCached, SignedIn, c
  <2>3. CASE ReportsJoin(r)
    BY <2>0, <2>3 DEF ReportsJoin, SignedIn, c
  <2>4. CASE ReportsLead(r)
    BY <2>0, <2>4 DEF ReportsLead, SignedIn, c
  <2>5. CASE ReportsOk(r)
    <3>1. req[r].entry \in Sid /\ account[req[r].entry] \in Account
      BY <2>5 DEF ReportsOk
    <3> DEFINE new == [of |-> account[req[r].entry], fresh |-> TRUE]
    <3>n. new \in Cached
      BY <3>1 DEF Cached
    <3> HIDE DEF new
    <3>2. cache' \in [Sid -> {None} \cup Cached]
      <4>1. cache' = [cache EXCEPT ![req[r].entry] = new] \/ cache' = cache
        BY <2>5 DEF ReportsOk, new
      <4> QED BY <3>1, <3>n, <4>1
    <3>3. issued' \subseteq Token
      BY <2>t, <2>5, <3>1 DEF ReportsOk
    <3>4. req' \in [Request -> Handler] /\ EntryNamed'
      BY <2>5 DEF ReportsOk, Publish
    <3>5. \A q \in Request : req'[q].at = "reporting" =>
             req[q].at = "reporting" /\ req'[q].entry = req[q].entry
      BY <2>5 DEF ReportsOk, Publish
    <3> QED BY <2>5, <3>1, <3>2, <3>3, <3>4, <3>5 DEF ReportsOk, Settle
  <2>6. CASE ReportsExpired(r)
    BY <2>6 DEF ReportsExpired, Publish, Settle
  <2>7. CASE ReportsFailed(r)
    BY <2>7 DEF ReportsFailed, Publish, Settle
  <2>8. CASE ReportsRelease(r)
    BY <2>8 DEF ReportsRelease
  <2>9. CASE DiscardDone(r)
    BY <2>9 DEF DiscardDone
  <2>10. CASE WaiterResumes(r)
    BY <2>t, <2>10 DEF WaiterResumes
  <2> QED BY <1>5, <2>1, <2>2, <2>3, <2>4, <2>5, <2>6, <2>7, <2>8, <2>9, <2>10
          DEF Reports
<1>6. ASSUME NEW r \in Request, WaiterGone(r)
      PROVE  Typed'
  BY <1>6 DEF WaiterGone
<1>7. ASSUME NEW s \in Sid, Reaper(s)
      PROVE  Typed'
  BY <1>7 DEF Reaper, ReapDrop, ReapRelease
<1>8. ASSUME NEW s \in Sid, Expire(s)
      PROVE  Typed'
  BY <1>8 DEF Expire
<1>9. ASSUME NEW s \in Sid, CacheAges(s)
      PROVE  Typed'
  <2>1. cache[s].of \in Account
    BY <1>9 DEF CacheAges, Fresh, Cached
  <2>2. cache' \in [Sid -> {None} \cup Cached]
    BY <1>9, <2>1 DEF CacheAges, Cached
  <2> QED BY <1>9, <2>2 DEF CacheAges
<1>10. CASE ReapTick
  <2>1. PICK due \in SUBSET {s \in Sid : Reclaimable(s)} :
          /\ slots' = slots + Cardinality(due)
          /\ busy' = [s \in Sid |-> busy[s] \/ s \in due]
          /\ reaping' = [s \in Sid |->
                           IF s \in due THEN "closing" ELSE reaping[s]]
          /\ UNCHANGED <<sessions, issued, entryVars, inflight, req, signedOut>>
    BY <1>10 DEF ReapTick
  <2>2. Cardinality(due) \in Nat
    BY FS_Subset, FS_CardinalityType
  <2> QED BY <2>1, <2>2
<1>11. CASE UNCHANGED vars
  BY <1>11 DEF vars
<1> QED
  BY <1>1, <1>2, <1>3, <1>4, <1>5, <1>6, <1>7, <1>8, <1>9, <1>10, <1>11
  DEF Next, Handle

\* Every variable keeps its type: in particular no handler works on a session
\* that was never allocated.
THEOREM TypeCorrect == Spec => []TypeOK
<1>1. Spec => []Typed
  BY InitTyped, NextTyped, PTL DEF Spec
<1> QED BY <1>1, PTL DEF Typed

-------------------------------------------------------------------------------
(* Ownership.  Whoever marks an entry busy is the only one to work on it    *)
(* and the entry stays in the map under its current token until he is done; *)
(* the closes that run without the busy mark are for contexts whose entry   *)
(* has left the map for good.                                               *)

Owner(r) == req[r].at \in {"reclaiming", "calling", "reporting"}
Closer(r) == req[r].at \in {"dropping", "discarding", "expelled"}

TokensCurrent ==
  /\ \A t \in sessions : t = TokenOf(t[1]) /\ t[2] > 0
  /\ \A s \in Sid : authenticated[s] => gen[s] > 1
OwnersHold ==
  /\ \A r \in Request :
       Owner(r) => busy[req[r].entry] /\ Live(req[r].entry)
  /\ \A r, q \in Request :
       Owner(r) /\ Owner(q) /\ req[r].entry = req[q].entry => r = q
ReaperHolds ==
  /\ \A s \in Sid : reaping[s] = "closing" =>
       busy[s] /\ Live(s) /\ \A r \in Request : Owner(r) => req[r].entry # s
  /\ \A s \in Sid : reaping[s] = "closed" => ~Live(s) /\ gen[s] > 0
BusyHeld ==
  \A s \in Sid : Live(s) /\ busy[s] =>
    reaping[s] = "closing" \/ \E r \in Request : Owner(r) /\ req[r].entry = s
ClosersPast ==
  /\ \A r \in Request :
       Closer(r) => ~Live(req[r].entry) /\ gen[req[r].entry] > 0
  /\ \A r, q \in Request :
       Closer(r) /\ Closer(q) /\ req[r].entry = req[q].entry => r = q

Ownership ==
  /\ TokensCurrent /\ OwnersHold /\ ReaperHolds /\ BusyHeld /\ ClosersPast
  /\ FlightsAreLed

\* Nobody owns anything at first.
LEMMA InitOwnership == Init => Ownership
BY DEF Init, Idle, Ownership, TokensCurrent, OwnersHold, ReaperHolds, BusyHeld,
       ClosersPast, FlightsAreLed, Owner, Closer, Live, TokenOf

\* What one step does to the handlers: r moves, everybody else stays.
Moves(r, place, s) ==
  /\ req'[r].at = place /\ req'[r].entry = s
  /\ \A q \in Request : q # r => req'[q] = req[q]

\* A step of a handler moves that handler alone.
LEMMA StepMoves ==
  ASSUME TypeOK, NEW r \in Request, NEW place, NEW c, NEW s, Step(r, place, c, s)
  PROVE  Moves(r, place, s)
BY DEF TypeOK, Step, Moves

\* What a cookie opens is in the map under its current token.
LEMMA LookupLive ==
  ASSUME TypeOK, TokensCurrent, NEW c, Lookup(c) # None
  PROVE  Lookup(c) \in Sid /\ Live(Lookup(c))
BY DEF TypeOK, TokensCurrent, Lookup, Live, Token

\* A map that stays keeps the same sessions.
LEMMA LiveWhenUnchanged ==
  ASSUME UNCHANGED <<sessions, gen>>
  PROVE  \A t \in Sid : Live(t)' <=> Live(t)
BY DEF Live, TokenOf

\* Removing a current token removes its session alone.
LEMMA LiveWhenRemoved ==
  ASSUME NEW s \in Sid, sessions' = sessions \ {TokenOf(s)}, UNCHANGED gen
  PROVE  \A t \in Sid : Live(t)' <=> Live(t) /\ t # s
BY DEF Live, TokenOf

\* The tokens that remain are still current.
LEMMA TokensWhenRemoved ==
  ASSUME TokensCurrent, NEW s, sessions' = sessions \ {TokenOf(s)},
         UNCHANGED <<gen, authenticated>>
  PROVE  TokensCurrent'
BY DEF TokensCurrent, TokenOf

\* A session that has an owner is busy with him alone.
LEMMA OwnedAlone ==
  ASSUME Ownership, EntryNamed, NEW r \in Request, Owner(r)
  PROVE  LET s == req[r].entry IN
           /\ s \in Sid /\ Live(s) /\ busy[s]
           /\ reaping[s] # "closing" /\ reaping[s] # "closed"
           /\ \A q \in Request : Owner(q) /\ req[q].entry = s => q = r
           /\ \A q \in Request : Closer(q) => req[q].entry # s
BY DEF Ownership, EntryNamed, Owner, Closer, OwnersHold, ReaperHolds, ClosersPast

\* Beginning an operation on a live session that nobody works on.
LEMMA OwnershipBegin ==
  ASSUME Typed, Ownership, NEW r \in Request, NEW s \in Sid,
         NEW place \in {"reclaiming", "calling", "reporting"},
         req[r].at \in {"reclaim", "route"},
         Moves(r, place, s), Live(s), ~busy[s],
         busy' = [busy EXCEPT ![s] = TRUE],
         inflight' = IF place = "reporting" THEN [inflight EXCEPT ![s] = r]
                     ELSE inflight,
         UNCHANGED <<sessions, gen, authenticated, reaping>>
  PROVE  Ownership'
<1> USE DEF Ownership, Owner, Closer
<1>1. \A t \in Sid : Live(t)' <=> Live(t)
  BY LiveWhenUnchanged
<1>2. /\ busy'[s] = TRUE /\ \A t \in Sid : t # s => busy'[t] = busy[t]
      /\ \A q \in Request : Owner(q) \/ Closer(q) => req[q].entry \in Sid
      /\ ~Owner(r) /\ ~Closer(r) /\ req[r].at # "waiting"
  BY DEF Typed, TypeOK, EntryNamed
<1>3. TokensCurrent'
  BY DEF TokensCurrent, TokenOf
<1>4. OwnersHold'
  <2>1. \A q \in Request : Owner(q) => req[q].entry # s
    BY DEF OwnersHold
  <2> QED BY <1>1, <1>2, <2>1 DEF OwnersHold, Moves
<1>5. ReaperHolds'
  BY <1>1, <1>2 DEF ReaperHolds, Moves
<1>6. BusyHeld'
  BY <1>1, <1>2 DEF BusyHeld, Moves
<1>7. ClosersPast'
  BY <1>1, <1>2 DEF ClosersPast, Moves
<1>8. FlightsAreLed'
  <2>1. inflight[s] = None
    BY <1>2 DEF FlightsAreLed, OwnersHold, Typed, TypeOK
  <2>2. CASE place = "reporting"
    BY <1>2, <2>1, <2>2, SetsAssumption DEF FlightsAreLed, Moves, Typed, TypeOK, EntryNamed
  <2>3. CASE place # "reporting"
    BY <1>2, <2>1, <2>3, SetsAssumption DEF FlightsAreLed, Moves, Typed, TypeOK, EntryNamed
  <2> QED BY <2>2, <2>3
<1> QED BY <1>3, <1>4, <1>5, <1>6, <1>7, <1>8

\* A struct that was never allocated is in nobody's hands.
LEMMA OwnershipCreate ==
  ASSUME Typed, Ownership, NEW r \in Request, NEW s \in Sid, RouteCreate(r, s)
  PROVE  Ownership'
<1> USE DEF Ownership, Owner, Closer
<1>1. /\ gen[s] = 0 /\ gen' = [gen EXCEPT ![s] = 1]
      /\ sessions' = sessions \cup {<<s, 1>>}
      /\ busy' = [busy EXCEPT ![s] = TRUE]
      /\ req[r].at = "route" /\ Step(r, "calling", None, s)
      /\ UNCHANGED <<authenticated, inflight, reaping>>
  BY DEF RouteCreate, Goto
<1>2. Moves(r, "calling", s)
  BY <1>1, StepMoves DEF Typed
<1>3. ~Live(s)
  BY <1>1 DEF Live, TokenOf, TokensCurrent
<1>4. \A t \in Sid : Live(t)' <=> Live(t) \/ t = s
  BY <1>1, <1>3 DEF Live, TokenOf, Typed, TypeOK
<1>5. /\ busy'[s] = TRUE /\ \A t \in Sid : t # s => busy'[t] = busy[t]
      /\ gen'[s] = 1 /\ \A t \in Sid : t # s => gen'[t] = gen[t]
      /\ \A q \in Request : Owner(q) \/ Closer(q) => req[q].entry \in Sid
      /\ ~Owner(r) /\ ~Closer(r) /\ req[r].at # "waiting"
  BY <1>1 DEF Typed, TypeOK, EntryNamed
<1>6. TokensCurrent'
  <2>1. \A t \in sessions' : t = <<t[1], gen'[t[1]]>> /\ t[2] > 0
    BY <1>1, <1>3, <1>5 DEF TokensCurrent, Typed, TypeOK, Token, TokenOf, Live
  <2>2. \A t \in Sid : authenticated'[t] => gen'[t] > 1
    BY <1>1, <1>5 DEF TokensCurrent
  <2> QED BY <2>1, <2>2 DEF TokensCurrent, TokenOf
<1>7. OwnersHold'
  BY <1>2, <1>3, <1>4, <1>5 DEF OwnersHold, Moves
<1>8. ReaperHolds'
  BY <1>1, <1>2, <1>3, <1>4, <1>5 DEF ReaperHolds, Moves
<1>9. BusyHeld'
  BY <1>1, <1>2, <1>4, <1>5 DEF BusyHeld, Moves
<1>10. ClosersPast'
  BY <1>1, <1>2, <1>4, <1>5 DEF ClosersPast, Moves
<1>11. FlightsAreLed'
  BY <1>1, <1>2, <1>5, SetsAssumption DEF FlightsAreLed, Moves, Typed, TypeOK
<1> QED BY <1>6, <1>7, <1>8, <1>9, <1>10, <1>11

\* The owner r of s deletes the entry and is done, or goes on to close it.
LEMMA OwnershipRemove ==
  ASSUME Typed, Ownership, NEW r \in Request, NEW s \in Sid,
         NEW place \in {"reclaimed", "answered", "dropping"}, NEW e \in {s, None},
         req[r].at \in {"reclaiming", "calling"}, req[r].entry = s,
         Moves(r, place, e), place = "dropping" => e = s,
         sessions' = sessions \ {TokenOf(s)},
         \A t \in Sid : t # s => busy'[t] = busy[t],
         UNCHANGED <<gen, authenticated, inflight, reaping>>
  PROVE  Ownership'
<1> USE DEF Owner, Closer
<1>1. \A t \in Sid : Live(t)' <=> Live(t) /\ t # s
  BY LiveWhenRemoved
<1>2. /\ Live(s) /\ busy[s]
      /\ reaping[s] # "closing" /\ reaping[s] # "closed"
      /\ \A q \in Request : Owner(q) /\ req[q].entry = s => q = r
      /\ \A q \in Request : Closer(q) => req[q].entry # s
  BY OwnedAlone DEF Typed
<1>3. /\ gen[s] > 0
      /\ \A q \in Request : Owner(q) \/ Closer(q) => req[q].entry \in Sid
  BY <1>2 DEF Ownership, TokensCurrent, Live, TokenOf, Typed, EntryNamed
<1>4. TokensCurrent'
  BY TokensWhenRemoved DEF Ownership
<1>5. OwnersHold'
  BY <1>1, <1>2, <1>3 DEF Ownership, OwnersHold, Moves
<1>6. ReaperHolds'
  BY <1>1, <1>2, <1>3 DEF Ownership, ReaperHolds, Moves
<1>7. BusyHeld'
  BY <1>1, <1>2, <1>3 DEF Ownership, BusyHeld, Moves
<1>8. ClosersPast'
  BY <1>1, <1>2, <1>3 DEF Ownership, ClosersPast, Moves
<1>9. FlightsAreLed'
  BY SetsAssumption DEF Ownership, FlightsAreLed, Moves, Typed, TypeOK
<1> QED BY <1>4, <1>5, <1>6, <1>7, <1>8, <1>9 DEF Ownership

\* The owner r of s gives it a new token.
LEMMA OwnershipRotate ==
  ASSUME Typed, Ownership, NEW r \in Request, NEW s \in Sid,
         req[r].at = "calling", req[r].entry = s,
         Moves(r, "answered", s), Rotate(s),
         busy' = [busy EXCEPT ![s] = FALSE],
         authenticated' = [authenticated EXCEPT ![s] = TRUE],
         UNCHANGED <<inflight, reaping>>
  PROVE  Ownership'
<1> USE DEF Owner, Closer
<1>2. /\ Live(s) /\ busy[s]
      /\ reaping[s] # "closing" /\ reaping[s] # "closed"
      /\ \A q \in Request : Owner(q) /\ req[q].entry = s => q = r
      /\ \A q \in Request : Closer(q) => req[q].entry # s
  BY OwnedAlone DEF Typed
<1>3. /\ gen[s] \in Nat /\ gen[s] > 0
      /\ gen'[s] = gen[s] + 1 /\ \A t \in Sid : t # s => gen'[t] = gen[t]
      /\ busy'[s] = FALSE /\ \A t \in Sid : t # s => busy'[t] = busy[t]
      /\ \A q \in Request : Owner(q) \/ Closer(q) => req[q].entry \in Sid
  BY <1>2 DEF Ownership, TokensCurrent, Live, TokenOf, Typed, TypeOK, EntryNamed, Rotate
<1>1. \A t \in Sid : Live(t)' <=> Live(t)
  BY <1>2, <1>3 DEF Live, TokenOf, Rotate
<1>4. TokensCurrent'
  <2>1. \A t \in sessions : t[1] # s => t = <<t[1], gen'[t[1]]>>
    BY <1>3 DEF Ownership, TokensCurrent, TokenOf, Typed, TypeOK, Token
  <2>2. \A t \in sessions : t[1] = s => t = TokenOf(s)
    BY DEF Ownership, TokensCurrent
  <2>3. \A t \in sessions' : t = <<t[1], gen'[t[1]]>> /\ t[2] > 0
    BY <1>3, <2>1, <2>2 DEF Rotate, Ownership, TokensCurrent
  <2>4. \A t \in Sid : authenticated'[t] => gen'[t] > 1
    BY <1>3 DEF Ownership, TokensCurrent, Typed, TypeOK
  <2> QED BY <2>3, <2>4 DEF TokensCurrent, TokenOf
<1>5. OwnersHold'
  BY <1>1, <1>2, <1>3 DEF Ownership, OwnersHold, Moves
<1>6. ReaperHolds'
  BY <1>1, <1>2, <1>3 DEF Ownership, ReaperHolds, Moves
<1>7. BusyHeld'
  BY <1>1, <1>2, <1>3 DEF Ownership, BusyHeld, Moves
<1>8. ClosersPast'
  BY <1>1, <1>2, <1>3 DEF Ownership, ClosersPast, Moves
<1>9. FlightsAreLed'
  BY SetsAssumption DEF Ownership, FlightsAreLed, Moves, Typed, TypeOK
<1> QED BY <1>4, <1>5, <1>6, <1>7, <1>8, <1>9 DEF Ownership

\* The leader of a flight publishes a 401 and its entry leaves the map.
LEMMA OwnershipExpelled ==
  ASSUME Typed, Ownership, NEW r \in Request, ReportsExpired(r)
  PROVE  Ownership'
<1> USE DEF Owner, Closer
<1> DEFINE s == req[r].entry
<1>1. /\ req[r].at = "reporting" /\ s \in Sid
      /\ sessions' = sessions \ {TokenOf(s)}
      /\ busy' = [busy EXCEPT ![s] = FALSE]
      /\ inflight' = [inflight EXCEPT ![s] = None]
      /\ UNCHANGED <<gen, authenticated, reaping>>
  BY DEF ReportsExpired, Settle, entryVars, Typed, EntryNamed
<1>2. /\ req'[r].at = "expelled" /\ req'[r].entry = s
      /\ \A q \in Request : q # r =>
           /\ req'[q].entry = req[q].entry
           /\ req'[q].at = IF req[q].at = "waiting" /\ req[q].entry = s
                           THEN "woken" ELSE req[q].at
  BY DEF ReportsExpired, Publish, Typed, TypeOK, Handler
<1>3. /\ Live(s) /\ busy[s]
      /\ reaping[s] # "closing" /\ reaping[s] # "closed"
      /\ \A q \in Request : Owner(q) /\ req[q].entry = s => q = r
      /\ \A q \in Request : Closer(q) => req[q].entry # s
  BY <1>1, OwnedAlone DEF Typed
<1>4. \A t \in Sid : Live(t)' <=> Live(t) /\ t # s
  BY <1>1, LiveWhenRemoved
<1>5. /\ gen[s] > 0 /\ \A t \in Sid : t # s => busy'[t] = busy[t]
      /\ inflight'[s] = None /\ \A t \in Sid : t # s => inflight'[t] = inflight[t]
      /\ \A q \in Request : Owner(q) \/ Closer(q) \/ req[q].at = "waiting"
           => req[q].entry \in Sid
  BY <1>1, <1>3 DEF Ownership, TokensCurrent, Live, TokenOf, Typed, TypeOK, EntryNamed
<1> HIDE DEF s
<1>6. TokensCurrent'
  BY <1>1, TokensWhenRemoved DEF Ownership
<1>7. OwnersHold'
  BY <1>1, <1>2, <1>3, <1>4, <1>5 DEF Ownership, OwnersHold
<1>8. ReaperHolds'
  BY <1>1, <1>2, <1>3, <1>4, <1>5 DEF Ownership, ReaperHolds
<1>9. BusyHeld'
  BY <1>1, <1>2, <1>3, <1>4, <1>5 DEF Ownership, BusyHeld
<1>10. ClosersPast'
  BY <1>1, <1>2, <1>3, <1>4, <1>5 DEF Ownership, ClosersPast
<1>11. FlightsAreLed'
  <2>1. ASSUME NEW t \in Sid, inflight'[t] # None
        PROVE  /\ req'[inflight'[t]].at = "reporting"
               /\ req'[inflight'[t]].entry = t
    <3>1. t # s /\ inflight'[t] = inflight[t]
      BY <1>5, <2>1
    <3>2. /\ inflight[t] \in Request
          /\ req[inflight[t]].at = "reporting" /\ req[inflight[t]].entry = t
      BY <2>1, <3>1 DEF Ownership, FlightsAreLed, Typed, TypeOK
    <3>3. inflight[t] # r
      BY <3>1, <3>2 DEF s
    <3> QED BY <1>2, <3>1, <3>2, <3>3
  <2>2. ASSUME NEW q \in Request
        PROVE  /\ req'[q].at = "reporting" => inflight'[req'[q].entry] = q
               /\ req'[q].at = "waiting" => inflight'[req'[q].entry] # None
    BY <1>2, <1>3, <1>5 DEF Ownership, FlightsAreLed
  <2> QED BY <2>1, <2>2 DEF FlightsAreLed
<1> QED BY <1>6, <1>7, <1>8, <1>9, <1>10, <1>11 DEF Ownership

\* ratioDispatch deletes an idle entry, which nobody can find any more, and
\* closes its context.
LEMMA OwnershipDiscard ==
  ASSUME Typed, Ownership, NEW r \in Request, NEW s \in Sid,
         req[r].at = "route", Moves(r, "discarding", s), Live(s), ~busy[s],
         sessions' = sessions \ {TokenOf(s)},
         UNCHANGED <<gen, authenticated, busy, inflight, reaping>>
  PROVE  Ownership'
<1> USE DEF Owner, Closer
<1>1. \A t \in Sid : Live(t)' <=> Live(t) /\ t # s
  BY LiveWhenRemoved
<1>2. /\ reaping[s] # "closing" /\ reaping[s] # "closed"
      /\ \A q \in Request : Owner(q) => req[q].entry # s
      /\ \A q \in Request : Closer(q) => req[q].entry # s
  BY DEF Ownership, OwnersHold, ReaperHolds, ClosersPast
<1>3. /\ gen[s] > 0
      /\ \A q \in Request : Owner(q) \/ Closer(q) => req[q].entry \in Sid
  BY DEF Ownership, TokensCurrent, Live, TokenOf, Typed, EntryNamed
<1>4. TokensCurrent'
  BY TokensWhenRemoved DEF Ownership
<1>5. OwnersHold'
  BY <1>1, <1>2, <1>3 DEF Ownership, OwnersHold, Moves
<1>6. ReaperHolds'
  BY <1>1, <1>2, <1>3 DEF Ownership, ReaperHolds, Moves
<1>7. BusyHeld'
  BY <1>1, <1>2, <1>3 DEF Ownership, BusyHeld, Moves
<1>8. ClosersPast'
  BY <1>1, <1>2, <1>3 DEF Ownership, ClosersPast, Moves
<1>9. FlightsAreLed'
  BY SetsAssumption DEF Ownership, FlightsAreLed, Moves, Typed, TypeOK
<1> QED BY <1>4, <1>5, <1>6, <1>7, <1>8, <1>9 DEF Ownership

\* A handler that owns nothing goes where it owns nothing, or stays a closer.
LEMMA OwnershipMove ==
  ASSUME Typed, Ownership, NEW r \in Request, NEW place, NEW e,
         Moves(r, place, e),
         req[r].at \notin {"reclaiming", "calling", "reporting"},
         place \in {"idle", "reclaim", "route", "answered"}
           \/ (place = "discarding" /\ req[r].at = "expelled" /\ e = req[r].entry),
         UNCHANGED <<sessions, gen, authenticated, busy, inflight, reaping>>
  PROVE  Ownership'
<1> USE DEF Owner, Closer
<1>1. \A t \in Sid : Live(t)' <=> Live(t)
  BY LiveWhenUnchanged
<1>2. \A q \in Request : Owner(q) \/ Closer(q) => req[q].entry \in Sid
  BY DEF Typed, EntryNamed
<1>4. TokensCurrent'
  BY DEF Ownership, TokensCurrent, TokenOf
<1>5. OwnersHold'
  BY <1>1, <1>2 DEF Ownership, OwnersHold, Moves
<1>6. ReaperHolds'
  BY <1>1, <1>2 DEF Ownership, ReaperHolds, Moves
<1>7. BusyHeld'
  BY <1>1, <1>2 DEF Ownership, BusyHeld, Moves
<1>8. ClosersPast'
  BY <1>1, <1>2 DEF Ownership, ClosersPast, Moves
<1>9. FlightsAreLed'
  BY SetsAssumption DEF Ownership, FlightsAreLed, Moves, Typed, TypeOK
<1> QED BY <1>4, <1>5, <1>6, <1>7, <1>8, <1>9 DEF Ownership

\* The owner r of s ends its operation and leaves the entry where it is.
LEMMA OwnershipEnd ==
  ASSUME Typed, Ownership, NEW r \in Request, NEW s \in Sid,
         req[r].at = "calling", req[r].entry = s, Moves(r, "answered", s),
         busy' = [busy EXCEPT ![s] = FALSE],
         UNCHANGED <<sessions, gen, authenticated, inflight, reaping>>
  PROVE  Ownership'
<1> USE DEF Owner, Closer
<1>1. \A t \in Sid : Live(t)' <=> Live(t)
  BY LiveWhenUnchanged
<1>2. /\ reaping[s] # "closing"
      /\ \A q \in Request : Owner(q) /\ req[q].entry = s => q = r
  BY OwnedAlone DEF Typed
<1>3. /\ busy'[s] = FALSE /\ \A t \in Sid : t # s => busy'[t] = busy[t]
      /\ \A q \in Request : Owner(q) \/ Closer(q) => req[q].entry \in Sid
  BY DEF Typed, TypeOK, EntryNamed
<1>4. TokensCurrent'
  BY DEF Ownership, TokensCurrent, TokenOf
<1>5. OwnersHold'
  BY <1>1, <1>2, <1>3 DEF Ownership, OwnersHold, Moves
<1>6. ReaperHolds'
  BY <1>1, <1>2, <1>3 DEF Ownership, ReaperHolds, Moves
<1>7. BusyHeld'
  BY <1>1, <1>2, <1>3 DEF Ownership, BusyHeld, Moves
<1>8. ClosersPast'
  BY <1>1, <1>2, <1>3 DEF Ownership, ClosersPast, Moves
<1>9. FlightsAreLed'
  BY SetsAssumption DEF Ownership, FlightsAreLed, Moves, Typed, TypeOK
<1> QED BY <1>4, <1>5, <1>6, <1>7, <1>8, <1>9 DEF Ownership

\* Waiting for another report request changes no ownership.
LEMMA OwnershipWait ==
  ASSUME Typed, Ownership, NEW r \in Request, NEW s \in Sid,
         req[r].at = "route", Moves(r, "waiting", s), inflight[s] # None,
         UNCHANGED <<sessions, gen, authenticated, busy, inflight, reaping>>
  PROVE  Ownership'
<1> USE DEF Owner, Closer
<1>1. \A t \in Sid : Live(t)' <=> Live(t)
  BY LiveWhenUnchanged
<1>2. \A q \in Request : Owner(q) \/ Closer(q) => req[q].entry \in Sid
  BY DEF Typed, EntryNamed
<1>4. TokensCurrent'
  BY DEF Ownership, TokensCurrent, TokenOf
<1>5. OwnersHold'
  BY <1>1, <1>2 DEF Ownership, OwnersHold, Moves
<1>6. ReaperHolds'
  BY <1>1, <1>2 DEF Ownership, ReaperHolds, Moves
<1>7. BusyHeld'
  BY <1>1, <1>2 DEF Ownership, BusyHeld, Moves
<1>8. ClosersPast'
  BY <1>1, <1>2 DEF Ownership, ClosersPast, Moves
<1>9. FlightsAreLed'
  BY SetsAssumption DEF Ownership, FlightsAreLed, Moves, Typed, TypeOK
<1> QED BY <1>4, <1>5, <1>6, <1>7, <1>8, <1>9 DEF Ownership

\* The leader of a flight publishes an answer that keeps the session.
LEMMA OwnershipPublish ==
  ASSUME Typed, Ownership, NEW r \in Request, req[r].at = "reporting",
         Settle(req[r].entry), Publish(r, "published"),
         UNCHANGED <<sessions, gen, authenticated, reaping>>
  PROVE  Ownership'
<1> USE DEF Owner, Closer
<1> DEFINE s == req[r].entry
<1>1. /\ s \in Sid
      /\ busy' = [busy EXCEPT ![s] = FALSE]
      /\ inflight' = [inflight EXCEPT ![s] = None]
  BY DEF Settle, Typed, EntryNamed
<1>2. /\ req'[r].at = "published" /\ req'[r].entry = s
      /\ \A q \in Request : q # r =>
           /\ req'[q].entry = req[q].entry
           /\ req'[q].at = IF req[q].at = "waiting" /\ req[q].entry = s
                           THEN "woken" ELSE req[q].at
  BY DEF Publish, Typed, TypeOK, Handler
<1>3. /\ reaping[s] # "closing"
      /\ \A q \in Request : Owner(q) /\ req[q].entry = s => q = r
  BY <1>1, OwnedAlone DEF Typed
<1>4. \A t \in Sid : Live(t)' <=> Live(t)
  BY LiveWhenUnchanged
<1>5. /\ busy'[s] = FALSE /\ \A t \in Sid : t # s => busy'[t] = busy[t]
      /\ inflight'[s] = None /\ \A t \in Sid : t # s => inflight'[t] = inflight[t]
      /\ \A q \in Request : Owner(q) \/ Closer(q) \/ req[q].at = "waiting"
           => req[q].entry \in Sid
  BY <1>1, <1>3 DEF Typed, TypeOK, EntryNamed
<1> HIDE DEF s
<1>6. TokensCurrent'
  BY DEF Ownership, TokensCurrent, TokenOf
<1>7. OwnersHold'
  BY <1>1, <1>2, <1>3, <1>4, <1>5 DEF Ownership, OwnersHold
<1>8. ReaperHolds'
  BY <1>1, <1>2, <1>3, <1>4, <1>5 DEF Ownership, ReaperHolds
<1>9. BusyHeld'
  <2> SUFFICES ASSUME NEW t \in Sid, Live(t)', busy'[t], reaping'[t] # "closing"
               PROVE  \E q \in Request : Owner(q)' /\ req'[q].entry = t
    BY DEF BusyHeld
  <2>1. t # s /\ Live(t) /\ busy[t]
    BY <1>4, <1>5
  <2>2. PICK q \in Request : Owner(q) /\ req[q].entry = t
    BY <2>1 DEF Ownership, BusyHeld
  <2> QED BY <1>2, <2>1, <2>2 DEF s
<1>10. ClosersPast'
  BY <1>1, <1>2, <1>3, <1>4, <1>5 DEF Ownership, ClosersPast
<1>11. FlightsAreLed'
  <2>1. ASSUME NEW t \in Sid, inflight'[t] # None
        PROVE  /\ req'[inflight'[t]].at = "reporting"
               /\ req'[inflight'[t]].entry = t
    <3>1. t # s /\ inflight'[t] = inflight[t]
      BY <1>5, <2>1
    <3>2. /\ inflight[t] \in Request
          /\ req[inflight[t]].at = "reporting" /\ req[inflight[t]].entry = t
      BY <2>1, <3>1 DEF Ownership, FlightsAreLed, Typed, TypeOK
    <3>3. inflight[t] # r
      BY <3>1, <3>2 DEF s
    <3> QED BY <1>2, <3>1, <3>2, <3>3
  <2>2. ASSUME NEW q \in Request
        PROVE  /\ req'[q].at = "reporting" => inflight'[req'[q].entry] = q
               /\ req'[q].at = "waiting" => inflight'[req'[q].entry] # None
    BY <1>2, <1>3, <1>5 DEF Ownership, FlightsAreLed
  <2> QED BY <2>1, <2>2 DEF FlightsAreLed
<1> QED BY <1>6, <1>7, <1>8, <1>9, <1>10, <1>11 DEF Ownership

\* The reaper's goroutine deletes the entry it marked busy at the tick.
LEMMA OwnershipReaper ==
  ASSUME Typed, Ownership, NEW s \in Sid, Reaper(s)
  PROVE  Ownership'
<1> USE DEF Owner, Closer
<1>0. /\ reaping[s] = "closing" \/ (reaping[s] = "closed" /\ UNCHANGED sessions)
      /\ reaping[s] = "closing" => /\ sessions' = sessions \ {TokenOf(s)}
                                   /\ reaping'[s] = "closed"
      /\ reaping[s] = "closed" => reaping'[s] = "no"
      /\ \A t \in Sid : t # s => reaping'[t] = reaping[t]
      /\ UNCHANGED <<gen, authenticated, busy, inflight, req>>
  BY DEF Reaper, ReapDrop, ReapRelease, entryVars, Typed, TypeOK
<1>1. \A t \in Sid : Live(t)' <=> Live(t) /\ (reaping[s] = "closing" => t # s)
  BY <1>0, LiveWhenRemoved, LiveWhenUnchanged
<1>2. /\ \A q \in Request : Owner(q) \/ Closer(q) => req[q].entry \in Sid
      /\ reaping[s] = "closing" =>
           /\ Live(s) /\ gen[s] > 0
           /\ \A q \in Request : Owner(q) => req[q].entry # s
      /\ reaping[s] = "closed" => ~Live(s) /\ gen[s] > 0
  BY DEF Ownership, ReaperHolds, TokensCurrent, Live, TokenOf, Typed, EntryNamed
<1>4. TokensCurrent'
  BY <1>0, TokensWhenRemoved DEF Ownership, TokensCurrent, TokenOf
<1>5. OwnersHold'
  BY <1>0, <1>1, <1>2 DEF Ownership, OwnersHold
<1>6. ReaperHolds'
  BY <1>0, <1>1, <1>2 DEF Ownership, ReaperHolds
<1>7. BusyHeld'
  BY <1>0, <1>1, <1>2 DEF Ownership, BusyHeld
<1>8. ClosersPast'
  BY <1>0, <1>1, <1>2 DEF Ownership, ClosersPast
<1>9. FlightsAreLed'
  BY <1>0 DEF Ownership, FlightsAreLed
<1> QED BY <1>4, <1>5, <1>6, <1>7, <1>8, <1>9 DEF Ownership

\* The ticker marks only sessions nobody has marked.
LEMMA OwnershipTick ==
  ASSUME Typed, Ownership, ReapTick
  PROVE  Ownership'
<1> USE DEF Owner, Closer
<1>0. PICK due \in SUBSET {s \in Sid : Reclaimable(s)} :
        /\ busy' = [s \in Sid |-> busy[s] \/ s \in due]
        /\ reaping' = [s \in Sid |->
                         IF s \in due THEN "closing" ELSE reaping[s]]
        /\ UNCHANGED <<sessions, gen, authenticated, inflight, req>>
  BY DEF ReapTick, entryVars
<1>1. \A t \in Sid : Live(t)' <=> Live(t)
  BY <1>0, LiveWhenUnchanged
<1>2. /\ \A q \in Request : Owner(q) \/ Closer(q) => req[q].entry \in Sid
      /\ \A t \in due : /\ t \in Sid /\ Live(t) /\ ~busy[t]
                        /\ \A q \in Request : Owner(q) => req[q].entry # t
  BY DEF Reclaimable, Ownership, OwnersHold, Typed, EntryNamed
<1>3. \A t \in Sid : /\ busy'[t] = (busy[t] \/ t \in due)
                     /\ reaping'[t] = IF t \in due THEN "closing" ELSE reaping[t]
  BY <1>0
<1>4. TokensCurrent'
  BY <1>0 DEF Ownership, TokensCurrent, TokenOf
<1>5. OwnersHold'
  BY <1>0, <1>1, <1>2, <1>3 DEF Ownership, OwnersHold
<1>6. ReaperHolds'
  BY <1>0, <1>1, <1>2, <1>3 DEF Ownership, ReaperHolds
<1>7. BusyHeld'
  BY <1>0, <1>1, <1>2, <1>3 DEF Ownership, BusyHeld
<1>8. ClosersPast'
  BY <1>0, <1>1, <1>2 DEF Ownership, ClosersPast
<1>9. FlightsAreLed'
  BY <1>0 DEF Ownership, FlightsAreLed
<1> QED BY <1>4, <1>5, <1>6, <1>7, <1>8, <1>9 DEF Ownership

\* An answer ends the handler.
LEMMA AnswerMoves ==
  ASSUME TypeOK, NEW r \in Request, Answer(r)
  PROVE  Moves(r, "idle", None)
BY DEF TypeOK, Answer, Idle, Moves

\* Ownership depends on the map, the marks and the handlers only.
LEMMA OwnershipSame ==
  ASSUME Ownership,
         UNCHANGED <<sessions, gen, authenticated, busy, inflight, reaping, req>>
  PROVE  Ownership'
BY DEF Ownership, TokensCurrent, OwnersHold, ReaperHolds, BusyHeld, ClosersPast,
       FlightsAreLed, Owner, Closer, Live, TokenOf

\* Making room takes an expired session nobody has marked.
LEMMA OwnershipReclaim ==
  ASSUME Typed, Ownership, NEW r \in Request, Reclaim(r)
  PROVE  Ownership'
<1> USE DEF entryVars
<1>0. TypeOK
  BY DEF Typed
<1>1. CASE ReclaimSkip(r)
  <2>1. Moves(r, "route", None)
    BY <1>0, <1>1, StepMoves DEF ReclaimSkip
  <2> QED BY <1>1, <2>1, OwnershipMove DEF ReclaimSkip
<1>2. ASSUME NEW s \in Sid, ReclaimStart(r, s)
      PROVE  Ownership'
  <2>1. Moves(r, "reclaiming", s)
    BY <1>0, <1>2, StepMoves DEF ReclaimStart
  <2>2. /\ req[r].at = "reclaim" /\ Live(s) /\ ~busy[s]
        /\ busy' = [busy EXCEPT ![s] = TRUE]
        /\ UNCHANGED <<sessions, gen, authenticated, inflight, reaping>>
    BY <1>2 DEF ReclaimStart, Reclaimable
  <2> QED BY <2>1, <2>2, OwnershipBegin
<1>3. CASE ReclaimDrop(r)
  <2> DEFINE s == req[r].entry
  <2>1. Moves(r, "reclaimed", None)
    BY <1>0, <1>3, StepMoves DEF ReclaimDrop
  <2>2. /\ req[r].at = "reclaiming" /\ s \in Sid
        /\ sessions' = sessions \ {TokenOf(s)}
        /\ UNCHANGED <<gen, authenticated, busy, inflight, reaping>>
    BY <1>3 DEF ReclaimDrop, Typed, EntryNamed
  <2> QED BY <2>1, <2>2, OwnershipRemove
<1>4. CASE ReclaimRelease(r)
  <2>1. Moves(r, "route", None)
    BY <1>0, <1>4, StepMoves DEF ReclaimRelease
  <2> QED BY <1>4, <2>1, OwnershipMove DEF ReclaimRelease
<1> QED BY <1>1, <1>2, <1>3, <1>4 DEF Reclaim

\* route marks only a session that is not busy, or a new one.
LEMMA OwnershipRoute ==
  ASSUME Typed, Ownership, NEW r \in Request, Route(r)
  PROVE  Ownership'
<1> USE DEF entryVars
<1> DEFINE c == Lookup(req[r].cookie)
<1>0. TypeOK /\ (c # None => c \in Sid /\ Live(c))
  BY LookupLive DEF Typed, Ownership
<1> HIDE DEF c
<1>1. CASE RouteSignOut(r)
  <2>1. Moves(r, "idle", None)
    BY <1>0, <1>1, AnswerMoves DEF RouteSignOut
  <2> QED BY <1>1, <2>1, OwnershipMove DEF RouteSignOut
<1>2. CASE RouteRefuse(r)
  <2>1. Moves(r, "idle", None)
    BY <1>0, <1>2, AnswerMoves DEF RouteRefuse
  <2> QED BY <1>2, <2>1, OwnershipMove DEF RouteRefuse
<1>3. CASE RouteAdmit(r)
  <2>1. Moves(r, "calling", c)
    BY <1>0, <1>3, StepMoves DEF RouteAdmit, Goto, c
  <2>2. /\ req[r].at = "route" /\ c # None /\ ~busy[c]
        /\ busy' = [busy EXCEPT ![c] = TRUE]
        /\ UNCHANGED <<sessions, gen, authenticated, inflight, reaping>>
    BY <1>3 DEF RouteAdmit, Refuses, IsBusy, c
  <2> QED BY <1>0, <2>1, <2>2, OwnershipBegin
<1>4. ASSUME NEW s \in Sid, RouteCreate(r, s)
      PROVE  Ownership'
  BY <1>4, OwnershipCreate
<1>5. CASE RouteBeyondBound(r)
  <2>1. Moves(r, "idle", None)
    BY <1>0, <1>5, AnswerMoves DEF RouteBeyondBound
  <2> QED BY <1>5, <2>1, OwnershipMove DEF RouteBeyondBound
<1>6. CASE SwitchProvider(r)
  <2>0. /\ req[r].at = "route"
        /\ UNCHANGED <<gen, authenticated, busy, inflight, reaping>>
    BY <1>6 DEF SwitchProvider
  <2>1. CASE c = None \/ IsBusy(c)
    <3>1. Moves(r, "idle", None) /\ UNCHANGED sessions
      BY <1>0, <1>6, <2>1, AnswerMoves DEF SwitchProvider, c
    <3> QED BY <2>0, <3>1, OwnershipMove
  <2>2. CASE ~(c = None \/ IsBusy(c))
    <3>1. /\ Moves(r, "discarding", c)
          /\ sessions' = sessions \ {TokenOf(c)}
      BY <1>0, <1>6, <2>2, StepMoves DEF SwitchProvider, Goto, c
    <3>2. c \in Sid /\ Live(c) /\ ~busy[c]
      BY <1>0, <2>2 DEF IsBusy
    <3> QED BY <2>0, <3>1, <3>2, OwnershipDiscard
  <2> QED BY <2>1, <2>2
<1> QED BY <1>1, <1>2, <1>3, <1>4, <1>5, <1>6 DEF Route

\* What mutate does after the call it does to a session it owns.
LEMMA OwnershipMutate ==
  ASSUME Typed, Ownership, NEW r \in Request, Mutate(r)
  PROVE  Ownership'
<1> USE DEF entryVars
<1> DEFINE s == req[r].entry
<1>0. TypeOK /\ (req[r].at = "calling" => s \in Sid)
  BY DEF Typed, EntryNamed
<1> HIDE DEF s
<1>1. CASE FinishRemove(r)
  <2> DEFINE place == IF req[r].path = "logout" THEN "answered" ELSE "dropping"
  <2>1. Moves(r, place, s)
    BY <1>0, <1>1, StepMoves DEF FinishRemove, Goto, s
  <2>2. /\ req[r].at = "calling" /\ req[r].entry = s
        /\ sessions' = sessions \ {TokenOf(s)}
        /\ busy' = [busy EXCEPT ![s] = FALSE]
        /\ UNCHANGED <<gen, authenticated, inflight, reaping>>
    BY <1>1 DEF FinishRemove, s
  <2>3. \A t \in Sid : t # s => busy'[t] = busy[t]
    BY <1>0, <2>2 DEF TypeOK
  <2> QED BY <1>0, <2>1, <2>2, <2>3, OwnershipRemove
<1>2. CASE FinishChallenge(r)
  <2>1. Moves(r, "answered", s)
    BY <1>0, <1>2, StepMoves DEF FinishChallenge, Goto, s
  <2>2. /\ req[r].at = "calling" /\ req[r].entry = s
        /\ busy' = [busy EXCEPT ![s] = FALSE]
        /\ UNCHANGED <<sessions, gen, authenticated, inflight, reaping>>
    BY <1>2 DEF FinishChallenge, s
  <2> QED BY <1>0, <2>1, <2>2, OwnershipEnd
<1>3. CASE FinishPrepare(r)
  <2>1. Moves(r, "answered", s)
    BY <1>0, <1>3, StepMoves DEF FinishPrepare, Goto, s
  <2>2. /\ req[r].at = "calling" /\ req[r].entry = s
        /\ busy' = [busy EXCEPT ![s] = FALSE]
        /\ UNCHANGED <<sessions, gen, authenticated, inflight, reaping>>
    BY <1>3 DEF FinishPrepare, s
  <2> QED BY <1>0, <2>1, <2>2, OwnershipEnd
<1>4. ASSUME NEW a \in Account, FinishLogin(r, a)
      PROVE  Ownership'
  <2>1. Moves(r, "answered", s)
    BY <1>0, <1>4, StepMoves DEF FinishLogin, Goto, s
  <2>2. /\ req[r].at = "calling" /\ req[r].entry = s /\ Rotate(s)
        /\ busy' = [busy EXCEPT ![s] = FALSE]
        /\ authenticated' = [authenticated EXCEPT ![s] = TRUE]
        /\ UNCHANGED <<inflight, reaping>>
    BY <1>4 DEF FinishLogin, s
  <2> QED BY <1>0, <2>1, <2>2, OwnershipRotate
<1>5. CASE DropDone(r)
  <2>1. Moves(r, "answered", None)
    BY <1>0, <1>5, StepMoves DEF DropDone, Goto
  <2> QED BY <1>5, <2>1, OwnershipMove DEF DropDone
<1>6. CASE AnswerRelease(r)
  <2>1. Moves(r, "idle", None)
    BY <1>0, <1>6, AnswerMoves DEF AnswerRelease
  <2> QED BY <1>6, <2>1, OwnershipMove DEF AnswerRelease
<1> QED BY <1>1, <1>2, <1>3, <1>4, <1>5, <1>6 DEF Mutate

\* What reports does after the call it does to a session it owns.
LEMMA OwnershipReports ==
  ASSUME Typed, Ownership, NEW r \in Request, Reports(r)
  PROVE  Ownership'
<1> USE DEF entryVars
<1> DEFINE c == Lookup(req[r].cookie)
<1>0. TypeOK /\ (c # None => c \in Sid /\ Live(c))
  BY LookupLive DEF Typed, Ownership
<1> HIDE DEF c
<1>1. CASE ReportsRefuse(r)
  <2>1. Moves(r, "idle", None)
    BY <1>0, <1>1, AnswerMoves DEF ReportsRefuse
  <2> QED BY <1>1, <2>1, OwnershipMove DEF ReportsRefuse
<1>2. CASE ReportsCached(r)
  <2>1. Moves(r, "idle", None)
    BY <1>0, <1>2, AnswerMoves DEF ReportsCached
  <2> QED BY <1>2, <2>1, OwnershipMove DEF ReportsCached
<1>3. CASE ReportsJoin(r)
  <2>1. Moves(r, "waiting", c)
    BY <1>0, <1>3, StepMoves DEF ReportsJoin, Goto, c
  <2>2. /\ req[r].at = "route" /\ c # None /\ inflight[c] # None
        /\ UNCHANGED <<sessions, gen, authenticated, busy, inflight, reaping>>
    BY <1>3 DEF ReportsJoin, SignedIn, c
  <2> QED BY <1>0, <2>1, <2>2, OwnershipWait
<1>4. CASE ReportsLead(r)
  <2>1. Moves(r, "reporting", c)
    BY <1>0, <1>4, StepMoves DEF ReportsLead, Goto, c
  <2>2. /\ req[r].at = "route" /\ c # None /\ ~busy[c]
        /\ busy' = [busy EXCEPT ![c] = TRUE]
        /\ inflight' = [inflight EXCEPT ![c] = r]
        /\ UNCHANGED <<sessions, gen, authenticated, reaping>>
    BY <1>4 DEF ReportsLead, SignedIn, c
  <2> QED BY <1>0, <2>1, <2>2, OwnershipBegin
<1>5. CASE ReportsOk(r)
  BY <1>5, OwnershipPublish DEF ReportsOk
<1>6. CASE ReportsExpired(r)
  BY <1>6, OwnershipExpelled
<1>7. CASE ReportsFailed(r)
  BY <1>7, OwnershipPublish DEF ReportsFailed
<1>8. CASE ReportsRelease(r)
  <2>0. /\ req[r].at \in {"published", "expelled"}
        /\ UNCHANGED <<sessions, gen, authenticated, busy, inflight, reaping>>
    BY <1>8 DEF ReportsRelease
  <2>1. CASE Ratio /\ req[r].at = "expelled"
    <3>1. Moves(r, "discarding", req[r].entry)
      BY <1>0, <1>8, <2>1, StepMoves DEF ReportsRelease, Goto
    <3> QED BY <2>0, <2>1, <3>1, OwnershipMove
  <2>2. CASE ~(Ratio /\ req[r].at = "expelled")
    <3>1. Moves(r, "idle", None)
      BY <1>0, <1>8, <2>2, AnswerMoves DEF ReportsRelease
    <3> QED BY <2>0, <3>1, OwnershipMove
  <2> QED BY <2>1, <2>2
<1>9. CASE DiscardDone(r)
  <2>1. Moves(r, "idle", None)
    BY <1>0, <1>9, AnswerMoves DEF DiscardDone
  <2> QED BY <1>9, <2>1, OwnershipMove DEF DiscardDone
<1>10. CASE WaiterResumes(r)
  <2>1. Moves(r, "idle", None)
    BY <1>0, <1>10, AnswerMoves DEF WaiterResumes
  <2> QED BY <1>10, <2>1, OwnershipMove DEF WaiterResumes
<1> QED BY <1>1, <1>2, <1>3, <1>4, <1>5, <1>6, <1>7, <1>8, <1>9, <1>10
        DEF Reports

\* Every step keeps the ownership.
LEMMA NextOwnership == Typed /\ Ownership /\ [Next]_vars => Ownership'
<1> SUFFICES ASSUME Typed, Ownership, [Next]_vars
             PROVE  Ownership'
  OBVIOUS
<1> USE DEF entryVars
<1>0. TypeOK
  BY DEF Typed
<1>1. ASSUME NEW r \in Request, Arrive(r)
      PROVE  Ownership'
  <2>1. PICK place \in {"reclaim", "route"} : Moves(r, place, None)
    BY <1>0, <1>1 DEF Arrive, Moves, TypeOK
  <2> QED BY <1>1, <2>1, OwnershipMove DEF Arrive
<1>2. ASSUME NEW r \in Request, Handle(r)
      PROVE  Ownership'
  BY <1>2, OwnershipReclaim, OwnershipRoute, OwnershipMutate, OwnershipReports
     DEF Handle
<1>3. ASSUME NEW r \in Request, WaiterGone(r)
      PROVE  Ownership'
  <2>1. Moves(r, "idle", None)
    BY <1>0, <1>3, AnswerMoves DEF WaiterGone
  <2> QED BY <1>3, <2>1, OwnershipMove DEF WaiterGone
<1>4. ASSUME NEW s \in Sid, Reaper(s)
      PROVE  Ownership'
  BY <1>4, OwnershipReaper
<1>5. ASSUME NEW s \in Sid, Expire(s)
      PROVE  Ownership'
  BY <1>5, OwnershipSame DEF Expire
<1>6. ASSUME NEW s \in Sid, CacheAges(s)
      PROVE  Ownership'
  BY <1>6, OwnershipSame DEF CacheAges
<1>7. CASE ReapTick
  BY <1>7, OwnershipTick
<1>8. CASE UNCHANGED vars
  BY <1>8, OwnershipSame DEF vars
<1> QED BY <1>1, <1>2, <1>3, <1>4, <1>5, <1>6, <1>7, <1>8 DEF Next

-------------------------------------------------------------------------------
(* The semaphore.  Every step that sends to server.slots moves one handler  *)
(* or some reaper goroutines into the holding places, and every receive     *)
(* moves one out.                                                           *)

\* Who holds a slot can be counted.
LEMMA HoldersFinite ==
  /\ IsFiniteSet(HoldingRequests) /\ Cardinality(HoldingRequests) \in Nat
  /\ IsFiniteSet(HoldingReapers) /\ Cardinality(HoldingReapers) \in Nat
BY SetsAssumption, FS_Subset, FS_CardinalityType
   DEF HoldingRequests, HoldingReapers

\* A handler that keeps what it holds keeps the count.
LEMMA HoldSame ==
  ASSUME NEW r \in Request, NEW place, NEW e, Moves(r, place, e),
         req[r].at \in Holding <=> place \in Holding,
         UNCHANGED <<reaping, slots>>, SlotsCounted
  PROVE  SlotsCounted'
<1>1. HoldingRequests' = HoldingRequests
  BY DEF HoldingRequests, Moves
<1>2. HoldingReapers' = HoldingReapers
  BY DEF HoldingReapers
<1> QED BY <1>1, <1>2 DEF SlotsCounted

\* A send to the channel is one more holder.
LEMMA HoldAcquire ==
  ASSUME NEW r \in Request, NEW place, NEW e, Moves(r, place, e),
         req[r].at \notin Holding, place \in Holding,
         Acquire, UNCHANGED reaping, SlotsCounted
  PROVE  SlotsCounted'
<1>1. HoldingRequests' = HoldingRequests \cup {r} /\ r \notin HoldingRequests
  BY DEF HoldingRequests, Moves
<1>2. HoldingReapers' = HoldingReapers
  BY DEF HoldingReapers
<1>3. Cardinality(HoldingRequests') = Cardinality(HoldingRequests) + 1
  BY <1>1, HoldersFinite, FS_AddElement
<1> QED BY <1>2, <1>3, HoldersFinite, BoundsAssumption DEF SlotsCounted, Acquire

\* A receive from the channel is one holder less.
LEMMA HoldRelease ==
  ASSUME NEW r \in Request, NEW place, NEW e, Moves(r, place, e),
         req[r].at \in Holding, place \notin Holding,
         Release, UNCHANGED reaping, SlotsCounted
  PROVE  SlotsCounted'
<1>1. HoldingRequests' = HoldingRequests \ {r} /\ r \in HoldingRequests
  BY DEF HoldingRequests, Moves
<1>2. HoldingReapers' = HoldingReapers
  BY DEF HoldingReapers
<1>3. Cardinality(HoldingRequests') = Cardinality(HoldingRequests) - 1
  BY <1>1, HoldersFinite, FS_RemoveElement
<1> QED BY <1>2, <1>3, HoldersFinite, BoundsAssumption DEF SlotsCounted, Release

\* Publishing wakes waiters, who hold nothing; the leader keeps its slot.
LEMMA HoldPublish ==
  ASSUME TypeOK, NEW r \in Request, NEW place \in {"published", "expelled"},
         req[r].at = "reporting", Publish(r, place),
         UNCHANGED <<reaping, slots>>, SlotsCounted
  PROVE  SlotsCounted'
<1>1. \A q \in Request : req'[q].at \in Holding <=> req[q].at \in Holding
  BY DEF Publish, TypeOK, Handler, Holding
<1>2. HoldingRequests' = HoldingRequests
  BY <1>1 DEF HoldingRequests
<1>3. HoldingReapers' = HoldingReapers
  BY DEF HoldingReapers
<1> QED BY <1>2, <1>3 DEF SlotsCounted

\* A reaper goroutine gives back the one slot it took.
LEMMA HoldReaper ==
  ASSUME TypeOK, NEW s \in Sid, Reaper(s), SlotsCounted
  PROVE  SlotsCounted'
<1>1. HoldingRequests' = HoldingRequests
  BY DEF Reaper, ReapDrop, ReapRelease, HoldingRequests
<1>2. CASE ReapDrop(s)
  <2>1. HoldingReapers' = HoldingReapers
    BY <1>2 DEF ReapDrop, HoldingReapers, TypeOK
  <2> QED BY <1>1, <1>2, <2>1 DEF SlotsCounted, ReapDrop
<1>3. CASE ReapRelease(s)
  <2>1. HoldingReapers' = HoldingReapers \ {s} /\ s \in HoldingReapers
    BY <1>3 DEF ReapRelease, HoldingReapers, TypeOK
  <2>2. Cardinality(HoldingReapers') = Cardinality(HoldingReapers) - 1
    BY <2>1, HoldersFinite, FS_RemoveElement
  <2> QED BY <1>1, <1>3, <2>2, HoldersFinite, BoundsAssumption
          DEF SlotsCounted, ReapRelease, Release
<1> QED BY <1>2, <1>3 DEF Reaper

\* The ticker takes a slot for each goroutine it starts.
LEMMA HoldTick ==
  ASSUME TypeOK, Ownership, ReapTick, SlotsCounted
  PROVE  SlotsCounted'
<1>1. PICK due \in SUBSET {s \in Sid : Reclaimable(s)} :
        /\ slots + Cardinality(due) <= MaxConcurrent
        /\ slots' = slots + Cardinality(due)
        /\ reaping' = [s \in Sid |->
                         IF s \in due THEN "closing" ELSE reaping[s]]
        /\ UNCHANGED req
  BY DEF ReapTick
<1>2. \A s \in due : s \in Sid /\ reaping[s] = "no"
  BY DEF Reclaimable, Ownership, ReaperHolds, TypeOK
<1>3. HoldingReapers' = HoldingReapers \cup due /\ HoldingReapers \cap due = {}
  BY <1>1, <1>2 DEF HoldingReapers
<1>4. HoldingRequests' = HoldingRequests
  BY <1>1 DEF HoldingRequests
<1>5. IsFiniteSet(due) /\ Cardinality(due) \in Nat
  BY SetsAssumption, FS_Subset, FS_CardinalityType
<1>6. Cardinality(HoldingReapers') = Cardinality(HoldingReapers) + Cardinality(due)
  <2>1. Cardinality(HoldingReapers \cap due) = 0
    BY <1>3, FS_EmptySet
  <2>2. Cardinality(HoldingReapers \cup due)
          = Cardinality(HoldingReapers) + Cardinality(due)
              - Cardinality(HoldingReapers \cap due)
    BY <1>5, HoldersFinite, FS_Union
  <2> QED BY <1>3, <1>5, <2>1, <2>2, HoldersFinite
<1> QED BY <1>1, <1>4, <1>5, <1>6, HoldersFinite, BoundsAssumption
        DEF SlotsCounted

\* No slot is taken at first.
LEMMA InitSlots == Init => SlotsCounted
<1> SUFFICES ASSUME Init PROVE SlotsCounted
  OBVIOUS
<1>1. HoldingRequests = {} /\ HoldingReapers = {}
  BY DEF Init, HoldingRequests, HoldingReapers, Holding, Idle
<1> QED BY <1>1, FS_EmptySet, BoundsAssumption DEF Init, SlotsCounted

\* Every step keeps the count.
LEMMA NextSlots ==
  Typed /\ Ownership /\ SlotsCounted /\ [Next]_vars => SlotsCounted'
<1> SUFFICES ASSUME Typed, Ownership, SlotsCounted, [Next]_vars
             PROVE  SlotsCounted'
  OBVIOUS
<1>0. TypeOK
  BY DEF Typed
<1> USE <1>0 DEF Holding
<1>1. ASSUME NEW r \in Request, Arrive(r)
      PROVE  SlotsCounted'
  <2>1. PICK place \in {"reclaim", "route"} : Moves(r, place, None)
    BY <1>1 DEF Arrive, Moves, TypeOK
  <2> QED BY <1>1, <2>1, HoldSame DEF Arrive
<1>2. ASSUME NEW r \in Request, Reclaim(r)
      PROVE  SlotsCounted'
  <2>1. CASE ReclaimSkip(r)
    BY <2>1, StepMoves, HoldSame DEF ReclaimSkip
  <2>2. ASSUME NEW s \in Sid, ReclaimStart(r, s)
        PROVE  SlotsCounted'
    BY <2>2, StepMoves, HoldAcquire DEF ReclaimStart
  <2>3. CASE ReclaimDrop(r)
    BY <2>3, StepMoves, HoldSame DEF ReclaimDrop
  <2>4. CASE ReclaimRelease(r)
    BY <2>4, StepMoves, HoldRelease DEF ReclaimRelease
  <2> QED BY <1>2, <2>1, <2>2, <2>3, <2>4 DEF Reclaim
<1>3. ASSUME NEW r \in Request, Route(r)
      PROVE  SlotsCounted'
  <2>1. CASE RouteSignOut(r)
    BY <2>1, AnswerMoves, HoldSame DEF RouteSignOut
  <2>2. CASE RouteRefuse(r)
    BY <2>2, AnswerMoves, HoldSame DEF RouteRefuse
  <2>3. CASE RouteAdmit(r)
    BY <2>3, StepMoves, HoldAcquire DEF RouteAdmit, Goto
  <2>4. ASSUME NEW s \in Sid, RouteCreate(r, s)
        PROVE  SlotsCounted'
    BY <2>4, StepMoves, HoldAcquire DEF RouteCreate, Goto
  <2>5. CASE RouteBeyondBound(r)
    BY <2>5, AnswerMoves, HoldSame DEF RouteBeyondBound
  <2>6. CASE SwitchProvider(r)
    <3>1. /\ req[r].at = "route"
          /\ UNCHANGED <<slots, reaping>>
          /\ \/ Answer(r)
             \/ Goto(r, "discarding", Lookup(req[r].cookie))
      BY <2>6 DEF SwitchProvider
    <3> QED BY <3>1, AnswerMoves, StepMoves, HoldSame DEF Goto
  <2> QED BY <1>3, <2>1, <2>2, <2>3, <2>4, <2>5, <2>6 DEF Route
<1>4. ASSUME NEW r \in Request, Mutate(r)
      PROVE  SlotsCounted'
  <2>1. CASE FinishRemove(r)
    <3> DEFINE place == IF req[r].path = "logout" THEN "answered" ELSE "dropping"
    <3>1. Moves(r, place, req[r].entry)
      BY <2>1, StepMoves DEF FinishRemove, Goto
    <3> QED BY <2>1, <3>1, HoldSame DEF FinishRemove
  <2>2. CASE FinishChallenge(r)
    BY <2>2, StepMoves, HoldSame DEF FinishChallenge, Goto
  <2>3. CASE FinishPrepare(r)
    BY <2>3, StepMoves, HoldSame DEF FinishPrepare, Goto
  <2>4. ASSUME NEW a \in Account, FinishLogin(r, a)
        PROVE  SlotsCounted'
    BY <2>4, StepMoves, HoldSame DEF FinishLogin, Goto
  <2>5. CASE DropDone(r)
    BY <2>5, StepMoves, HoldSame DEF DropDone, Goto
  <2>6. CASE AnswerRelease(r)
    BY <2>6, AnswerMoves, HoldRelease DEF AnswerRelease
  <2> QED BY <1>4, <2>1, <2>2, <2>3, <2>4, <2>5, <2>6 DEF Mutate
<1>5. ASSUME NEW r \in Request, Reports(r)
      PROVE  SlotsCounted'
  <2>1. CASE ReportsRefuse(r)
    BY <2>1, AnswerMoves, HoldSame DEF ReportsRefuse
  <2>2. CASE ReportsCached(r)
    BY <2>2, AnswerMoves, HoldSame DEF ReportsCached
  <2>3. CASE ReportsJoin(r)
    BY <2>3, StepMoves, HoldSame DEF ReportsJoin, Goto
  <2>4. CASE ReportsLead(r)
    BY <2>4, StepMoves, HoldAcquire DEF ReportsLead, Goto
  <2>5. CASE ReportsOk(r)
    BY <2>5, HoldPublish DEF ReportsOk
  <2>6. CASE ReportsExpired(r)
    BY <2>6, HoldPublish DEF ReportsExpired
  <2>7. CASE ReportsFailed(r)
    BY <2>7, HoldPublish DEF ReportsFailed
  <2>8. CASE ReportsRelease(r)
    <3>1. /\ req[r].at \in {"published", "expelled"}
          /\ Release /\ UNCHANGED reaping
          /\ Answer(r) \/ Goto(r, "discarding", req[r].entry)
      BY <2>8 DEF ReportsRelease
    <3> QED BY <3>1, AnswerMoves, StepMoves, HoldRelease DEF Goto
  <2>9. CASE DiscardDone(r)
    BY <2>9, AnswerMoves, HoldSame DEF DiscardDone
  <2>10. CASE WaiterResumes(r)
    BY <2>10, AnswerMoves, HoldSame DEF WaiterResumes
  <2> QED BY <1>5, <2>1, <2>2, <2>3, <2>4, <2>5, <2>6, <2>7, <2>8, <2>9, <2>10
          DEF Reports
<1>6. ASSUME NEW r \in Request, WaiterGone(r)
      PROVE  SlotsCounted'
  BY <1>6, AnswerMoves, HoldSame DEF WaiterGone
<1>7. ASSUME NEW s \in Sid, Reaper(s)
      PROVE  SlotsCounted'
  BY <1>7, HoldReaper
<1>8. CASE ReapTick
  BY <1>8, HoldTick
<1>9. ASSUME UNCHANGED <<slots, reaping, req>>
      PROVE  SlotsCounted'
  BY <1>9 DEF SlotsCounted, HoldingRequests, HoldingReapers
<1>10. ASSUME NEW s \in Sid, Expire(s) \/ CacheAges(s)
       PROVE  SlotsCounted'
  BY <1>9, <1>10 DEF Expire, CacheAges
<1>11. CASE UNCHANGED vars
  BY <1>9, <1>11 DEF vars
<1> QED BY <1>1, <1>2, <1>3, <1>4, <1>5, <1>6, <1>7, <1>8, <1>10, <1>11
        DEF Next, Handle

-------------------------------------------------------------------------------
(* The map.  A step removes entries, or allocates a struct when there is    *)
(* room, or replaces the token of a struct that is in the map.              *)

Shrinks == sessions' \subseteq sessions /\ gen' = gen
Allocates(s) ==
  /\ ~(Cardinality(sessions) >= MaxSessions)
  /\ gen[s] = 0
  /\ gen' = [gen EXCEPT ![s] = 1]
  /\ sessions' = sessions \cup {<<s, 1>>}
Renames(s) ==
  /\ Live(s)
  /\ gen' = [gen EXCEPT ![s] = gen[s] + 1]
  /\ sessions' = (sessions \ {TokenOf(s)}) \cup {<<s, gen[s] + 1>>}

\* A step removes tokens, files one new session or rotates one token.
LEMMA MapStep ==
  ASSUME Typed, Ownership, Next
  PROVE  Shrinks \/ \E s \in Sid : Allocates(s) \/ Renames(s)
<1>0. TypeOK
  BY DEF Typed
<1>1. ASSUME NEW r \in Request, Arrive(r) \/ Reclaim(r) \/ WaiterGone(r)
      PROVE  Shrinks
  BY <1>1 DEF Shrinks, entryVars, Arrive, WaiterGone, Reclaim, ReclaimSkip,
              ReclaimStart, ReclaimDrop, ReclaimRelease
<1>2. ASSUME NEW r \in Request, NEW s \in Sid, RouteCreate(r, s)
      PROVE  Allocates(s)
  BY <1>2 DEF RouteCreate, Refuses, Allocates
<1>3. ASSUME NEW r \in Request, NEW a \in Account, FinishLogin(r, a)
      PROVE  \E s \in Sid : Renames(s)
  <2>1. req[r].entry \in Sid /\ Live(req[r].entry)
    BY <1>3 DEF FinishLogin, Typed, EntryNamed, Ownership, OwnersHold, Owner
  <2> QED BY <1>3, <2>1 DEF FinishLogin, Rotate, Renames
<1>4. ASSUME NEW r \in Request, Route(r), \A s \in Sid : ~RouteCreate(r, s)
      PROVE  Shrinks
  BY <1>4 DEF Shrinks, entryVars, Route, RouteSignOut, RouteRefuse, RouteAdmit,
              RouteBeyondBound, SwitchProvider
<1>5. ASSUME NEW r \in Request, Mutate(r), \A a \in Account : ~FinishLogin(r, a)
      PROVE  Shrinks
  BY <1>5 DEF Shrinks, entryVars, Mutate, FinishRemove, FinishChallenge,
              FinishPrepare, DropDone, AnswerRelease
<1>6. ASSUME NEW r \in Request, Reports(r)
      PROVE  Shrinks
  BY <1>6 DEF Shrinks, entryVars, Reports, ReportsRefuse, ReportsCached,
              ReportsJoin, ReportsLead, ReportsOk, ReportsExpired, ReportsFailed,
              ReportsRelease, DiscardDone, WaiterResumes
<1>7. ASSUME NEW s \in Sid, Reaper(s) \/ Expire(s) \/ CacheAges(s)
      PROVE  Shrinks
  BY <1>7 DEF Shrinks, entryVars, Reaper, ReapDrop, ReapRelease, Expire, CacheAges
<1>8. CASE ReapTick
  BY <1>8 DEF Shrinks, entryVars, ReapTick
<1> QED
  BY <1>1, <1>2, <1>3, <1>4, <1>5, <1>6, <1>7, <1>8 DEF Next, Handle

\* A session that has left the map does not come back.
LEMMA NextKeepsGone ==
  ASSUME Typed, Ownership, [Next]_vars
  PROVE  \A s \in Sid : gen[s] > 0 /\ ~Live(s) => ~Live(s)'
<1> SUFFICES ASSUME NEW s \in Sid, gen[s] > 0, ~Live(s)
             PROVE  ~Live(s)'
  OBVIOUS
<1>1. CASE UNCHANGED vars
  BY <1>1 DEF vars, entryVars, Live, TokenOf
<1>2. CASE Shrinks
  BY <1>2 DEF Shrinks, Live, TokenOf
<1>3. ASSUME NEW n \in Sid, Allocates(n)
      PROVE  ~Live(s)'
  <2>1. n # s /\ gen'[s] = gen[s]
    BY <1>3 DEF Allocates, Typed, TypeOK
  <2> QED BY <1>3, <2>1 DEF Allocates, Live, TokenOf
<1>4. ASSUME NEW n \in Sid, Renames(n)
      PROVE  ~Live(s)'
  <2>1. n # s /\ gen'[s] = gen[s]
    BY <1>4 DEF Renames, Typed, TypeOK
  <2> QED BY <1>4, <2>1 DEF Renames, Live, TokenOf
<1> QED BY <1>1, <1>2, <1>3, <1>4, MapStep

Bounded == IsFiniteSet(sessions) /\ PoolBounded

\* The pool is empty at first.
LEMMA InitBounded == Init => Bounded
BY FS_EmptySet, BoundsAssumption DEF Init, Bounded, PoolBounded

\* Only an allocation makes the pool larger, and it looks at the size.
LEMMA NextBounded ==
  ASSUME Typed, Ownership, Bounded, [Next]_vars
  PROVE  Bounded'
<1>1. IsFiniteSet(sessions) /\ Cardinality(sessions) \in Nat
  BY FS_CardinalityType DEF Bounded
<1>2. CASE UNCHANGED vars
  BY <1>2 DEF vars, Bounded, PoolBounded
<1>3. CASE Shrinks
  <2>1. IsFiniteSet(sessions') /\ Cardinality(sessions') <= Cardinality(sessions)
    BY <1>1, <1>3, FS_Subset DEF Shrinks
  <2> QED BY <1>1, <2>1, FS_CardinalityType, BoundsAssumption
          DEF Bounded, PoolBounded
<1>4. ASSUME NEW s \in Sid, Allocates(s)
      PROVE  Bounded'
  <2>1. /\ IsFiniteSet(sessions')
        /\ \/ Cardinality(sessions') = Cardinality(sessions)
           \/ Cardinality(sessions') = Cardinality(sessions) + 1
    BY <1>1, <1>4, FS_AddElement DEF Allocates
  <2> QED BY <1>1, <1>4, <2>1, BoundsAssumption
          DEF Allocates, Bounded, PoolBounded
<1>5. ASSUME NEW s \in Sid, Renames(s)
      PROVE  Bounded'
  <2> DEFINE rest == sessions \ {TokenOf(s)}
  <2>1. IsFiniteSet(rest) /\ Cardinality(rest) = Cardinality(sessions) - 1
    BY <1>1, <1>5, FS_RemoveElement DEF Renames, Live
  <2>2. /\ IsFiniteSet(sessions')
        /\ \/ Cardinality(sessions') = Cardinality(rest)
           \/ Cardinality(sessions') = Cardinality(rest) + 1
    BY <1>5, <2>1, FS_AddElement DEF Renames
  <2> QED BY <1>1, <2>1, <2>2, BoundsAssumption DEF Bounded, PoolBounded
<1> QED BY <1>2, <1>3, <1>4, <1>5, MapStep

-------------------------------------------------------------------------------
(* The theorems.                                                            *)

Inv == Typed /\ Ownership /\ SlotsCounted /\ Bounded

\* The invariant holds in every state.
LEMMA Invariance == Spec => []Inv
<1>1. Init => Inv
  BY InitTyped, InitOwnership, InitSlots, InitBounded DEF Inv
<1>2. Inv /\ [Next]_vars => Inv'
  BY NextTyped, NextOwnership, NextSlots, NextBounded DEF Inv
<1> QED BY <1>1, <1>2, PTL DEF Spec

\* The semaphore counts the goroutines that hold it: no handler leaks a slot or
\* returns one twice on any path, so `slots` can neither dry up nor be overrun.
THEOREM SlotsNeverLeak == Spec => []SlotsCounted
BY Invariance, PTL DEF Inv

\* The busy mark excludes: one operation per session, the reaper's included,
\* and its entry stays reachable under its token until the operation ends.
THEOREM OneOperationAtATime == Spec => []OneOperation
<1>1. Inv => OneOperation
  BY DEF Inv, Typed, TypeOK, Ownership, OwnersHold, ReaperHolds, Owner,
         OneOperation, Owned, Owners
<1> QED BY <1>1, Invariance, PTL

\* The busy mark is always taken off: only a running operation explains it.
THEOREM BusyIsReleased == Spec => []NoSessionStuck
<1>1. Inv => NoSessionStuck
  BY DEF Inv, Ownership, BusyHeld, Owner, NoSessionStuck, Owned, Owners
<1> QED BY <1>1, Invariance, PTL

\* A context serves one call at a time, the closes after a 401, a sign-out or a
\* provider switch included.
THEOREM ContextsAreNotShared == Spec => []OneCallPerSession
<1>1. ASSUME Inv, NEW s \in Sid, NEW r \in Callers(s)
      PROVE  /\ r \in Request /\ req[r].entry = s
             /\ \/ Owner(r) /\ Live(s)
                \/ Closer(r) /\ ~Live(s)
  BY <1>1 DEF Callers, Inv, Ownership, OwnersHold, ClosersPast, Owner, Closer
<1>2. ASSUME Inv, NEW s \in Sid, NEW r \in Callers(s), NEW q \in Callers(s)
      PROVE  r = q
  BY <1>1, <1>2 DEF Inv, Ownership, OwnersHold, ClosersPast
<1>3. ASSUME Inv, NEW s \in Sid, reaping[s] = "closing", NEW r \in Callers(s)
      PROVE  FALSE
  BY <1>1, <1>3 DEF Inv, Ownership, ReaperHolds
<1>4. Inv => OneCallPerSession
  BY <1>2, <1>3 DEF OneCallPerSession
<1> QED BY <1>4, Invariance, PTL

\* The pool keeps its bound although an expired entry is reclaimed, and a new
\* one admitted, in separate critical sections.
THEOREM PoolStaysBounded == Spec => []PoolBounded
BY Invariance, PTL DEF Inv, Bounded

\* Each entry has one key, and a signed-in entry never the one of its challenge.
THEOREM TokensAreRotated == Spec => []OneTokenPerSession
<1>1. Inv => OneTokenPerSession
  <2> SUFFICES ASSUME Inv, NEW t \in sessions
               PROVE  /\ t = TokenOf(t[1])
                      /\ authenticated[t[1]] => t[2] > 1
    BY DEF OneTokenPerSession
  <2>1. t[1] \in Sid /\ t = TokenOf(t[1])
    BY DEF Inv, Typed, TypeOK, Token, Ownership, TokensCurrent
  <2>2. t[2] = gen[t[1]]
    BY <2>1 DEF TokenOf
  <2> QED BY <2>1, <2>2 DEF Inv, Ownership, TokensCurrent
<1> QED BY <1>1, Invariance, PTL

\* Nobody waits for a report that no running request will publish.
THEOREM NoLostWakeup == Spec => []FlightsAreLed
BY Invariance, PTL DEF Inv, Ownership

\* An entry that was removed is never found again, even by the operation that
\* was running on it.
THEOREM RemovedForGood == Spec => NoResurrection
<1>1. Inv /\ [Next]_vars => \A s \in Sid : gen[s] > 0 /\ ~Live(s) => ~Live(s)'
  BY NextKeepsGone DEF Inv
<1> QED BY <1>1, Invariance, PTL DEF Spec, NoResurrection

-------------------------------------------------------------------------------
(***************************************************************************)
(* GoSessions implements WorkerLease: every step of the session layer      *)
(* begins or ends one operation on a context, or gives the context up, or  *)
(* is none of the worker's business, for every number of requests and      *)
(* sessions and for both workers.                                          *)
(***************************************************************************)

-------------------------------------------------------------------------------
(* Only the ratio worker is closed without a slot.                          *)

RatioOnly ==
  \A r \in Request : req[r].at = "discarding" \/ req[r].path = "academia" => Ratio

\* Nobody closes anything at first.
LEMMA InitRatioOnly == Init => RatioOnly
BY DEF Init, Idle, RatioOnly

\* A handler's path never changes, and its place only as the action says.
LEMMA StepRatioOnly ==
  ASSUME TypeOK, RatioOnly, NEW r \in Request, NEW place, NEW c, NEW s, Step(r, place, c, s),
         place = "discarding" => Ratio
  PROVE  RatioOnly'
BY DEF TypeOK, RatioOnly, Step

\* An answer starts no close.
LEMMA AnswerRatioOnly ==
  ASSUME TypeOK, RatioOnly, NEW r \in Request, Answer(r)
  PROVE  RatioOnly'
BY DEF TypeOK, RatioOnly, Answer, Idle

\* A close after a 401 is published by the ratio worker only.
LEMMA PublishRatioOnly ==
  ASSUME TypeOK, RatioOnly, NEW r \in Request, NEW place \in {"published", "expelled"},
         Publish(r, place)
  PROVE  RatioOnly'
<1>1. \A q \in Request :
        /\ req'[q].path = req[q].path
        /\ req'[q].at \in {req[q].at, "published", "expelled", "woken"}
  BY DEF Publish, TypeOK, Handler
<1> QED BY <1>1 DEF RatioOnly

\* Every step keeps the closes without a slot to the ratio worker.
LEMMA NextRatioOnly ==
  ASSUME Typed, RatioOnly, [Next]_vars
  PROVE  RatioOnly'
<1>0. TypeOK
  BY DEF Typed
<1>1. ASSUME NEW r \in Request, Arrive(r)
      PROVE  RatioOnly'
  BY <1>0, <1>1 DEF Arrive, TypeOK, RatioOnly
<1>2. ASSUME NEW r \in Request, Reclaim(r)
      PROVE  RatioOnly'
  BY <1>0, <1>2, StepRatioOnly
     DEF Reclaim, ReclaimSkip, ReclaimStart, ReclaimDrop, ReclaimRelease
<1>3. ASSUME NEW r \in Request, Route(r)
      PROVE  RatioOnly'
  <2>1. CASE SwitchProvider(r)
    <3>1. Ratio
      BY <2>1 DEF SwitchProvider, RatioOnly
    <3>2. Answer(r) \/ Goto(r, "discarding", Lookup(req[r].cookie))
      BY <2>1 DEF SwitchProvider
    <3> QED BY <1>0, <3>1, <3>2, StepRatioOnly, AnswerRatioOnly DEF Goto
  <2>2. CASE ~SwitchProvider(r)
    BY <1>0, <1>3, <2>2, StepRatioOnly, AnswerRatioOnly
       DEF Goto, Route, RouteSignOut, RouteRefuse, RouteAdmit, RouteCreate, RouteBeyondBound
  <2> QED BY <2>1, <2>2
<1>4. ASSUME NEW r \in Request, Mutate(r)
      PROVE  RatioOnly'
  <2>1. CASE FinishRemove(r)
    <3> DEFINE place == IF req[r].path = "logout" THEN "answered" ELSE "dropping"
    <3>1. Step(r, place, None, req[r].entry) /\ place # "discarding"
      BY <2>1 DEF FinishRemove, Goto
    <3> QED BY <1>0, <3>1, StepRatioOnly
  <2>2. CASE ~FinishRemove(r)
    BY <1>0, <1>4, <2>2, StepRatioOnly, AnswerRatioOnly
       DEF Goto, Mutate, FinishChallenge, FinishPrepare, FinishLogin, DropDone, AnswerRelease
  <2> QED BY <2>1, <2>2
<1>5. ASSUME NEW r \in Request, Reports(r)
      PROVE  RatioOnly'
  <2>1. CASE ReportsOk(r) \/ ReportsExpired(r) \/ ReportsFailed(r)
    BY <1>0, <2>1, PublishRatioOnly DEF ReportsOk, ReportsExpired, ReportsFailed
  <2>2. CASE ReportsRelease(r)
    BY <1>0, <2>2, StepRatioOnly, AnswerRatioOnly DEF ReportsRelease, Goto
  <2>3. CASE ReportsRefuse(r) \/ ReportsCached(r) \/ ReportsJoin(r) \/ ReportsLead(r)
             \/ DiscardDone(r) \/ WaiterResumes(r)
    BY <1>0, <2>3, StepRatioOnly, AnswerRatioOnly
       DEF Goto, ReportsRefuse, ReportsCached, ReportsJoin, ReportsLead, DiscardDone, WaiterResumes
  <2> QED BY <1>5, <2>1, <2>2, <2>3 DEF Reports
<1>6. ASSUME NEW r \in Request, WaiterGone(r)
      PROVE  RatioOnly'
  BY <1>0, <1>6, AnswerRatioOnly DEF WaiterGone
<1>7. ASSUME UNCHANGED req
      PROVE  RatioOnly'
  BY <1>7 DEF RatioOnly
<1>8. ASSUME NEW s \in Sid, Reaper(s) \/ Expire(s) \/ CacheAges(s)
      PROVE  RatioOnly'
  BY <1>7, <1>8 DEF Reaper, ReapDrop, ReapRelease, Expire, CacheAges
<1>9. CASE ReapTick \/ UNCHANGED vars
  BY <1>7, <1>9 DEF ReapTick, vars
<1> QED BY <1>1, <1>2, <1>3, <1>4, <1>5, <1>6, <1>8, <1>9 DEF Next, Handle

LeaseInv == Inv /\ RatioOnly

\* The invariant of the refinement holds in every state.
LEMMA LeaseInvariance == Spec => []LeaseInv
<1>1. Init => RatioOnly
  BY InitRatioOnly
<1>2. Inv /\ RatioOnly /\ [Next]_vars => RatioOnly'
  BY NextRatioOnly DEF Inv
<1> QED BY <1>1, <1>2, Invariance, PTL DEF Spec, LeaseInv

-------------------------------------------------------------------------------
(* Who keeps a context in use.                                              *)

Keeps(place) ==
  \/ place \in {"reclaiming", "calling", "dropping", "reporting", "discarding"}
  \/ Ratio /\ place = "expelled"
Keeper(r) == Keeps(req[r].at)

\* A context is in use when the reaper or a handler keeps it.
LEMMA InUseByKeepers ==
  \A s \in Sid :
    s \in InUse <=> reaping[s] = "closing" \/ \E r \in Request : Keeper(r) /\ req[r].entry = s
BY DEF InUse, Callers, Keeper, Keeps

\* A context in use has one keeper, and is live or past as he is owner or closer.
LEMMA KeeperAlone ==
  ASSUME Inv, NEW r \in Request, Keeper(r)
  PROVE  /\ req[r].entry \in Sid /\ reaping[req[r].entry] # "closing"
         /\ \A q \in Request : Keeper(q) /\ req[q].entry = req[r].entry => q = r
         /\ Owner(r) => Live(req[r].entry)
         /\ Closer(r) => ~Live(req[r].entry) /\ gen[req[r].entry] > 0
<1>1. \A q \in Request : Keeper(q) => Owner(q) \/ Closer(q)
  BY DEF Keeper, Keeps, Owner, Closer
<1> QED
  BY <1>1 DEF Inv, Typed, EntryNamed, Ownership, OwnersHold, ReaperHolds, ClosersPast, Owner, Closer,
              Keeper, Keeps

\* A live session that is not busy is in no use, nor is one never allocated.
LEMMA FreeWhenIdle ==
  ASSUME Inv, NEW s \in Sid, (Live(s) /\ ~busy[s]) \/ gen[s] = 0
  PROVE  s \notin InUse
<1>1. gen[s] = 0 => ~Live(s)
  BY DEF Inv, Ownership, TokensCurrent, Live, TokenOf
<1>2. reaping[s] # "closing"
  BY <1>1 DEF Inv, Ownership, ReaperHolds
<1>3. ASSUME NEW r \in Request, Keeper(r), req[r].entry = s
      PROVE  FALSE
  <2>1. Owner(r) \/ Closer(r)
    BY <1>3 DEF Keeper, Keeps, Owner, Closer
  <2> QED BY <1>1, <1>3, <2>1 DEF Inv, Ownership, OwnersHold, ClosersPast
<1> QED BY <1>2, <1>3, InUseByKeepers

\* What a step does to the keepers: nobody else begins or ends.
Settled(r) ==
  \A q \in Request : q # r =>
    (Keeper(q)' <=> Keeper(q)) /\ (Keeper(q) => req'[q].entry = req[q].entry)

\* A handler that moves leaves what the others keep alone.
LEMMA MovesSettled ==
  ASSUME NEW r \in Request, NEW place, NEW e, Moves(r, place, e)
  PROVE  Settled(r) /\ (Keeper(r)' <=> Keeps(place)) /\ req'[r].entry = e
BY DEF Moves, Settled, Keeper, Keeps

\* Waiters that wake up keep no context.
LEMMA PublishSettled ==
  ASSUME TypeOK, NEW r \in Request, NEW place \in {"published", "expelled"},
         Publish(r, place)
  PROVE  Settled(r) /\ (Keeper(r)' <=> Keeps(place)) /\ req'[r].entry = req[r].entry
<1>1. \A q \in Request : req'[q].entry = req[q].entry
  BY DEF Publish, TypeOK, Handler
<1>2. req'[r].at = place
  BY DEF Publish, TypeOK, Handler
<1>3. ASSUME NEW q \in Request, q # r
      PROVE  req'[q].at = req[q].at \/ (req'[q].at = "woken" /\ req[q].at = "waiting")
  BY <1>3 DEF Publish, TypeOK, Handler
<1> QED BY <1>1, <1>2, <1>3 DEF Settled, Keeper, Keeps

\* Who keeps what it kept changes no use.
LEMMA InUseSame ==
  ASSUME NEW r \in Request, Settled(r), Keeper(r)' <=> Keeper(r),
         Keeper(r) => req'[r].entry = req[r].entry,
         \A s \in Sid : reaping'[s] = "closing" <=> reaping[s] = "closing"
  PROVE  InUse' = InUse
<1>1. \A q \in Request : (Keeper(q)' <=> Keeper(q)) /\ (Keeper(q) => req'[q].entry = req[q].entry)
  BY DEF Settled
<1>2. \A s \in Sid : s \in InUse' <=> s \in InUse
  BY <1>1 DEF InUse, Callers, Keeper, Keeps
<1>3. InUse \subseteq Sid /\ InUse' \subseteq Sid
  BY DEF InUse
<1> QED BY <1>2, <1>3

\* A handler begins to keep a context.
LEMMA InUseMore ==
  ASSUME NEW r \in Request, NEW s \in Sid, Settled(r), ~Keeper(r), Keeper(r)', req'[r].entry = s,
         UNCHANGED reaping
  PROVE  InUse' = InUse \cup {s}
<1>1. \A t \in Sid : t \in InUse' <=> t \in InUse \/ t = s
  BY DEF InUse, Callers, Keeper, Keeps, Settled
<1>2. InUse \subseteq Sid /\ InUse' \subseteq Sid
  BY DEF InUse
<1> QED BY <1>1, <1>2

\* Who stops keeping a context was alone with it.
LEMMA InUseLess ==
  ASSUME Inv, NEW r \in Request, Settled(r), Keeper(r), ~Keeper(r)', UNCHANGED reaping
  PROVE  req[r].entry \in InUse /\ InUse' = InUse \ {req[r].entry}
<1> DEFINE s == req[r].entry
<1>1. /\ s \in Sid /\ reaping[s] # "closing"
      /\ \A q \in Request : Keeper(q) /\ req[q].entry = s => q = r
  BY KeeperAlone
<1>2. s \in InUse
  BY <1>1, InUseByKeepers
<1>3. \A t \in Sid : t \in InUse' <=> t \in InUse /\ t # s
  BY <1>1 DEF InUse, Callers, Keeper, Keeps, Settled
<1>4. InUse \subseteq Sid /\ InUse' \subseteq Sid
  BY DEF InUse
<1> QED BY <1>2, <1>3, <1>4

-------------------------------------------------------------------------------
(* The slots bound the contexts in use, or their number does.               *)

Capacity == IF Ratio THEN Cardinality(Sid) ELSE MaxConcurrent
Fits == Cardinality(InUse) <= Capacity

\* The contexts in use fit the slots.
LEMMA InvFits == LeaseInv => Fits
<1> SUFFICES ASSUME Inv, RatioOnly PROVE Fits
  BY DEF LeaseInv
<1> USE SetsAssumption
<1>1. CASE Ratio
  <2>1. InUse \in SUBSET Sid
    BY DEF InUse
  <2> QED BY <1>1, <2>1, FS_Subset DEF Fits, Capacity
<1>2. CASE ~Ratio
  <2> DEFINE A == {s \in Sid : \E r \in Request : Keeper(r) /\ req[r].entry = s}
             B == {s \in Sid : reaping[s] = "closing"}
             keeper == [s \in A |-> CHOOSE r \in Request : Keeper(r) /\ req[r].entry = s]
  <2>1. InUse = A \cup B
    BY InUseByKeepers DEF InUse
  <2>2. \A s \in A : keeper[s] \in Request /\ Keeper(keeper[s]) /\ req[keeper[s]].entry = s
    OBVIOUS
  <2>3. keeper = [s \in A |-> keeper[s]]
    OBVIOUS
  <2>4. \A r \in Request : Keeper(r) => r \in HoldingRequests
    BY <1>2 DEF RatioOnly, Keeper, Keeps, HoldingRequests, Holding
  <2> HIDE DEF keeper
  <2>5. keeper \in [A -> HoldingRequests] /\ \A s, t \in A : keeper[s] = keeper[t] => s = t
    BY <2>2, <2>3, <2>4
  <2>6. keeper \in Injection(A, HoldingRequests)
    BY <2>5 DEF Injection, IsInjective
  <2>7. IsFiniteSet(A) /\ Cardinality(A) <= Cardinality(HoldingRequests)
    BY <2>6, HoldersFinite, FS_Injection
  <2>8. B \in SUBSET HoldingReapers
    BY DEF HoldingReapers
  <2>9. IsFiniteSet(B) /\ Cardinality(B) <= Cardinality(HoldingReapers)
    BY <2>8, HoldersFinite, FS_Subset
  <2>10. IsFiniteSet(A \cap B)
    BY <2>7, FS_Intersection
  <2> HIDE DEF A, B
  <2>11. /\ Cardinality(A) \in Nat /\ Cardinality(B) \in Nat /\ Cardinality(A \cap B) \in Nat
         /\ Cardinality(A \cup B) = Cardinality(A) + Cardinality(B) - Cardinality(A \cap B)
    BY <2>7, <2>9, <2>10, FS_CardinalityType, FS_Union
  <2>12. Cardinality(HoldingRequests) + Cardinality(HoldingReapers) <= MaxConcurrent
    BY DEF Inv, SlotsCounted
  <2>13. Cardinality(A \cup B) <= MaxConcurrent
    BY <2>7, <2>9, <2>11, <2>12, HoldersFinite, BoundsAssumption
  <2> QED BY <1>2, <2>1, <2>13 DEF Fits, Capacity
<1> QED BY <1>1, <1>2

-------------------------------------------------------------------------------
(* The steps of the abstract specification.                                 *)

Dead == {s \in Sid : gen[s] > 0 /\ ~Live(s)}
LeaseStep == [Lease!Next]_<<InUse, Gone>>

\* Given up is what has left the map and is in no use.
LEMMA GoneDead == Gone = Dead \ InUse
BY DEF Gone, Dead

\* A map that stays keeps the same dead.
LEMMA DeadSame ==
  ASSUME UNCHANGED <<sessions, gen>>
  PROVE  Dead' = Dead
BY DEF Dead, Live, TokenOf

\* A removal adds the session removed to the dead.
LEMMA DeadMore ==
  ASSUME Inv, NEW s \in Sid, Live(s), sessions' = sessions \ {TokenOf(s)}, UNCHANGED gen
  PROVE  Dead' = Dead \cup {s}
<1>1. gen[s] > 0
  BY DEF Inv, Ownership, TokensCurrent, Live, TokenOf
<1> QED BY <1>1, LiveWhenRemoved DEF Dead

\* Nothing the worker would notice: at most the end of an entry whose context is
\* still in use.
LEMMA Stutters ==
  ASSUME InUse' = InUse,
         Dead' = Dead \/ \E s \in InUse : Dead' = Dead \cup {s}
  PROVE  LeaseStep
<1>1. Gone' = Gone
  BY DEF Gone, Dead
<1> QED BY <1>1 DEF LeaseStep

\* Contexts in no use and not given up are lent.
LEMMA Begins ==
  ASSUME Fits', NEW S \in SUBSET Sid, S # {}, S \cap InUse = {}, S \cap Dead = {},
         InUse' = InUse \cup S,
         Dead' = Dead \/ Dead' = Dead \cup S
  PROVE  LeaseStep
<1>1. Gone' = Gone /\ S \cap (InUse \cup Gone) = {}
  BY DEF Gone, Dead
<1>2. Cardinality(InUse \cup S) <= Capacity
  BY DEF Fits
<1>3. Lease!Cardinality(InUse \cup S) = Cardinality(InUse \cup S)
  BY DEF Lease!Cardinality, Cardinality
<1>4. Lease!Begin(S)
  BY <1>1, <1>2, <1>3 DEF Lease!Begin, Capacity
<1> QED BY <1>4 DEF LeaseStep, Lease!Next

\* A context in use is given back, or up.
LEMMA Ends ==
  ASSUME NEW s \in Sid, s \in InUse, InUse' = InUse \ {s},
         Dead' = Dead \/ Dead' = Dead \cup {s}
  PROVE  LeaseStep
<1>1. CASE s \in Dead'
  <2>1. Gone' = Gone \cup {s}
    BY <1>1 DEF Gone, Dead
  <2>2. Lease!GiveUp(s)
    BY <2>1 DEF Lease!GiveUp
  <2> QED BY <2>2 DEF LeaseStep, Lease!Next
<1>2. CASE s \notin Dead'
  <2>1. Gone' = Gone
    BY <1>2 DEF Gone, Dead
  <2>2. Lease!End(s)
    BY <2>1 DEF Lease!End
  <2> QED BY <2>2 DEF LeaseStep, Lease!Next
<1> QED BY <1>1, <1>2

-------------------------------------------------------------------------------
(* A handler's step, as the abstract specification sees it.                 *)

\* A handler that keeps what it kept changes nothing for the worker.
LEMMA StepStutters ==
  ASSUME Inv, NEW r \in Request, Settled(r), Keeper(r)' <=> Keeper(r),
         Keeper(r) => req'[r].entry = req[r].entry, UNCHANGED reaping,
         Dead' = Dead \/ (Keeper(r) /\ Dead' = Dead \cup {req[r].entry})
  PROVE  LeaseStep
<1>1. InUse' = InUse
  BY InUseSame
<1>2. Keeper(r) => req[r].entry \in InUse
  BY KeeperAlone, InUseByKeepers
<1> QED BY <1>1, <1>2, Stutters

\* A handler that marks a session lends its context.
LEMMA StepBegins ==
  ASSUME Inv, Fits', NEW r \in Request, NEW s \in Sid, Settled(r), ~Keeper(r), Keeper(r)',
         req'[r].entry = s, UNCHANGED reaping,
         (Live(s) /\ ~busy[s]) \/ gen[s] = 0,
         Dead' = Dead \/ Dead' = Dead \cup {s}
  PROVE  LeaseStep
<1>1. InUse' = InUse \cup {s}
  BY InUseMore
<1>2. s \notin InUse
  BY FreeWhenIdle
<1>3. s \notin Dead
  BY DEF Dead
<1>4. {s} \in SUBSET Sid /\ {s} # {} /\ {s} \cap InUse = {} /\ {s} \cap Dead = {}
  BY <1>2, <1>3
<1> QED BY <1>1, <1>4, Begins

\* A handler that is done gives its context back, or up.
LEMMA StepEnds ==
  ASSUME Inv, NEW r \in Request, Settled(r), Keeper(r), ~Keeper(r)', UNCHANGED reaping,
         Dead' = Dead \/ Dead' = Dead \cup {req[r].entry}
  PROVE  LeaseStep
<1>1. req[r].entry \in InUse /\ InUse' = InUse \ {req[r].entry}
  BY InUseLess
<1>2. req[r].entry \in Sid
  BY KeeperAlone
<1> QED BY <1>1, <1>2, Ends

\* Making room lends an expired session to its removal.
LEMMA LeaseReclaim ==
  ASSUME Inv, Fits', NEW r \in Request, Reclaim(r)
  PROVE  LeaseStep
<1>0. TypeOK
  BY DEF Inv, Typed
<1>1. CASE ReclaimSkip(r)
  <2>1. Moves(r, "route", None) /\ req[r].at = "reclaim" /\ UNCHANGED <<sessions, gen, reaping>>
    BY <1>0, <1>1, StepMoves DEF ReclaimSkip, entryVars
  <2> QED BY <2>1, MovesSettled, DeadSame, StepStutters DEF Keeper, Keeps
<1>2. ASSUME NEW s \in Sid, ReclaimStart(r, s)
      PROVE  LeaseStep
  <2>1. /\ Moves(r, "reclaiming", s) /\ req[r].at = "reclaim" /\ UNCHANGED <<sessions, gen, reaping>>
        /\ Live(s) /\ ~busy[s]
    BY <1>0, <1>2, StepMoves DEF ReclaimStart, Reclaimable, entryVars
  <2> QED BY <2>1, MovesSettled, DeadSame, StepBegins DEF Keeper, Keeps
<1>3. CASE ReclaimDrop(r)
  <2>1. /\ Moves(r, "reclaimed", None) /\ req[r].at = "reclaiming" /\ UNCHANGED <<gen, reaping>>
        /\ sessions' = sessions \ {TokenOf(req[r].entry)}
    BY <1>0, <1>3, StepMoves DEF ReclaimDrop, entryVars
  <2>2. Keeper(r) /\ Owner(r)
    BY <2>1 DEF Keeper, Keeps, Owner
  <2>3. Dead' = Dead \cup {req[r].entry}
    BY <2>1, <2>2, KeeperAlone, DeadMore
  <2> QED BY <2>1, <2>2, <2>3, MovesSettled, StepEnds DEF Keeps
<1>4. CASE ReclaimRelease(r)
  <2>1. Moves(r, "route", None) /\ req[r].at = "reclaimed" /\ UNCHANGED <<sessions, gen, reaping>>
    BY <1>0, <1>4, StepMoves DEF ReclaimRelease, entryVars
  <2> QED BY <2>1, MovesSettled, DeadSame, StepStutters DEF Keeper, Keeps
<1> QED BY <1>1, <1>2, <1>3, <1>4 DEF Reclaim

\* route lends, refuses, or gives an abandoned session up.
LEMMA LeaseRoute ==
  ASSUME Inv, RatioOnly, Fits', NEW r \in Request, Route(r)
  PROVE  LeaseStep
<1> DEFINE c == Lookup(req[r].cookie)
<1>0. TypeOK
  BY DEF Inv, Typed
<1>c. c # None => c \in Sid /\ Live(c)
  BY <1>0, LookupLive DEF Inv, Ownership
<1> HIDE DEF c
<1>1. CASE RouteSignOut(r) \/ RouteRefuse(r) \/ RouteBeyondBound(r)
  <2>1. Moves(r, "idle", None) /\ req[r].at = "route" /\ UNCHANGED <<sessions, gen, reaping>>
    BY <1>0, <1>1, AnswerMoves DEF RouteSignOut, RouteRefuse, RouteBeyondBound, entryVars
  <2> QED BY <2>1, MovesSettled, DeadSame, StepStutters DEF Keeper, Keeps
<1>2. CASE RouteAdmit(r)
  <2>1. /\ Moves(r, "calling", c) /\ req[r].at = "route" /\ UNCHANGED <<sessions, gen, reaping>>
        /\ c # None /\ ~busy[c]
    BY <1>0, <1>2, StepMoves DEF RouteAdmit, Refuses, IsBusy, Goto, entryVars, c
  <2> QED BY <1>c, <2>1, MovesSettled, DeadSame, StepBegins DEF Keeper, Keeps
<1>3. ASSUME NEW s \in Sid, RouteCreate(r, s)
      PROVE  LeaseStep
  <2>1. /\ Moves(r, "calling", s) /\ req[r].at = "route" /\ UNCHANGED reaping
        /\ gen[s] = 0 /\ gen' = [gen EXCEPT ![s] = 1] /\ sessions' = sessions \cup {<<s, 1>>}
    BY <1>0, <1>3, StepMoves DEF RouteCreate, Goto
  <2>2. gen'[s] = 1 /\ \A t \in Sid : t # s => gen'[t] = gen[t]
    BY <1>0, <2>1 DEF TypeOK
  <2>3. Dead' = Dead
    BY <2>1, <2>2 DEF Dead, Live, TokenOf
  <2> QED BY <2>1, <2>3, MovesSettled, StepBegins DEF Keeper, Keeps
<1>4. CASE SwitchProvider(r)
  <2>1. req[r].at = "route" /\ UNCHANGED <<gen, reaping>>
    BY <1>4 DEF SwitchProvider, entryVars
  <2>2. CASE c = None \/ IsBusy(c)
    <3>1. Moves(r, "idle", None) /\ sessions' = sessions
      BY <1>0, <1>4, <2>2, AnswerMoves DEF SwitchProvider, c
    <3> QED BY <2>1, <3>1, MovesSettled, DeadSame, StepStutters DEF Keeper, Keeps
  <2>3. CASE ~(c = None \/ IsBusy(c))
    <3>1. Moves(r, "discarding", c) /\ sessions' = sessions \ {TokenOf(c)}
      BY <1>0, <1>4, <2>3, StepMoves DEF SwitchProvider, Goto, c
    <3>2. c \in Sid /\ Live(c) /\ ~busy[c]
      BY <1>c, <2>3 DEF IsBusy
    <3>3. Dead' = Dead \cup {c}
      BY <2>1, <3>1, <3>2, DeadMore
    <3> QED BY <2>1, <3>1, <3>2, <3>3, MovesSettled, StepBegins DEF Keeper, Keeps
  <2> QED BY <2>2, <2>3
<1> QED BY <1>1, <1>2, <1>3, <1>4 DEF Route

\* mutate gives back, or gives up.
LEMMA LeaseMutate ==
  ASSUME Inv, NEW r \in Request, Mutate(r)
  PROVE  LeaseStep
<1> DEFINE s == req[r].entry
<1>0. TypeOK
  BY DEF Inv, Typed
<1>1. ASSUME req[r].at = "calling" PROVE Keeper(r) /\ s \in Sid /\ Live(s)
  <2>1. Keeper(r) /\ Owner(r)
    BY <1>1 DEF Keeper, Keeps, Owner
  <2> QED BY <2>1, KeeperAlone
<1>2. CASE FinishRemove(r)
  <2> DEFINE place == IF req[r].path = "logout" THEN "answered" ELSE "dropping"
  <2>1. /\ Moves(r, place, s) /\ req[r].at = "calling" /\ UNCHANGED <<gen, reaping>>
        /\ sessions' = sessions \ {TokenOf(s)}
    BY <1>0, <1>2, StepMoves DEF FinishRemove, Goto, entryVars
  <2>2. Dead' = Dead \cup {s}
    BY <1>1, <2>1, DeadMore
  <2>3. Settled(r) /\ (Keeper(r)' <=> Keeps(place)) /\ req'[r].entry = s
    BY <2>1, MovesSettled
  <2>4. Keeps(place) \/ ~Keeps(place)
    OBVIOUS
  <2> HIDE DEF place
  <2> QED BY <1>1, <2>1, <2>2, <2>3, <2>4, StepEnds, StepStutters
<1>3. CASE FinishChallenge(r) \/ FinishPrepare(r)
  <2>1. Moves(r, "answered", s) /\ req[r].at = "calling" /\ UNCHANGED <<sessions, gen, reaping>>
    BY <1>0, <1>3, StepMoves DEF FinishChallenge, FinishPrepare, Goto, entryVars
  <2> QED BY <1>1, <2>1, MovesSettled, DeadSame, StepEnds DEF Keeps
<1>4. ASSUME NEW a \in Account, FinishLogin(r, a)
      PROVE  LeaseStep
  <2>1. Moves(r, "answered", s) /\ req[r].at = "calling" /\ UNCHANGED reaping /\ Rotate(s)
    BY <1>0, <1>4, StepMoves DEF FinishLogin, Goto
  <2>2. /\ gen[s] \in Nat /\ gen'[s] = gen[s] + 1
        /\ \A t \in Sid : t # s => gen'[t] = gen[t]
    BY <1>0, <1>1, <2>1 DEF TypeOK, Rotate
  <2>3. Dead' = Dead
    BY <1>1, <2>1, <2>2 DEF Dead, Live, TokenOf, Rotate
  <2> QED BY <1>1, <2>1, <2>3, MovesSettled, StepEnds DEF Keeps
<1>5. CASE DropDone(r)
  <2>1. Moves(r, "answered", None) /\ req[r].at = "dropping" /\ UNCHANGED <<sessions, gen, reaping>>
    BY <1>0, <1>5, StepMoves DEF DropDone, Goto, entryVars
  <2> QED BY <2>1, MovesSettled, DeadSame, StepEnds DEF Keeper, Keeps
<1>6. CASE AnswerRelease(r)
  <2>1. Moves(r, "idle", None) /\ req[r].at = "answered" /\ UNCHANGED <<sessions, gen, reaping>>
    BY <1>0, <1>6, AnswerMoves DEF AnswerRelease, entryVars
  <2> QED BY <2>1, MovesSettled, DeadSame, StepStutters DEF Keeper, Keeps
<1> QED BY <1>2, <1>3, <1>4, <1>5, <1>6 DEF Mutate

\* reports lends, gives back, or gives up.
LEMMA LeaseReports ==
  ASSUME Inv, Fits', NEW r \in Request, Reports(r)
  PROVE  LeaseStep
<1> DEFINE c == Lookup(req[r].cookie)
<1>0. TypeOK
  BY DEF Inv, Typed
<1>c. c # None => c \in Sid /\ Live(c)
  BY <1>0, LookupLive DEF Inv, Ownership
<1> HIDE DEF c
<1>1. CASE ReportsRefuse(r) \/ ReportsCached(r) \/ WaiterResumes(r)
  <2>1. /\ Moves(r, "idle", None) /\ req[r].at \in {"route", "woken"}
        /\ UNCHANGED <<sessions, gen, reaping>>
    BY <1>0, <1>1, AnswerMoves DEF ReportsRefuse, ReportsCached, WaiterResumes, entryVars
  <2> QED BY <2>1, MovesSettled, DeadSame, StepStutters DEF Keeper, Keeps
<1>2. CASE ReportsJoin(r)
  <2>1. Moves(r, "waiting", c) /\ req[r].at = "route" /\ UNCHANGED <<sessions, gen, reaping>>
    BY <1>0, <1>2, StepMoves DEF ReportsJoin, Goto, entryVars, c
  <2> QED BY <2>1, MovesSettled, DeadSame, StepStutters DEF Keeper, Keeps
<1>3. CASE ReportsLead(r)
  <2>1. /\ Moves(r, "reporting", c) /\ req[r].at = "route" /\ UNCHANGED <<sessions, gen, reaping>>
        /\ c # None /\ ~busy[c]
    BY <1>0, <1>3, StepMoves DEF ReportsLead, SignedIn, Goto, entryVars, c
  <2> QED BY <1>c, <2>1, MovesSettled, DeadSame, StepBegins DEF Keeper, Keeps
<1>4. CASE ReportsOk(r) \/ ReportsFailed(r)
  <2>1. Publish(r, "published") /\ req[r].at = "reporting" /\ UNCHANGED <<sessions, gen, reaping>>
    BY <1>4 DEF ReportsOk, ReportsFailed, entryVars
  <2> QED BY <1>0, <2>1, PublishSettled, DeadSame, StepEnds DEF Keeper, Keeps
<1>5. CASE ReportsExpired(r)
  <2>1. /\ Publish(r, "expelled") /\ req[r].at = "reporting" /\ UNCHANGED <<gen, reaping>>
        /\ sessions' = sessions \ {TokenOf(req[r].entry)}
    BY <1>5 DEF ReportsExpired, entryVars
  <2>2. Keeper(r) /\ Owner(r)
    BY <2>1 DEF Keeper, Keeps, Owner
  <2>3. Dead' = Dead \cup {req[r].entry}
    BY <2>1, <2>2, KeeperAlone, DeadMore
  <2>4. Settled(r) /\ req'[r].entry = req[r].entry
    BY <1>0, <2>1, PublishSettled
  <2> QED BY <2>1, <2>2, <2>3, <2>4, StepEnds, StepStutters
<1>6. CASE ReportsRelease(r)
  <2>1. req[r].at \in {"published", "expelled"} /\ UNCHANGED <<sessions, gen, reaping>>
    BY <1>6 DEF ReportsRelease, entryVars
  <2>2. CASE Ratio /\ req[r].at = "expelled"
    <3>1. Moves(r, "discarding", req[r].entry)
      BY <1>0, <1>6, <2>2, StepMoves DEF ReportsRelease, Goto
    <3> QED BY <2>1, <2>2, <3>1, MovesSettled, DeadSame, StepStutters DEF Keeper, Keeps
  <2>3. CASE ~(Ratio /\ req[r].at = "expelled")
    <3>1. Moves(r, "idle", None)
      BY <1>0, <1>6, <2>3, AnswerMoves DEF ReportsRelease
    <3> QED BY <2>1, <2>3, <3>1, MovesSettled, DeadSame, StepStutters DEF Keeper, Keeps
  <2> QED BY <2>2, <2>3
<1>7. CASE DiscardDone(r)
  <2>1. Moves(r, "idle", None) /\ req[r].at = "discarding" /\ UNCHANGED <<sessions, gen, reaping>>
    BY <1>0, <1>7, AnswerMoves DEF DiscardDone, entryVars
  <2> QED BY <2>1, MovesSettled, DeadSame, StepEnds DEF Keeper, Keeps
<1> QED BY <1>1, <1>2, <1>3, <1>4, <1>5, <1>6, <1>7 DEF Reports

-------------------------------------------------------------------------------
(* The reaper's steps, and the theorem.                                     *)

\* A reaper goroutine gives the session up.
LEMMA LeaseReaper ==
  ASSUME Inv, NEW s \in Sid, Reaper(s)
  PROVE  LeaseStep
<1>0. TypeOK
  BY DEF Inv, Typed
<1>1. CASE ReapDrop(s)
  <2>1. /\ reaping[s] = "closing" /\ UNCHANGED <<req, gen>>
        /\ sessions' = sessions \ {TokenOf(s)}
        /\ \A t \in Sid : reaping'[t] = "closing" <=> reaping[t] = "closing" /\ t # s
    BY <1>0, <1>1 DEF ReapDrop, entryVars, TypeOK
  <2>2. Live(s) /\ \A r \in Request : Keeper(r) => req[r].entry # s
    <3>1. Live(s)
      BY <2>1 DEF Inv, Ownership, ReaperHolds
    <3> QED BY <2>1, <3>1, KeeperAlone
  <2>3. \A t \in Sid : t \in InUse' <=> t \in InUse /\ t # s
    BY <2>1, <2>2 DEF InUse, Callers, Keeper, Keeps
  <2>4. s \in InUse /\ InUse' = InUse \ {s}
    BY <2>1, <2>3 DEF InUse
  <2>5. Dead' = Dead \cup {s}
    BY <2>1, <2>2, DeadMore
  <2> QED BY <2>4, <2>5, Ends
<1>2. CASE ReapRelease(s)
  <2>1. /\ UNCHANGED <<req, sessions, gen>>
        /\ \A t \in Sid : reaping'[t] = "closing" <=> reaping[t] = "closing"
    BY <1>0, <1>2 DEF ReapRelease, entryVars, TypeOK
  <2>2. InUse' = InUse
    BY <2>1 DEF InUse, Callers
  <2> QED BY <2>1, <2>2, DeadSame, Stutters
<1> QED BY <1>1, <1>2 DEF Reaper

\* The ticker lends all the sessions it will close at once.
LEMMA LeaseTick ==
  ASSUME Inv, Fits', ReapTick
  PROVE  LeaseStep
<1>1. PICK due \in SUBSET {s \in Sid : Reclaimable(s)} :
        /\ due # {}
        /\ reaping' = [s \in Sid |-> IF s \in due THEN "closing" ELSE reaping[s]]
        /\ UNCHANGED <<req, sessions, gen>>
  BY DEF ReapTick, entryVars
<1>2. \A s \in due : s \in Sid /\ Live(s) /\ ~busy[s]
  BY DEF Reclaimable
<1>3. \A t \in Sid : t \in InUse' <=> t \in InUse \/ t \in due
  BY <1>1 DEF InUse, Callers
<1>4. InUse' = InUse \cup due
  BY <1>2, <1>3 DEF InUse
<1>5. due \cap InUse = {} /\ due \cap Dead = {}
  BY <1>2, FreeWhenIdle DEF Dead
<1> QED BY <1>1, <1>2, <1>4, <1>5, DeadSame, Begins

\* Every step is one of WorkerLease or changes nothing there.
LEMMA NextLeases ==
  ASSUME LeaseInv, Fits', [Next]_vars
  PROVE  LeaseStep
<1>0. Inv /\ RatioOnly /\ TypeOK
  BY DEF LeaseInv, Inv, Typed
<1>1. ASSUME NEW r \in Request, Arrive(r)
      PROVE  LeaseStep
  <2>1. PICK place \in {"reclaim", "route"} : Moves(r, place, None)
    BY <1>0, <1>1 DEF Arrive, Moves, TypeOK
  <2>2. req[r].at = "idle" /\ UNCHANGED <<sessions, gen, reaping>>
    BY <1>1 DEF Arrive, entryVars
  <2> QED BY <1>0, <2>1, <2>2, MovesSettled, DeadSame, StepStutters DEF Keeper, Keeps
<1>2. ASSUME NEW r \in Request, Handle(r)
      PROVE  LeaseStep
  BY <1>0, <1>2, LeaseReclaim, LeaseRoute, LeaseMutate, LeaseReports DEF Handle
<1>3. ASSUME NEW r \in Request, WaiterGone(r)
      PROVE  LeaseStep
  <2>1. /\ Moves(r, "idle", None) /\ req[r].at \in {"waiting", "woken"}
        /\ UNCHANGED <<sessions, gen, reaping>>
    BY <1>0, <1>3, AnswerMoves DEF WaiterGone, entryVars
  <2> QED BY <1>0, <2>1, MovesSettled, DeadSame, StepStutters DEF Keeper, Keeps
<1>4. ASSUME NEW s \in Sid, Reaper(s)
      PROVE  LeaseStep
  BY <1>0, <1>4, LeaseReaper
<1>5. CASE ReapTick
  BY <1>0, <1>5, LeaseTick
<1>6. ASSUME UNCHANGED <<sessions, gen, req, reaping>>
      PROVE  LeaseStep
  <2>1. InUse' = InUse
    BY <1>6 DEF InUse, Callers
  <2> QED BY <1>6, <2>1, DeadSame, Stutters
<1>7. ASSUME NEW s \in Sid, Expire(s) \/ CacheAges(s)
      PROVE  LeaseStep
  BY <1>6, <1>7 DEF Expire, CacheAges
<1>8. CASE UNCHANGED vars
  BY <1>6, <1>8 DEF vars, entryVars
<1> QED BY <1>1, <1>2, <1>3, <1>4, <1>5, <1>7, <1>8 DEF Next

\* Nothing is lent at first.
LEMMA InitLeases == Init => Lease!Init
<1> SUFFICES ASSUME Init PROVE Lease!Init
  OBVIOUS
<1>1. InUse = {}
  BY DEF Init, Idle, InUse, Callers
<1>2. Gone = {}
  BY DEF Init, Gone
<1> QED BY <1>1, <1>2 DEF Lease!Init

\* routes.go, operations.go, Reap: whatever the requests do, the worker sees
\* contexts lent to one operation at a time, within its capacity, and none lent
\* again once it was given up.
THEOREM ContextsAreLent == Spec => LendsContexts
<1>1. Init => Lease!Init
  BY InitLeases
<1>2. LeaseInv /\ Fits' /\ [Next]_vars => [Lease!Next]_<<InUse, Gone>>
  BY NextLeases DEF LeaseStep
<1>3. LeaseInv => Fits
  BY InvFits
<1> QED
  BY <1>1, <1>2, <1>3, LeaseInvariance, PTL DEF Spec, LendsContexts, Lease!Spec, Lease!leaseVars

===============================================================================
