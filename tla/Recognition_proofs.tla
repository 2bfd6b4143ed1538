------------------------- MODULE Recognition_proofs -------------------------
(***************************************************************************)
(* Safety of the browser's recogniser, for any number of calls and of      *)
(* initialisations, that it implements the abstract recogniser, and that   *)
(* both do in the system that runs the server's beside it.                 *)
(***************************************************************************)
EXTENDS MCRecognition, TLAPS

(* One initialisation is pending at a time, the last one requested; calls  *)
(* with a timer have been sent; a worker that has ended holds nothing.     *)
Sent ==
  /\ pending \cap InitIds \subseteq {inits}
  /\ \A s \in pending \cap Solve : calls[s] = "asked"
  /\ dead => boot = "none" /\ serving = {}

IInv == TypeOK /\ Backed /\ Sent

(* Nothing is requested at first.                                          *)
LEMMA InitIInv == Init => IInv
  BY IdsAssumption DEF Init, IInv, TypeOK, Backed, Sent

(* The end of the worker rejects everything that waited for it.            *)
LEMMA ShutdownIInv ==
  ASSUME IInv, NEW f \in [Solve -> {"new", "preloading", "loading", "asked"} \cup Ended],
         Shutdown(f), UNCHANGED inits
  PROVE  IInv'
<1>1. calls' \in [Solve -> {"new", "loading"} \cup Ended] /\ preload' \in {"none", "done"}
  BY DEF Shutdown, Ended, IInv, TypeOK
<1>2. TypeOK'
  BY <1>1 DEF Shutdown, Ended, IInv, TypeOK
<1> QED
  BY <1>1, <1>2 DEF Shutdown, Ended, IInv, Backed, Sent

(* A call shares an initialisation, requests one or is rejected.           *)
LEMMA CallIInv ==
  ASSUME IInv, NEW s \in Solve, Call(s)
  PROVE  IInv'
<1>1. CASE /\ preload # "none"
           /\ calls' = [calls EXCEPT ![s] = IF preload = "done" THEN "loading" ELSE "preloading"]
           /\ UNCHANGED <<preload, inits, pending, worker, dead, boot, serving, replies>>
  <2>1. calls[s] # "asked"
    BY DEF Call
  <2> QED
    BY <1>1, <2>1 DEF IInv, TypeOK, Backed, Sent, InitIds, Ended
<1>2. CASE /\ preload = "none" /\ dead
           /\ calls' = [calls EXCEPT ![s] = "failed"]
           /\ UNCHANGED <<preload, inits, pending, worker, dead, boot, serving, replies>>
  BY <1>2 DEF IInv, TypeOK, Backed, Sent, InitIds, Ended
<1>3. CASE /\ preload = "none" /\ ~dead /\ inits < MaxInits
           /\ preload' = "pending" /\ inits' = inits + 1
           /\ calls' = [calls EXCEPT ![s] = "preloading"]
           /\ worker' = TRUE /\ pending' = pending \cup {inits + 1} /\ serving' = serving \cup {inits + 1}
           /\ boot' = IF boot = "none" THEN "pending" ELSE boot
           /\ UNCHANGED <<dead, replies>>
  <2>1. inits' \in InitIds /\ inits' \notin Solve
    BY <1>3, IdsAssumption DEF IInv, TypeOK, InitIds
  <2>2. pending \cap InitIds = {} /\ s \notin pending
    BY <1>3 DEF Call, IInv, Backed, Sent
  <2>3. TypeOK'
    BY <1>3, <2>1 DEF IInv, TypeOK, InitIds
  <2>4. Backed'
    BY <1>3, <2>1 DEF IInv, TypeOK, Backed
  <2>5. Sent'
    BY <1>3, <2>1, <2>2 DEF IInv, TypeOK, Sent
  <2> QED
    BY <2>3, <2>4, <2>5 DEF IInv
<1>4. CASE Shutdown([calls EXCEPT ![s] = "preloading"]) /\ UNCHANGED inits
  <2>1. [calls EXCEPT ![s] = "preloading"] \in [Solve -> {"new", "preloading", "loading", "asked"} \cup Ended]
    BY DEF IInv, TypeOK
  <2> QED
    BY <1>4, <2>1, ShutdownIInv
<1> QED
  BY <1>1, <1>2, <1>3, <1>4 DEF Call

(* An image is sent to a worker that runs, or given up.                    *)
LEMMA ImageIInv ==
  ASSUME IInv, NEW s \in Solve, ImageLoaded(s)
  PROVE  IInv'
<1>1. s \notin InitIds /\ s \notin pending
  BY IdsAssumption DEF InitIds, ImageLoaded, IInv, Sent
<1>2. TypeOK'
  BY DEF ImageLoaded, IInv, TypeOK, Ended
<1>3. Backed'
  BY <1>1 DEF ImageLoaded, IInv, TypeOK, Backed, Ended
<1>4. Sent'
  BY <1>1 DEF ImageLoaded, IInv, TypeOK, Backed, Sent, Ended
<1> QED
  BY <1>2, <1>3, <1>4 DEF IInv

(* A request that settles is pending no more, nor is anybody who waited.   *)
LEMMA SettleIInv ==
  ASSUME IInv, NEW id \in pending, NEW ok \in BOOLEAN, Settle(id, ok), replies' \subseteq replies,
         UNCHANGED <<inits, worker, dead, boot, serving>>
  PROVE  IInv'
<1>1. TypeOK'
  BY DEF Settle, Move, IInv, TypeOK, Ended
<1>2. CASE id \in Solve
  <2>1. id \notin InitIds
    BY <1>2, IdsAssumption DEF InitIds
  <2> QED
    BY <1>1, <1>2, <2>1 DEF Settle, IInv, TypeOK, Backed, Sent, Ended
<1>3. CASE id \notin Solve
  <2>1. id = inits /\ pending' \cap InitIds = {}
    BY <1>3 DEF Settle, IInv, TypeOK, Sent
  <2>2. preload' # "pending" /\ \A s \in Solve : calls'[s] # "preloading"
    BY <1>3 DEF Settle, Move, IInv, TypeOK
  <2>3. \A s \in pending' \cap Solve : calls'[s] = "asked"
    BY <1>3 DEF Settle, Move, IInv, Sent
  <2> QED
    BY <1>1, <1>3, <2>1, <2>2, <2>3 DEF Settle, IInv, Backed, Sent
<1> QED
  BY <1>2, <1>3

(* An answer settles its request, if the request is still pending.         *)
LEMMA DeliverIInv ==
  ASSUME IInv, NEW id, NEW ok, Deliver(id, ok)
  PROVE  IInv'
<1>1. ok \in BOOLEAN
  BY DEF Deliver, IInv, TypeOK
<1>2. CASE id \in pending
  BY <1>1, <1>2, SettleIInv DEF Deliver
<1>3. CASE id \notin pending
  BY <1>3 DEF Deliver, IInv, TypeOK, Backed, Sent
<1> QED
  BY <1>2, <1>3

(* So does a timer, which for an initialisation ends the worker.           *)
LEMMA TimeoutIInv ==
  ASSUME IInv, NEW id, Timeout(id)
  PROVE  IInv'
<1>1. CASE id \in Solve
  BY <1>1, SettleIInv DEF Timeout
<1>2. CASE id \notin Solve
  BY <1>2, ShutdownIInv DEF Timeout, IInv, TypeOK
<1> QED
  BY <1>1, <1>2

(* The worker's own steps concern its boot and its answers only.           *)
LEMMA WorkerIInv ==
  ASSUME IInv, Booted \/ \E id \in serving : Infer(id)
  PROVE  IInv'
<1>1. CASE Booted
  <2>1. ~dead
    BY <1>1 DEF Booted, IInv, Sent
  <2>2. \A ids \in SUBSET (Solve \cup InitIds), ok \in BOOLEAN :
          {<<id, ok>> : id \in ids} \subseteq (Solve \cup InitIds) \X BOOLEAN
    OBVIOUS
  <2>3. serving \in SUBSET (Solve \cup InitIds) /\ serving \cap InitIds \in SUBSET (Solve \cup InitIds)
    BY DEF IInv, TypeOK
  <2>4. TypeOK'
    BY <1>1, <2>2, <2>3 DEF Booted, IInv, TypeOK
  <2> QED
    BY <1>1, <2>1, <2>4 DEF Booted, IInv, Backed, Sent
<1>2. ASSUME NEW id \in serving, Infer(id) PROVE IInv'
  <2>1. ~dead
    BY <1>2 DEF Infer, IInv, Sent
  <2> QED
    BY <1>2, <2>1 DEF Infer, IInv, TypeOK, Backed, Sent
<1> QED
  BY <1>1, <1>2

(* The invariant is inductive.                                             *)
LEMMA StepIInv == IInv /\ [Next]_clientVars => IInv'
<1> SUFFICES ASSUME IInv, [Next]_clientVars PROVE IInv'
  OBVIOUS
<1>1. CASE \E s \in Solve : Call(s)
  BY <1>1, CallIInv
<1>2. CASE Page
  BY <1>2, ImageIInv, TimeoutIInv, DeliverIInv DEF Page
<1>3. CASE WorkerError
  BY <1>3, ShutdownIInv DEF WorkerError, IInv, TypeOK
<1>4. CASE Booted \/ \E id \in serving : Infer(id)
  BY <1>4, WorkerIInv
<1>5. CASE UNCHANGED clientVars
  BY <1>5 DEF clientVars, IInv, TypeOK, Backed, Sent
<1> QED
  BY <1>1, <1>2, <1>3, <1>4, <1>5 DEF Next

(* The invariant holds in every state.                                     *)
THEOREM Invariant == Spec => []IInv
  BY InitIInv, StepIInv, PTL DEF Spec

(* Every variable keeps its type, whenever the worker ends.                *)
THEOREM TypeCorrect == Spec => []TypeOK
<1>1. IInv => TypeOK
  BY DEF IInv
<1> QED
  BY <1>1, Invariant, PTL

(* Whoever waits for a shared promise has a request with a timer behind it.*)
THEOREM PromisesAreBacked == Spec => []Backed
<1>1. IInv => Backed
  BY DEF IInv
<1> QED
  BY <1>1, Invariant, PTL

----------------------------------------------------------------------------
(* The abstract recogniser                                                 *)

Waits == {"preloading", "loading", "asked"}

(* Calls that fail together are a failure of the abstract recogniser.      *)
LEMMA FailsTogether ==
  ASSUME IInv, NEW lost \in SUBSET {s \in Solve : calls[s] \in {"new"} \cup Waits},
         calls' = [s \in Solve |-> IF s \in lost THEN "failed" ELSE calls[s]]
  PROVE  R!Fail
<1>1. lost \in SUBSET {s \in Solve : outcome[s] \in {"new", "waiting"}}
  BY DEF outcome, Waits
<1>2. outcome' = [s \in Solve |-> IF s \in lost THEN "failed" ELSE outcome[s]]
  BY DEF outcome, Waits
<1> QED
  BY <1>1, <1>2 DEF R!Fail

(* One call that fails is one of them.                                     *)
LEMMA FailsAlone ==
  ASSUME IInv, NEW s \in Solve, calls[s] \in {"new"} \cup Waits, calls' = [calls EXCEPT ![s] = "failed"]
  PROVE  R!Fail
<1>1. {s} \in SUBSET {c \in Solve : calls[c] \in {"new"} \cup Waits}
  OBVIOUS
<1>2. calls' = [c \in Solve |-> IF c \in {s} THEN "failed" ELSE calls[c]]
  BY DEF IInv, TypeOK
<1> QED
  BY <1>1, <1>2, FailsTogether

(* The end of the worker fails whoever waited for it.                      *)
LEMMA ShutdownFails == IInv /\ Shutdown(calls) => R!Fail
<1> SUFFICES ASSUME IInv, Shutdown(calls) PROVE R!Fail
  OBVIOUS
<1> DEFINE lost == {s \in Solve : calls[s] \in {"preloading", "asked"}}
<1>1. lost \in SUBSET {s \in Solve : calls[s] \in {"new"} \cup Waits}
  BY DEF Waits
<1>2. calls' = [s \in Solve |-> IF s \in lost THEN "failed" ELSE calls[s]]
  BY DEF Shutdown
<1> QED
  BY <1>1, <1>2, FailsTogether

(* A call that goes on waiting is nothing to the abstract recogniser.      *)
LEMMA StillWaits ==
  ASSUME IInv,
         \A s \in Solve : calls'[s] = calls[s] \/ (calls[s] \in Waits /\ calls'[s] \in Waits)
  PROVE  UNCHANGED outcome
  BY DEF outcome, Waits

(* A call that begins is asked, or fails at once.                          *)
LEMMA CallRecognises ==
  ASSUME IInv, NEW s \in Solve, Call(s)
  PROVE  R!Ask \/ R!Fail
<1>1. CASE calls' = [calls EXCEPT ![s] = "failed"]
  BY <1>1, FailsAlone DEF Call
<1>2. ASSUME NEW to \in {"loading", "preloading"}, calls' = [calls EXCEPT ![s] = to] PROVE R!Ask
  <2>1. outcome[s] = "new" /\ outcome' = [outcome EXCEPT ![s] = "waiting"]
    BY <1>2 DEF Call, outcome, IInv, TypeOK
  <2> QED
    BY <2>1 DEF R!Ask
<1>3. CASE Shutdown([calls EXCEPT ![s] = "preloading"])
  <2> DEFINE lost == {s} \cup {c \in Solve : calls[c] \in {"preloading", "asked"}}
  <2>1. lost \in SUBSET {c \in Solve : calls[c] \in {"new"} \cup Waits}
    BY DEF Call, Waits
  <2>2. calls' = [c \in Solve |-> IF c \in lost THEN "failed" ELSE calls[c]]
    BY <1>3 DEF Shutdown, IInv, TypeOK
  <2> QED
    BY <2>1, <2>2, FailsTogether
<1> QED
  BY <1>1, <1>2, <1>3 DEF Call

(* A request that settles answers its call, or fails it, or lets the calls *)
(* that waited for an initialisation go on.                                *)
LEMMA SettleRecognises ==
  ASSUME IInv, NEW id \in pending, NEW ok \in BOOLEAN, Settle(id, ok)
  PROVE  R!Answer \/ R!Fail \/ UNCHANGED outcome
<1>1. CASE id \in Solve /\ ok
  <2>1. calls[id] = "asked" /\ calls' = [calls EXCEPT ![id] = "answered"]
    BY <1>1 DEF Settle, IInv, Sent
  <2>2. outcome[id] = "waiting" /\ outcome' = [outcome EXCEPT ![id] = "answered"]
    BY <1>1, <2>1 DEF outcome, IInv, TypeOK
  <2> QED
    BY <1>1, <2>2 DEF R!Answer
<1>2. CASE id \in Solve /\ ~ok
  <2>1. calls[id] = "asked" /\ calls' = [calls EXCEPT ![id] = "failed"]
    BY <1>2 DEF Settle, IInv, Sent
  <2> QED
    BY <1>2, <2>1, FailsAlone DEF Waits
<1>3. CASE id \notin Solve /\ ok
  <2>1. calls' = [s \in Solve |-> IF calls[s] = "preloading" THEN "loading" ELSE calls[s]]
    BY <1>3 DEF Settle, Move
  <2>2. \A s \in Solve : calls'[s] = calls[s] \/ (calls[s] \in Waits /\ calls'[s] \in Waits)
    BY <2>1 DEF Waits
  <2> QED
    BY <2>2, StillWaits
<1>4. CASE id \notin Solve /\ ~ok
  <2> DEFINE lost == {s \in Solve : calls[s] = "preloading"}
  <2>1. lost \in SUBSET {s \in Solve : calls[s] \in {"new"} \cup Waits}
    BY DEF Waits
  <2>2. calls' = [s \in Solve |-> IF s \in lost THEN "failed" ELSE calls[s]]
    BY <1>4 DEF Settle, Move
  <2> QED
    BY <2>1, <2>2, FailsTogether
<1> QED
  BY <1>1, <1>2, <1>3, <1>4

(* A step of the page is a step of the abstract recogniser, or none.       *)
LEMMA StepRecognises == IInv /\ [Next]_clientVars => [R!Ask \/ R!Answer \/ R!Fail]_outcome
<1> DEFINE Goal == [R!Ask \/ R!Answer \/ R!Fail]_outcome
<1> SUFFICES ASSUME IInv, [Next]_clientVars PROVE Goal
  OBVIOUS
<1>1. ASSUME NEW s \in Solve, Call(s) PROVE Goal
  BY <1>1, CallRecognises
<1>2. ASSUME NEW s \in Solve, ImageLoaded(s) PROVE Goal
  <2>1. CASE calls' = [calls EXCEPT ![s] = "asked"]
    <3>1. \A c \in Solve : calls'[c] = calls[c] \/ (calls[c] \in Waits /\ calls'[c] \in Waits)
      BY <1>2, <2>1 DEF ImageLoaded, Waits, IInv, TypeOK
    <3> QED
      BY <3>1, StillWaits
  <2>2. CASE calls' = [calls EXCEPT ![s] = "failed"]
    BY <1>2, <2>2, FailsAlone DEF ImageLoaded, Waits
  <2> QED
    BY <1>2, <2>1, <2>2 DEF ImageLoaded
<1>3. ASSUME UNCHANGED calls PROVE Goal
  BY <1>3 DEF outcome
<1>4. ASSUME NEW id \in pending, Timeout(id) PROVE Goal
  BY <1>4, SettleRecognises, ShutdownFails DEF Timeout
<1>5. ASSUME NEW reply \in replies, Deliver(reply[1], reply[2]) PROVE Goal
  <2>1. reply[2] \in BOOLEAN
    BY DEF IInv, TypeOK
  <2> QED
    BY <1>3, <1>5, <2>1, SettleRecognises DEF Deliver
<1>6. CASE WorkerError
  BY <1>6, ShutdownFails DEF WorkerError
<1>7. CASE Booted \/ (\E id \in serving : Infer(id)) \/ UNCHANGED clientVars
  BY <1>3, <1>7 DEF Booted, Infer, clientVars
<1> QED
  BY <1>1, <1>2, <1>4, <1>5, <1>6, <1>7 DEF Next, Page

(* The page's recogniser implements the abstract one.                      *)
THEOREM PageRecognises == Spec => Recognises
<1>1. Init => R!Init
  BY DEF Init, R!Init, outcome
<1> QED
  BY <1>1, StepRecognises, Invariant, PTL DEF Spec, Recognises, R!Spec

----------------------------------------------------------------------------
(* Side by side with the server's recogniser                               *)

S == INSTANCE NodeOcr_proofs
Bounds == S!Bounds

(* The server the system runs is the one NodeOcr_proofs speaks of.         *)
LEMMA SameServer ==
  /\ N!Init <=> S!Init
  /\ [N!Next]_serverVars <=> [S!Next]_S!nodeVars
  /\ N!PendingServed <=> S!PendingServed
<1>1. N!Init <=> S!Init
  BY DEF N!Init, S!Init
<1>2. [N!Next]_serverVars <=> [S!Next]_S!nodeVars
  <2>1. \A i \in Image : N!Recognise(i) <=> S!Recognise(i)
    BY DEF N!Recognise, S!Recognise, N!Cardinality, S!Cardinality
  <2>2. N!Stop <=> S!Stop
    BY DEF N!Stop, S!Stop
  <2>3. \A p, i : N!Line(p, i) <=> S!Line(p, i)
    BY <2>2 DEF N!Line, S!Line
  <2>4. \A p : N!Exit(p) <=> S!Exit(p)
    BY <2>2 DEF N!Exit, S!Exit
  <2>5. (\A i : N!Late(i) <=> S!Late(i)) /\ (N!Idle <=> S!Idle)
    BY <2>2 DEF N!Late, S!Late, N!Idle, S!Idle
  <2> QED
    BY <2>1, <2>3, <2>4, <2>5 DEF N!Next, S!Next, serverVars, S!nodeVars
<1>3. N!PendingServed <=> S!PendingServed
  BY DEF N!PendingServed, S!PendingServed, N!Cardinality, S!Cardinality
<1> QED
  BY <1>1, <1>2, <1>3

(* A step of the system is one of either recogniser, or of neither.        *)
LEMMA StepParts == [Both]_<<clientVars, serverVars>> => [Next]_clientVars /\ [S!Next]_S!nodeVars
  BY SameServer DEF Both, serverVars, clientVars

(* Both invariants hold in every state of the system.                      *)
THEOREM BothInvariant == ASSUME Bounds PROVE MCSpec => [](IInv /\ S!IInv)
<1>1. MCInit => IInv /\ S!IInv
  BY InitIInv, SameServer, S!InitIInv DEF MCInit, Bounds
<1>2. IInv /\ S!IInv /\ [Both]_<<clientVars, serverVars>> => (IInv /\ S!IInv)'
  BY StepIInv, StepParts, S!StepIInv DEF Bounds
<1> QED
  BY <1>1, <1>2, PTL DEF MCSpec

(* In the system of both, whoever waits for a shared promise of the page   *)
(* has somebody at work behind it, whatever the server does meanwhile.     *)
THEOREM PromisesAreBackedBeside == ASSUME Bounds PROVE MCSpec => []Backed
<1>1. IInv => Backed
  BY DEF IInv
<1> QED
  BY <1>1, BothInvariant, PTL

(* In the system of both, whatever the server has pending is known to its  *)
(* process and within its capacity, whatever the page does meanwhile.      *)
THEOREM ServedBeside == ASSUME Bounds PROVE MCSpec => []PendingServed
<1>1. S!IInv => PendingServed
  BY SameServer DEF S!IInv, PendingServed
<1> QED
  BY <1>1, BothInvariant, PTL

(* In the system of both, a process that was given up changes nothing for  *)
(* the one that replaced it.                                               *)
THEOREM UndisturbedBeside == ASSUME Bounds PROVE MCSpec => SuccessorUndisturbed
<1>1. S!IInv /\ [Both]_<<clientVars, serverVars>>
        => [(\E w \in work \ work' : w[1] # child)
              => UNCHANGED <<asked, waiting, child, idle>>]_<<asked, waiting, child, children, idle, work>>
  <2> SUFFICES ASSUME S!IInv, [Both]_<<clientVars, serverVars>>, NEW w \in work \ work', w[1] # child
               PROVE  UNCHANGED <<asked, waiting, child, idle>>
    OBVIOUS
  <2>1. S!TypeOK /\ [S!Next]_S!nodeVars
    BY StepParts DEF S!IInv
  <2> QED
    BY <2>1, S!StepUndisturbed
<1> QED
  BY <1>1, BothInvariant, PTL DEF MCSpec, SuccessorUndisturbed, N!SuccessorUndisturbed, N!nodeVars

(* In the system of both, the page's calls and the server's recognitions   *)
(* each implement the abstract recogniser: settled once at most, and       *)
(* answered only when asked.                                               *)
THEOREM SystemRecognises == ASSUME Bounds PROVE MCSpec => BothRecognise
<1>1. MCInit => R!Init /\ N!R!Init
  BY DEF MCInit, Init, R!Init, outcome, N!Init, N!R!Init
<1>2. IInv /\ [Both]_<<clientVars, serverVars>> => [R!Ask \/ R!Answer \/ R!Fail]_outcome
  BY StepRecognises, StepParts
<1>3. S!IInv /\ [Both]_<<clientVars, serverVars>> => [N!R!Ask \/ N!R!Answer \/ N!R!Fail]_asked
  BY S!StepRecognises, StepParts
  DEF Bounds, S!R!Ask, S!R!Answer, S!R!Fail, N!R!Ask, N!R!Answer, N!R!Fail
<1> QED
  BY <1>1, <1>2, <1>3, BothInvariant, PTL
  DEF MCSpec, BothRecognise, Recognises, R!Spec, N!Recognises, N!R!Spec
=============================================================================
