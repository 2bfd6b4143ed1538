----------------------------- MODULE ClientOcr -----------------------------
(***************************************************************************)
(* CAPTCHA recognition in the browser: client-ocr.js on the page and the   *)
(* web worker ocr-worker.js it talks to.  An action is one callback of     *)
(* either side; messages between them are delivered one by one.            *)
(***************************************************************************)
EXTENDS Naturals, FiniteSets

CONSTANTS
  Solve,        \* calls of solve()
  MaxInits      \* bound: initialisations requested

(* Calls and initialisations have ids of their own.                        *)
ASSUME IdsAssumption == MaxInits \in Nat /\ Solve \cap (1 .. MaxInits) = {}

VARIABLES
  calls,        \* what became of each call of solve()
  preload,      \* preloadPromise: none, pending or done
  inits,        \* initialisations requested so far; the id of the last one
  pending,      \* ids in state.pending, each with its timer
  worker,       \* state.worker is set
  dead,         \* state.dead
  boot,         \* the worker's bootPromise: none, pending or done
  serving,      \* ids the worker has been sent and not answered
  replies       \* its answers under way

clientVars == <<calls, preload, inits, pending, worker, dead, boot, serving, replies>>

Init ==
  /\ calls = [s \in Solve |-> "new"]
  /\ preload = "none" /\ inits = 0 /\ pending = {}
  /\ worker = FALSE /\ dead = FALSE
  /\ boot = "none" /\ serving = {} /\ replies = {}

InitIds == 1 .. MaxInits
Ended == {"answered", "failed"}

(* Calls in state `from` go on to state `to`.                              *)
Move(from, to) == [s \in Solve |-> IF calls[s] = from THEN to ELSE calls[s]]

(* The end of the worker: all that is pending is rejected, and with it the *)
(* calls that wait for an initialisation.                                  *)
Shutdown(f) ==
  /\ dead' = TRUE /\ worker' = FALSE /\ pending' = {}
  /\ calls' = [s \in Solve |-> IF f[s] \in {"preloading", "asked"} THEN "failed" ELSE f[s]]
  /\ preload' = IF preload = "pending" THEN "none" ELSE preload
  /\ boot' = "none" /\ serving' = {} /\ replies' = {}

----------------------------------------------------------------------------
(* The page                                                                *)

(* solve() first calls preload(): a promise kept is shared, or an          *)
(* initialisation is requested of a worker spawned if there is none.       *)
Call(s) ==
  /\ calls[s] = "new"
  /\ \/ /\ preload # "none"
        /\ calls' = [calls EXCEPT ![s] = IF preload = "done" THEN "loading" ELSE "preloading"]
        /\ UNCHANGED <<preload, inits, pending, worker, dead, boot, serving, replies>>
     \/ /\ preload = "none" /\ dead
        /\ calls' = [calls EXCEPT ![s] = "failed"]
        /\ UNCHANGED <<preload, inits, pending, worker, dead, boot, serving, replies>>
     \/ /\ preload = "none" /\ ~dead /\ inits < MaxInits
        /\ preload' = "pending" /\ inits' = inits + 1
        /\ calls' = [calls EXCEPT ![s] = "preloading"]
        /\ worker' = TRUE /\ pending' = pending \cup {inits + 1} /\ serving' = serving \cup {inits + 1}
        /\ boot' = IF boot = "none" THEN "pending" ELSE boot
        /\ UNCHANGED <<dead, replies>>
     \/ /\ preload = "none" /\ ~dead /\ ~worker      \* no worker can be started
        /\ Shutdown([calls EXCEPT ![s] = "preloading"]) /\ UNCHANGED inits

(* The image has been decoded and is sent to the worker, if it still runs; *)
(* an image that cannot be decoded or sent rejects the call.               *)
ImageLoaded(s) ==
  /\ calls[s] = "loading"
  /\ \/ /\ worker
        /\ calls' = [calls EXCEPT ![s] = "asked"]
        /\ pending' = pending \cup {s} /\ serving' = serving \cup {s}
        /\ boot' = IF boot = "none" THEN "pending" ELSE boot
     \/ /\ calls' = [calls EXCEPT ![s] = "failed"]
        /\ UNCHANGED <<pending, serving, boot>>
  /\ UNCHANGED <<preload, inits, worker, dead, replies>>

\* mutant: a failed initialisation stays the one everybody shares
SettleKeeping(id, ok) ==
  /\ pending' = pending \ {id}
  /\ IF id \in Solve
     THEN /\ calls' = [calls EXCEPT ![id] = IF ok THEN "answered" ELSE "failed"]
          /\ UNCHANGED preload
     ELSE /\ preload' = IF ok THEN "done" ELSE preload
          /\ calls' = Move("preloading", IF ok THEN "loading" ELSE "failed")

(* settle, and what the promises of preload() and solve() do next.         *)
Settle(id, ok) ==
  /\ pending' = pending \ {id}
  /\ IF id \in Solve
     THEN /\ calls' = [calls EXCEPT ![id] = IF ok THEN "answered" ELSE "failed"]
          /\ UNCHANGED preload
     ELSE /\ preload' = IF ok THEN "done" ELSE "none"
          /\ calls' = Move("preloading", IF ok THEN "loading" ELSE "failed")

\* mutant: an answer counts, however late
DeliverLate(id, ok) ==
  /\ <<id, ok>> \in replies /\ replies' = replies \ {<<id, ok>>}
  /\ Settle(id, ok)
  /\ UNCHANGED <<inits, worker, dead, boot, serving>>

(* An answer to a request that is no longer pending is dropped.            *)
Deliver(id, ok) ==
  /\ <<id, ok>> \in replies /\ replies' = replies \ {<<id, ok>>}
  /\ IF id \in pending THEN Settle(id, ok) ELSE UNCHANGED <<pending, calls, preload>>
  /\ UNCHANGED <<inits, worker, dead, boot, serving>>

\* mutant: the timer forgets the request without rejecting it
TimeoutSilent(id) ==
  /\ id \in pending
  /\ IF id \in Solve
     THEN /\ pending' = pending \ {id}
          /\ UNCHANGED <<calls, preload, worker, dead, boot, serving, replies>>
     ELSE Shutdown(calls)
  /\ UNCHANGED inits

(* The timer of a request: one image is given up, an initialisation ends   *)
(* the worker.                                                             *)
Timeout(id) ==
  /\ id \in pending
  /\ IF id \in Solve
     THEN /\ Settle(id, FALSE) /\ UNCHANGED <<worker, dead, boot, serving, replies>>
     ELSE Shutdown(calls)
  /\ UNCHANGED inits

WorkerError == worker /\ Shutdown(calls) /\ UNCHANGED inits

----------------------------------------------------------------------------
(* The worker                                                              *)

(* initialize: those that wait for the boot share it; a failed one is      *)
(* forgotten, so that the next message tries again.                        *)
Booted ==
  /\ boot = "pending"
  /\ \/ /\ boot' = "done"
        /\ replies' = replies \cup {<<id, TRUE>> : id \in serving \cap InitIds}
        /\ serving' = serving \ InitIds
     \/ /\ boot' = "none"
        /\ replies' = replies \cup {<<id, FALSE>> : id \in serving} /\ serving' = {}
  /\ UNCHANGED <<calls, preload, inits, pending, worker, dead>>

(* Once booted, an initialisation is answered at once, and an inference    *)
(* ends with an answer or an error.                                        *)
Infer(id) ==
  /\ boot = "done" /\ id \in serving /\ serving' = serving \ {id}
  /\ \E ok \in BOOLEAN :
       /\ id \in InitIds => ok
       /\ replies' = replies \cup {<<id, ok>>}
  /\ UNCHANGED <<calls, preload, inits, pending, worker, dead, boot>>

----------------------------------------------------------------------------
Page == \/ \E s \in Solve : ImageLoaded(s)
        \/ \E id \in pending : Timeout(id)
        \/ \E reply \in replies : Deliver(reply[1], reply[2])
Next == \/ \E s \in Solve : Call(s)
        \/ Page \/ WorkerError \/ Booted
        \/ \E id \in serving : Infer(id)

(* Images load or fail and timers fire; the worker need do nothing.        *)
Fairness == \A s \in Solve : /\ WF_clientVars(ImageLoaded(s))
                             /\ WF_clientVars(Timeout(s))
InitTimers == \A id \in InitIds : WF_clientVars(Timeout(id))
Spec == Init /\ [][Next]_clientVars /\ Fairness /\ InitTimers

TypeOK ==
  /\ calls \in [Solve -> {"new", "preloading", "loading", "asked"} \cup Ended]
  /\ preload \in {"none", "pending", "done"} /\ boot \in {"none", "pending", "done"}
  /\ inits \in 0 .. MaxInits
  /\ pending \subseteq Solve \cup InitIds /\ serving \subseteq Solve \cup InitIds
  /\ replies \subseteq (Solve \cup InitIds) \X BOOLEAN

(* Whoever waits for a shared promise has somebody at work behind it: the  *)
(* page's preloadPromise a request with a timer, the worker's bootPromise  *)
(* a boot.  Otherwise every later sign-in would wait for nothing.  A worker*)
(* that has ended leaves no request behind it.                             *)
Backed ==
  /\ preload = "pending" <=> pending \cap InitIds # {}
  /\ (\E s \in Solve : calls[s] = "preloading") => preload = "pending"
  /\ serving # {} => boot # "none"
  /\ dead => ~worker /\ pending = {} /\ replies = {}

(* Every call of solve() ends, whatever the worker does.                   *)
SolvesEnd == \A s \in Solve : calls[s] # "new" ~> calls[s] \in Ended

(* The page's calls implement the recogniser.                              *)
outcome == [s \in Solve |-> IF calls[s] \in {"preloading", "loading", "asked"} THEN "waiting" ELSE calls[s]]
R == INSTANCE Recognition WITH Request <- Solve
Recognises == R!Spec
=============================================================================
