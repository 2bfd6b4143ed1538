------------------------------ MODULE NodeOcr ------------------------------
(***************************************************************************)
(* CAPTCHA recognition on the server: src/ocr-worker.js keeps one Python   *)
(* process (scripts/captcha-worker.py) for all sessions, starts it when it *)
(* is needed and stops it when it is idle, late or broken.                 *)
(***************************************************************************)
EXTENDS Naturals, FiniteSets

CONSTANTS
  Image,        \* recognitions asked for
  Capacity,     \* pending ones allowed (8)
  MaxChildren   \* bound: processes started

VARIABLES
  asked,        \* what became of each recognition
  waiting,      \* pending, each with its timer
  child,        \* the current process, 0 for none
  children,     \* processes started so far
  idle,         \* idleTimer is set
  work          \* <<process, image>>: requests processes are at work on

nodeVars == <<asked, waiting, child, children, idle, work>>

Init ==
  /\ asked = [i \in Image |-> "new"] /\ waiting = {}
  /\ child = 0 /\ children = 0 /\ idle = FALSE /\ work = {}

\* mutant: the pending table is not cleared
StopKeeping ==
  /\ child' = 0 /\ idle' = FALSE /\ UNCHANGED waiting
  /\ asked' = [i \in Image |-> IF i \in waiting THEN "failed" ELSE asked[i]]

(* stopWorker: every pending recognition fails with the process.           *)
Stop ==
  /\ child' = 0 /\ idle' = FALSE /\ waiting' = {}
  /\ asked' = [i \in Image |-> IF i \in waiting THEN "failed" ELSE asked[i]]

Recognise(i) ==
  /\ asked[i] = "new"
  /\ \/ /\ Cardinality(waiting) >= Capacity
        /\ asked' = [asked EXCEPT ![i] = "failed"]
        /\ UNCHANGED <<waiting, child, children, idle, work>>
     \/ /\ Cardinality(waiting) < Capacity
        /\ child = 0 => children < MaxChildren
        /\ asked' = [asked EXCEPT ![i] = "waiting"] /\ waiting' = waiting \cup {i}
        /\ idle' = FALSE
        /\ children' = IF child = 0 THEN children + 1 ELSE children
        /\ child' = IF child = 0 THEN children + 1 ELSE child
        /\ work' = work \cup {<<child', i>>}

(* A line of output.  Lines of a process given up are ignored; the last    *)
(* answer starts the idle timer; a line that is no JSON ends the process.  *)
Line(p, i) ==
  /\ <<p, i>> \in work /\ work' = work \ {<<p, i>>}
  /\ IF child # p
     THEN UNCHANGED <<asked, waiting, child, idle>>
     ELSE \/ /\ \E result \in {"answered", "failed"} : asked' = [asked EXCEPT ![i] = result]
             /\ waiting' = waiting \ {i} /\ idle' = (waiting' = {}) /\ UNCHANGED child
          \/ Stop
  /\ UNCHANGED children

\* mutant: the end of any process is taken for that of the current one
ExitOfAny(p) ==
  /\ \E i \in Image : <<p, i>> \in work \/ p = child
  /\ work' = {w \in work : w[1] # p}
  /\ Stop
  /\ UNCHANGED children

(* A process fails, now or after it has been replaced.                     *)
Exit(p) ==
  /\ \E i \in Image : <<p, i>> \in work \/ p = child
  /\ work' = {w \in work : w[1] # p}
  /\ IF child = p THEN Stop ELSE UNCHANGED <<asked, waiting, child, idle>>
  /\ UNCHANGED children

Late(i) == i \in waiting /\ Stop /\ UNCHANGED <<children, work>>
Idle == idle /\ Stop /\ UNCHANGED <<children, work>>

Next == \/ \E i \in Image : Recognise(i) \/ Late(i)
        \/ \E w \in work : Line(w[1], w[2])
        \/ \E p \in 1 .. MaxChildren : Exit(p)
        \/ Idle

Spec == Init /\ [][Next]_nodeVars /\ \A i \in Image : WF_nodeVars(Late(i))

TypeOK ==
  /\ asked \in [Image -> {"new", "waiting", "answered", "failed"}]
  /\ waiting \subseteq Image /\ child \in 0 .. MaxChildren /\ children \in 0 .. MaxChildren
  /\ work \subseteq (1 .. MaxChildren) \X Image

(* Whatever is pending is known to the current process and no more than    *)
(* the capacity is; a recognition that is not pending has its outcome; and *)
(* the idle timer never runs beside a recognition, which it would fail.    *)
PendingServed ==
  /\ waiting = {i \in Image : asked[i] = "waiting"}
  /\ waiting # {} => child # 0
  /\ \A i \in waiting : <<child, i>> \in work
  /\ Cardinality(waiting) <= Capacity
  /\ idle => waiting = {}

(* A process stopped for a late recognition goes on for a while, beside the*)
(* one that replaces it.  What it still prints, and its end, changes       *)
(* nothing for the recognitions of its successor, nor for its idle timer.  *)
SuccessorUndisturbed ==
  [][(\E w \in work \ work' : w[1] # child) => UNCHANGED <<asked, waiting, child, idle>>]_nodeVars

(* Every recognition ends, answered or failed, though processes hang.      *)
RecognitionsEnd == \A i \in Image : asked[i] # "new" ~> asked[i] \in {"answered", "failed"}

R == INSTANCE Recognition WITH Request <- Image, outcome <- asked
Recognises == R!Spec
=============================================================================
