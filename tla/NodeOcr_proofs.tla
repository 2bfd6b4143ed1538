--------------------------- MODULE NodeOcr_proofs ---------------------------
(***************************************************************************)
(* Safety of the server's recogniser, for any number of recognitions and   *)
(* processes, and that it implements the abstract recogniser.              *)
(***************************************************************************)
EXTENDS NodeOcr, FiniteSetTheorems, TLAPS

(* The capacity and the bound on processes are numbers.                    *)
Bounds == Capacity \in Nat /\ MaxChildren \in Nat

(* Processes are numbered as they start, and what the current one is at    *)
(* work on is what is pending.                                             *)
Numbered ==
  /\ child <= children
  /\ \A p \in 1 .. MaxChildren, i \in Image : <<p, i>> \in work => p <= children
Current == child # 0 => \A i \in Image : <<child, i>> \in work => i \in waiting

IInv == TypeOK /\ PendingServed /\ IsFiniteSet(waiting) /\ Numbered /\ Current

(* Nothing is pending at first.                                            *)
LEMMA InitIInv == Bounds /\ Init => IInv
  BY FS_EmptySet
  DEF Bounds, Init, IInv, TypeOK, PendingServed, Numbered, Current

(* Stopping the process settles everything that is pending.                *)
LEMMA StopIInv ==
  ASSUME Bounds, IInv, Stop, UNCHANGED children, work' \subseteq work
  PROVE  IInv'
<1>1. TypeOK'
  BY DEF Bounds, IInv, TypeOK, Stop
<1>2. IsFiniteSet(waiting') /\ Cardinality(waiting') = 0
  BY FS_EmptySet DEF Stop
<1>3. waiting' = {i \in Image : asked'[i] = "waiting"}
  BY DEF IInv, TypeOK, PendingServed, Stop
<1>4. PendingServed'
  BY <1>2, <1>3 DEF Bounds, PendingServed, Stop
<1>5. Numbered' /\ Current'
  BY DEF Bounds, IInv, TypeOK, Numbered, Current, Stop
<1> QED
  BY <1>1, <1>2, <1>4, <1>5 DEF IInv

(* A recognition finds a process or starts one, unless too many wait.      *)
LEMMA RecogniseIInv ==
  ASSUME Bounds, IInv, NEW i \in Image, Recognise(i)
  PROVE  IInv'
<1>1. CASE Cardinality(waiting) >= Capacity /\ UNCHANGED <<waiting, child, children, idle, work>>
           /\ asked' = [asked EXCEPT ![i] = "failed"]
  <2>1. waiting' = {j \in Image : asked'[j] = "waiting"}
    BY <1>1 DEF Recognise, IInv, TypeOK, PendingServed
  <2> QED
    BY <1>1, <2>1 DEF IInv, TypeOK, PendingServed, Numbered, Current
<1>2. CASE /\ Cardinality(waiting) < Capacity /\ (child = 0 => children < MaxChildren)
           /\ asked' = [asked EXCEPT ![i] = "waiting"] /\ waiting' = waiting \cup {i}
           /\ idle' = FALSE
           /\ children' = IF child = 0 THEN children + 1 ELSE children
           /\ child' = IF child = 0 THEN children + 1 ELSE child
           /\ work' = work \cup {<<child', i>>}
  <2>1. child' \in 1 .. MaxChildren /\ children' \in 0 .. MaxChildren /\ child' <= children'
    BY <1>2 DEF Bounds, IInv, TypeOK, Numbered
  <2>2. TypeOK'
    BY <1>2, <2>1 DEF IInv, TypeOK
  <2>3. i \notin waiting
    BY DEF Recognise, IInv, PendingServed
  <2>4. IsFiniteSet(waiting') /\ Cardinality(waiting') = Cardinality(waiting) + 1
    BY <1>2, <2>3, FS_AddElement DEF IInv
  <2>5. Cardinality(waiting) \in Nat
    BY FS_CardinalityType DEF IInv
  <2>6. Cardinality(waiting') <= Capacity
    BY <1>2, <2>4, <2>5 DEF Bounds
  <2>7. waiting' = {j \in Image : asked'[j] = "waiting"}
    BY <1>2 DEF IInv, TypeOK, PendingServed
  <2>8. \A j \in waiting' : <<child', j>> \in work'
    BY <1>2 DEF IInv, PendingServed
  <2>9. PendingServed'
    BY <1>2, <2>1, <2>6, <2>7, <2>8 DEF Bounds, PendingServed
  <2>10. Numbered'
    BY <1>2, <2>1 DEF Bounds, IInv, TypeOK, Numbered
  <2>11. Current'
    BY <1>2, <2>1 DEF Bounds, IInv, TypeOK, Numbered, Current
  <2> QED
    BY <2>2, <2>4, <2>9, <2>10, <2>11 DEF IInv
<1> QED
  BY <1>1, <1>2 DEF Recognise

(* An answer settles one recognition, if its process is the current one.   *)
LEMMA LineIInv ==
  ASSUME Bounds, IInv, NEW p \in 1 .. MaxChildren, NEW i \in Image, Line(p, i)
  PROVE  IInv'
<1>1. CASE child # p
  BY <1>1 DEF Line, IInv, TypeOK, PendingServed, Numbered, Current
<1>2. CASE child = p /\ Stop
  BY <1>2, StopIInv DEF Line
<1>3. ASSUME child = p, NEW result \in {"answered", "failed"},
             asked' = [asked EXCEPT ![i] = result], waiting' = waiting \ {i},
             idle' = (waiting' = {}), UNCHANGED child
      PROVE  IInv'
  <2>1. TypeOK' /\ Numbered' /\ Current'
    BY <1>3 DEF Line, IInv, TypeOK, Numbered, Current
  <2>2. IsFiniteSet(waiting') /\ Cardinality(waiting') <= Cardinality(waiting)
    BY <1>3, FS_Subset DEF IInv
  <2>3. Cardinality(waiting) \in Nat /\ Cardinality(waiting') \in Nat
    BY <2>2, FS_CardinalityType DEF IInv
  <2>4. Cardinality(waiting') <= Capacity
    BY <2>2, <2>3 DEF Bounds, IInv, PendingServed
  <2>5. waiting' = {j \in Image : asked'[j] = "waiting"}
    BY <1>3 DEF IInv, TypeOK, PendingServed
  <2>6. (waiting' # {} => child' # 0) /\ \A j \in waiting' : <<child', j>> \in work'
    BY <1>3 DEF Line, IInv, PendingServed
  <2> QED
    BY <1>3, <2>1, <2>2, <2>4, <2>5, <2>6 DEF IInv, PendingServed
<1> QED
  BY <1>1, <1>2, <1>3 DEF Line

(* A process that fails takes what is pending along if it is the current.  *)
LEMMA ExitIInv ==
  ASSUME Bounds, IInv, NEW p \in 1 .. MaxChildren, Exit(p)
  PROVE  IInv'
<1>1. CASE child = p
  BY <1>1, StopIInv DEF Exit
<1>2. CASE child # p
  BY <1>2 DEF Exit, IInv, TypeOK, PendingServed, Numbered, Current
<1> QED
  BY <1>1, <1>2

(* The invariant is inductive.                                             *)
LEMMA StepIInv == Bounds /\ IInv /\ [Next]_nodeVars => IInv'
<1> SUFFICES ASSUME Bounds, IInv, [Next]_nodeVars PROVE IInv'
  OBVIOUS
<1>1. ASSUME NEW i \in Image, Recognise(i) \/ Late(i) PROVE IInv'
  BY <1>1, RecogniseIInv, StopIInv DEF Late
<1>2. ASSUME NEW w \in work, Line(w[1], w[2]) PROVE IInv'
  <2>1. w[1] \in 1 .. MaxChildren /\ w[2] \in Image
    BY DEF IInv, TypeOK
  <2> QED
    BY <1>2, <2>1, LineIInv
<1>3. ASSUME NEW p \in 1 .. MaxChildren, Exit(p) PROVE IInv'
  BY <1>3, ExitIInv
<1>4. CASE Idle
  BY <1>4, StopIInv DEF Idle
<1>5. CASE UNCHANGED nodeVars
  BY <1>5 DEF nodeVars, IInv, TypeOK, PendingServed, Numbered, Current
<1> QED
  BY <1>1, <1>2, <1>3, <1>4, <1>5 DEF Next

(* The invariant holds in every state.                                     *)
THEOREM Invariant == ASSUME Bounds PROVE Spec => []IInv
<1>1. Init => IInv
  BY InitIInv
<1>2. IInv /\ [Next]_nodeVars => IInv'
  BY StepIInv
<1> QED
  BY <1>1, <1>2, PTL DEF Spec

(* Whatever is pending is known to the current process and no more than    *)
(* the capacity is, for any number of recognitions and processes.          *)
THEOREM PendingIsServed == ASSUME Bounds PROVE Spec => []PendingServed
<1>1. IInv => PendingServed
  BY DEF IInv
<1> QED
  BY <1>1, Invariant, PTL

(* The table of pending recognitions keeps its type.                       *)
THEOREM TypeCorrect == ASSUME Bounds PROVE Spec => []TypeOK
<1>1. IInv => TypeOK
  BY DEF IInv
<1> QED
  BY <1>1, Invariant, PTL

(* What a process that was given up prints, or its end, is not taken for   *)
(* the current one's.                                                      *)
LEMMA StepUndisturbed ==
  ASSUME TypeOK, [Next]_nodeVars, NEW w \in work \ work', w[1] # child
  PROVE  UNCHANGED <<asked, waiting, child, idle>>
<1>1. w[1] \in 1 .. MaxChildren /\ w = <<w[1], w[2]>>
  BY DEF TypeOK
<1>2. CASE (\E i \in Image : Recognise(i) \/ Late(i)) \/ Idle \/ UNCHANGED nodeVars
  <2>1. work \subseteq work'
    BY <1>2 DEF Recognise, Late, Idle, nodeVars
  <2> QED
    BY <2>1
<1>3. ASSUME NEW v \in work, Line(v[1], v[2]) PROVE UNCHANGED <<asked, waiting, child, idle>>
  <2>1. v = <<v[1], v[2]>> /\ w = v
    BY <1>3 DEF TypeOK, Line
  <2> QED
    BY <1>3, <2>1 DEF Line
<1>4. ASSUME NEW p \in 1 .. MaxChildren, Exit(p) PROVE UNCHANGED <<asked, waiting, child, idle>>
  <2>1. w[1] = p
    BY <1>4 DEF Exit
  <2> QED
    BY <1>4, <2>1 DEF Exit
<1> QED
  BY <1>2, <1>3, <1>4 DEF Next

(* A process stopped for a late recognition does not disturb the one that  *)
(* replaces it, for any number of recognitions and processes.              *)
THEOREM SuccessorsUndisturbed == ASSUME Bounds PROVE Spec => SuccessorUndisturbed
<1>1. IInv /\ [Next]_nodeVars
        => [(\E w \in work \ work' : w[1] # child) => UNCHANGED <<asked, waiting, child, idle>>]_nodeVars
  BY StepUndisturbed DEF IInv
<1> QED
  BY <1>1, Invariant, PTL DEF Spec, SuccessorUndisturbed

----------------------------------------------------------------------------
(* The abstract recogniser                                                 *)

(* Stopping the process fails what is pending.                             *)
LEMMA StopFails == IInv /\ Stop => R!Fail
<1> SUFFICES ASSUME IInv, Stop PROVE R!Fail
  OBVIOUS
<1>1. waiting \in SUBSET {i \in Image : asked[i] \in {"new", "waiting"}}
  BY DEF IInv, PendingServed
<1> QED
  BY <1>1 DEF Stop, R!Fail

(* A step of the server is a step of the abstract recogniser, or none.     *)
LEMMA StepRecognises == IInv /\ [Next]_nodeVars => [R!Ask \/ R!Answer \/ R!Fail]_asked
<1> DEFINE Goal == [R!Ask \/ R!Answer \/ R!Fail]_asked
<1> SUFFICES ASSUME IInv, [Next]_nodeVars PROVE Goal
  OBVIOUS
<1>1. ASSUME NEW i \in Image, asked[i] \in {"new", "waiting"}, asked' = [asked EXCEPT ![i] = "failed"]
      PROVE  R!Fail
  <2>1. {i} \in SUBSET {j \in Image : asked[j] \in {"new", "waiting"}}
    BY <1>1
  <2>2. asked' = [j \in Image |-> IF j \in {i} THEN "failed" ELSE asked[j]]
    BY <1>1 DEF IInv, TypeOK
  <2> QED
    BY <2>1, <2>2 DEF R!Fail
<1>2. ASSUME NEW i \in Image, Recognise(i) PROVE Goal
  BY <1>1, <1>2 DEF Recognise, R!Ask
<1>3. ASSUME NEW w \in work, Line(w[1], w[2]) PROVE Goal
  <2>1. w = <<w[1], w[2]>> /\ w[1] \in 1 .. MaxChildren /\ w[2] \in Image
    BY DEF IInv, TypeOK
  <2>2. CASE child # w[1]
    BY <1>3, <2>2 DEF Line
  <2>3. CASE child = w[1] /\ Stop
    BY <2>3, StopFails
  <2>4. ASSUME child = w[1], NEW result \in {"answered", "failed"},
               asked' = [asked EXCEPT ![w[2]] = result]
        PROVE  Goal
    <3>1. asked[w[2]] = "waiting"
      BY <2>1, <2>4 DEF IInv, Current, PendingServed
    <3>2. CASE result = "answered"
      BY <2>1, <2>4, <3>1, <3>2 DEF R!Answer
    <3>3. CASE result = "failed"
      BY <1>1, <2>1, <2>4, <3>1, <3>3
    <3> QED
      BY <3>2, <3>3
  <2> QED
    BY <1>3, <2>2, <2>3, <2>4 DEF Line
<1>4. ASSUME NEW p \in 1 .. MaxChildren, Exit(p) PROVE Goal
  BY <1>4, StopFails DEF Exit
<1>5. ASSUME Idle \/ \E i \in Image : Late(i) PROVE Goal
  BY <1>5, StopFails DEF Idle, Late
<1>6. CASE UNCHANGED nodeVars
  BY <1>6 DEF nodeVars
<1> QED
  BY <1>2, <1>3, <1>4, <1>5, <1>6 DEF Next

(* The server's recogniser implements the abstract one.                    *)
THEOREM ServerRecognises == ASSUME Bounds PROVE Spec => Recognises
<1>1. Init => R!Init
  BY DEF Init, R!Init
<1>2. IInv /\ [Next]_nodeVars => [R!Ask \/ R!Answer \/ R!Fail]_asked
  BY StepRecognises
<1> QED
  BY <1>1, <1>2, Invariant, PTL DEF Spec, Recognises, R!Spec
=============================================================================
