---------------------------- MODULE Recognition ----------------------------
(***************************************************************************)
(* What a CAPTCHA recogniser promises its callers, in the browser and on   *)
(* the server alike: a request is settled at most once, and with an answer *)
(* only if the recogniser was at work on it.                               *)
(***************************************************************************)
CONSTANT Request
VARIABLE outcome     \* of each request: new, waiting, answered or failed

Init == outcome = [r \in Request |-> "new"]

Ask == \E r \in Request : outcome[r] = "new" /\ outcome' = [outcome EXCEPT ![r] = "waiting"]
Answer == \E r \in Request : outcome[r] = "waiting" /\ outcome' = [outcome EXCEPT ![r] = "answered"]

(* Failures may come together: one process serves many requests.           *)
Fail == \E lost \in SUBSET {r \in Request : outcome[r] \in {"new", "waiting"}} :
          outcome' = [r \in Request |-> IF r \in lost THEN "failed" ELSE outcome[r]]

Spec == Init /\ [][Ask \/ Answer \/ Fail]_outcome
=============================================================================
