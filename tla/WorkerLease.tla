----------------------------- MODULE WorkerLease ------------------------------
(***************************************************************************)
(* What a session layer owes the worker behind it: a browser context (or a *)
(* provider process) is lent to one operation at a time, no more than      *)
(* PoolSize are lent at once, and a context that has been given up is      *)
(* never lent again.                                                       *)
(***************************************************************************)
EXTENDS Naturals, FiniteSets

CONSTANTS
  Context,   \* the worker's contexts
  PoolSize   \* how many may be in use at once

VARIABLES
  inUse,     \* contexts some operation is using
  gone       \* contexts nobody will use again

leaseVars == <<inUse, gone>>

Init == inUse = {} /\ gone = {}

\* Operations begin on contexts that are free: the reaper begins several at once.
Begin(S) ==
  /\ S \cap (inUse \cup gone) = {}
  /\ Cardinality(inUse \cup S) <= PoolSize
  /\ inUse' = inUse \cup S
  /\ UNCHANGED gone

\* An operation ends and its context is free again.
End(c) ==
  /\ c \in inUse
  /\ inUse' = inUse \ {c}
  /\ UNCHANGED gone

\* An operation ends, and with it the life of its context.
GiveUp(c) ==
  /\ c \in inUse
  /\ inUse' = inUse \ {c}
  /\ gone' = gone \cup {c}

Next ==
  \/ \E S \in (SUBSET Context) \ {{}} : Begin(S)
  \/ \E c \in Context : End(c) \/ GiveUp(c)

Spec == Init /\ [][Next]_leaseVars

===============================================================================
