----------------------------- MODULE ContextPool ------------------------------
(***************************************************************************)
(* What the Node worker promises of the browser contexts it keeps: each is *)
(* used by one operation at a time, none by an operation once its closing  *)
(* has begun, none is closed under an operation that is awaited, and only  *)
(* a closing that has ended makes room for another context.                *)
(***************************************************************************)
EXTENDS Naturals, FiniteSets

CONSTANTS
  Context,   \* the worker's contexts
  PoolSize   \* how many may exist at once, those being closed included

VARIABLES
  kept,      \* contexts that exist or are being opened
  inUse,     \* contexts some operation is using
  ending     \* contexts being closed

poolVars == <<kept, inUse, ending>>

Init == kept = {} /\ inUse = {} /\ ending = {}

\* A context is opened by the operation that is the first to use it.
Open(c) ==
  /\ c \notin kept /\ Cardinality(kept) < PoolSize
  /\ kept' = kept \cup {c} /\ inUse' = inUse \cup {c}
  /\ UNCHANGED ending

Begin(c) ==
  /\ c \in kept \ (inUse \cup ending)
  /\ inUse' = inUse \cup {c}
  /\ UNCHANGED <<kept, ending>>

\* An operation ends and its context is free again.
End(c) ==
  /\ c \in inUse
  /\ inUse' = inUse \ {c}
  /\ UNCHANGED <<kept, ending>>

\* An operation fails, or is no longer awaited: its context is closed.
Fail(c) ==
  /\ c \in inUse
  /\ inUse' = inUse \ {c} /\ ending' = ending \cup {c}
  /\ UNCHANGED kept

\* Contexts nobody uses are closed: those that have expired go together.
Close(S) ==
  /\ S \subseteq kept \ inUse
  /\ ending' = ending \cup S
  /\ UNCHANGED <<kept, inUse>>

Closed(c) ==
  /\ c \in ending
  /\ kept' = kept \ {c} /\ ending' = ending \ {c}
  /\ UNCHANGED inUse

\* The worker exits, and the browser with it.
Exit == kept' = {} /\ inUse' = {} /\ ending' = {}

Next ==
  \/ \E c \in Context : Open(c) \/ Begin(c) \/ End(c) \/ Fail(c) \/ Closed(c)
  \/ \E S \in SUBSET Context : Close(S)
  \/ Exit

Spec == Init /\ [][Next]_poolVars

===============================================================================
