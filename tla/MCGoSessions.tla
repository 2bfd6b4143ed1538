----------------------------- MODULE MCGoSessions -----------------------------
(* Instances of GoSessions for TLC. *)
EXTENDS GoSessions, TLC

\* Requests and session structs are interchangeable; used in safety runs only.
Symmetry == Permutations(Request) \cup Permutations(Sid)

===============================================================================
