--------------------------- MODULE MCRecognition ---------------------------
\* The two recognisers, which share nothing, side by side.
EXTENDS ClientOcr

CONSTANTS Image, Capacity, MaxChildren
VARIABLES asked, waiting, child, children, idle, work

N == INSTANCE NodeOcr
serverVars == <<asked, waiting, child, children, idle, work>>

MCInit == Init /\ N!Init
Both == \/ Next /\ UNCHANGED serverVars
        \/ N!Next /\ UNCHANGED clientVars

MCSpec ==
  /\ MCInit /\ [][Both]_<<clientVars, serverVars>>
  /\ Fairness /\ InitTimers /\ \A i \in Image : WF_serverVars(N!Late(i))

\* Whatever the server has pending is known to its process.
PendingServed == N!PendingServed

\* A process that was given up changes nothing for the one that replaced it.
SuccessorUndisturbed == N!SuccessorUndisturbed

\* Every request ends, on the page and on the server.
RequestsEnd == SolvesEnd /\ N!RecognitionsEnd

\* Both implement the abstract recogniser.
BothRecognise == Recognises /\ N!Recognises
=============================================================================
