---------------------------- MODULE MCNodeSessions ----------------------------
\* Small instances of NodeSessions.
EXTENDS NodeSessions
===============================================================================
