---------------------------- MODULE MCPortalWorker ----------------------------
\* Small instances of PortalWorker.
EXTENDS PortalWorker, TLC

\* Sound for the safety runs: ids, entries and calls are interchangeable.
Symmetric == Permutations(Id) \cup Permutations(Entry) \cup Permutations(Call)
===============================================================================
