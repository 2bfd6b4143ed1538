---------------------------- MODULE MCProjection ----------------------------
\* Two courses over three days, two day orders.
EXTENDS Projection, TLC

CONSTANTS a, b, b1, b2, r

E(code, order, start, end, hours, part) ==
  [code |-> code, room |-> r, order |-> order, start |-> start, end |-> end, hours |-> hours, batch |-> part]

\* Two classes of a that merge, one in between of b, one of unusual length,
\* and b taught to two batches.
MCTimetable ==
  <<E(a, 1, 9, 10, None, None), E(b, 1, 11, 12, None, b1), E(a, 1, 8, 9, None, None),
    E(a, 2, 10, 11, 2, None), E(b, 2, 10, 11, None, b2)>>

T(order) == [kind |-> "teaching", order |-> order]
Off == [kind |-> "holiday", order |-> None]
Blank == [kind |-> "unknown", order |-> None]
MCCalendars == {<<T(1), Off, T(2)>>, <<T(2), T(1), Blank>>}

\* At the target, one hour below it and three, above it, at nothing; with a
\* alone, b alone, both or none reported.
C(present, conducted) == [present |-> present, conducted |-> conducted]
MCReports ==
  {<<>>, a :> C(2, 3), a :> C(3, 4), a :> C(3, 5), a :> C(0, 0) @@ b :> C(6, 6), b :> C(2, 3)}
=============================================================================
