\* Two sign-ins in the browser, three sessions over two places on the server.
SPECIFICATION MCSpec
CONSTANTS
  Solve = {s1, s2}
  MaxInits = 2
  Image = {i1, i2, i3}
  Capacity = 2
  MaxChildren = 2
INVARIANTS Backed PendingServed
PROPERTIES SuccessorUndisturbed RequestsEnd BothRecognise
CHECK_DEADLOCK FALSE
