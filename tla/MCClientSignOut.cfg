\* A report load is open while the student signs out.
SPECIFICATION Spec
CONSTANTS
  Account = {a, b}
  MaxTries = 2
  None = None
INVARIANTS SignOutEndsSession
