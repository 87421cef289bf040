SPECIFICATION Spec
CONSTANTS
  MaxRows = 3
  Rows <- MCRows
  Windows <- MCWindows
  Limits = {0, 1, 2}
INVARIANTS VerdictsAgree TotalsFinal SentRowsAreTheWindow
CHECK_DEADLOCK FALSE
