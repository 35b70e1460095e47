CONSTANTS
  Blank = Blank
  Files <- MCFiles
SPECIFICATION Spec
INVARIANTS
  NoRecordMixed
  IntactFileRead
  ReportsExactlyWrong
CHECK_DEADLOCK FALSE
