SPECIFICATION Spec
CONSTANTS
  stdout = stdout
  stderr = stderr
  Writers <- MCWriters
  Plain <- MCPlain
  MaxLine = 4
  MaxBytes = 5
CHECK_DEADLOCK FALSE
INVARIANTS
  TypeOK
  FramedAsIfAlone
  NoLiveCommand
