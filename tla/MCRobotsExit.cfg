CONSTANTS
  NumRollouts = 3
  ActionLimit = 3
  ChunkSize = 2
  ScalarInterrupts = 1
  e1 = e1
  e2 = e2
  e3 = e3
  Episodes = {e1, e2, e3}
  Concurrency = 2
  StepLimit = 3
  Horizon = 2
  OpenAttempts = 2
  WaveInterrupts = 1
  Programs = {"scalar"}
SPECIFICATION Spec
INVARIANTS
  SessionClosedAtExit
CHECK_DEADLOCK FALSE
