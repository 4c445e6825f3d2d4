SPECIFICATION Spec
CONSTANTS
  s1 = s1
  s2 = s2
  t1 = t1
  t2 = t2
  t3 = t3
  Slots = {s1}
  Tasks = {t1, t2}
  SlotOf <- MCSlotOf
  MaxCalls = 2
  MaxResubmissions = 1
  SoftRejections = TRUE
  NoRequest = NoRequest
INVARIANTS
  TypeOK
  AtMostOneAdmission
  NothingForgotten
  WriteAhead
  SequencesGapless
  JournalTruthful
  StopsQuiet
PROPERTY NoPostAfterClose
CHECK_DEADLOCK FALSE
