SPECIFICATION Spec
CONSTANTS
  s1 = s1
  s2 = s2
  t1 = t1
  t2 = t2
  t3 = t3
  Slots = {s1, s2}
  Tasks = {t1, t3}
  SlotOf <- MCSlotOf
  MaxCalls = 1
  MaxResubmissions = 0
  SoftRejections = FALSE
  NoRequest = NoRequest
PROPERTY NoPostFromFencedSlot
CHECK_DEADLOCK FALSE
