SPECIFICATION AbandonmentSpec
CONSTANTS
  Subjects = {s1}
  Events = {e1, e2, e3}
  Requests = {r1, r2}
  Processors = {r1}
  Batch = 2
  Horizon = 3
  Faults = TRUE
INVARIANTS
  AbandonmentTypeOK
  RemindersInOrder
  Orderly
  SentOnce
PROPERTIES
  SilencedForGood
SYMMETRY Symmetric
