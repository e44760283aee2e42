SPECIFICATION DisputeSpec
CONSTANTS
  Transactions = {t1}
  Requests = {r1, r2}
  Disputes = {d1}
  Reasons = {"DAMAGED"}
  Evidence = {"STRONG"}
  Statuses = {"DISPUTED"}
  Amount <- Two
  Endpoints = {"payment", "settle", "fail"}
  Faults = TRUE
INVARIANTS
  DisputeTypeOK
  RefundsAreDecided
  Grounded
PROPERTIES
  ResolvedOnce
  DisputesOnlyUseSettlement
SYMMETRY Symmetric
