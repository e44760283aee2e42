SPECIFICATION Spec
CONSTANTS
  Transactions = {t1}
  Requests = {r1, r2}
  Amount <- Two
  Endpoints <- Money
  Faults = FALSE
INVARIANT NeverOverdrawn
