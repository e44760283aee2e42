SPECIFICATION Spec
CONSTANTS
  Transactions = {t1}
  Requests = {r1}
  Amount <- One
  Endpoints <- Money
  Faults = TRUE
INVARIANT SuccessIsCredited
