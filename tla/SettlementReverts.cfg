SPECIFICATION Spec
CONSTANTS
  Transactions = {t1}
  Requests = {r1, r2}
  Amount <- One
  Endpoints <- Money
  Faults = FALSE
PROPERTY SettledIsFinal
