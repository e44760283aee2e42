SPECIFICATION Spec
CONSTANTS
  Transactions = {t1}
  Requests = {r1, r2}
  Amount <- Two
  Endpoints <- Money
  Faults = TRUE
INVARIANTS
  Consistent
  OrdersAreFunded
  SettledHasDebit
PROPERTIES
  LedgerKeepsItsPromise
SYMMETRY Symmetric
