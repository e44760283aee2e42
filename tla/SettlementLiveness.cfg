SPECIFICATION FairSpec
CONSTANTS
  Transactions = {t1}
  Requests = {r1, r2}
  Amount <- One
  Endpoints <- Money
  Faults = FALSE
INVARIANTS
  CreditFollows
PROPERTIES
  PaymentIsCredited
  ReadyIsDispatched
