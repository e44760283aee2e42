SPECIFICATION Spec
CONSTANTS
  Transactions = {t1}
  Requests = {r1}
  Amount <- Three
  Endpoints <- AllEndpoints
  Faults = TRUE
INVARIANTS
  TypeOK
  NeverOverdrawn
  SettledMatchesLedger
  RefundedMeansReturned
PROPERTIES
  SettledIsFinal
  HandlersAreAtomic
