SPECIFICATION DisputeSpec
CONSTANTS
  Transactions = {t1}
  Requests = {r1}
  Disputes = {d1}
  Reasons = {"NO_SHOW_TRAVELER"}
  Evidence = {"STRONG"}
  Statuses = {}
  Amount <- Two
  Endpoints = {"payment"}
  Faults = TRUE
INVARIANT
  ResolutionIsHonoured
