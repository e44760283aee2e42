SPECIFICATION BookingSpec
CONSTANTS
  Trips = {p1}
  Packages = {k1}
  Deals = {t1, t2}
  Users = {u1}
  Carrier <- OneCarrier
  Updates = {"CREATED", "CANCELLED"}
  KycUpdates = {"PENDING", "VERIFIED"}
  Subjects <- Everything
  Events = {e1, e2, e3, e4}
  Requests = {r1, r2}
  Processors = {}
  Batch = 1
  Horizon = 0
  Faults = FALSE
INVARIANT BookedOnce
SYMMETRY Symmetric
