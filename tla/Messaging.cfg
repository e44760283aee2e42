SPECIFICATION MessagingSpec
CONSTANTS
  c1 = c1
  c2 = c2
  t1 = t1
  t2 = t2
  Transactions = {t1, t2}
  Clients = {c1, c2}
  Members <- Parties
  Readers = {c1}
  Conversations = {v1, v2}
  Ids = {1, 2, 3}
  Limits = {1, 2}
  Horizon = 1
  Faults = TRUE
INVARIANTS
  MessagingTypeOK
  OneConversation
  MembersOnly
  PagesFollow
  PagesAreComplete
  Coherent
SYMMETRY Symmetric
