SPECIFICATION HubSpec
CONSTANTS
  c1 = c1
  c2 = c2
  Clients = {c1, c2}
  NoClient = NoClient
  Questions = {"tool", "plan"}
  LeaseTime = 1
  MaxWriters = 2
  MaxRequests = 3
  MaxQueued = 2
SYMMETRY Symmetric
INVARIANT WorkHasWriter
