SPECIFICATION Spec
CONSTANTS
  Clients = {c1, c2}
  AlertRequests <- AlertBodies
  MailRequests = {}
  MaxPasswords = 0
INVARIANTS InForceIsConsistent
