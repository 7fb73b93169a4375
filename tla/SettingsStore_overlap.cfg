SPECIFICATION Spec
CONSTANTS
  Clients = {c1, c2}
  AlertRequests <- AlertBodies
  MailRequests <- MailBodies
  MaxPasswords = 2
INVARIANTS StoredInRange PasswordIsLastGiven
SYMMETRY ClientSymmetry
