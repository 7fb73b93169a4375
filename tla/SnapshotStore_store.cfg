SPECIFICATION FairSpecUpToNames
CONSTANTS
  Devices <- TwoDevices
  h1 = h1
  h2 = h2
  Hosts <- TwoHosts
  None = None
  Requests = {r1}
  MaxChanges = 2
INVARIANTS StoreIsOfTheRound ReadingsAreItsOwn
PROPERTIES Converges
