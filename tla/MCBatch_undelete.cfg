SPECIFICATION HSpec
CONSTANTS
  c1 = c1
  c2 = c2
  o1 = o1
  NoName = NoName
  None = None
  Clients = {c1, c2}
  OpNames = {o1}
  Shippers <- MCShippers
  Batches <- MCBatches
PROPERTY ImplementsPromise
