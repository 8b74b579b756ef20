SPECIFICATION Spec
CONSTANTS
  SERVICE_DOMAIN = "freight.example.com"
  ForeignDomain = "other.example.com"
  alice = alice
  s1 = s1
  slashed = slashed
  c1 = c1
  c2 = c2
  i1 = i1
  x = x
  id1 = id1
  id2 = id2
  NotAShipper = NotAShipper
  Collection = Collection
  Anonymous = Anonymous
  AllUsers = AllUsers
  AllAuthenticatedUsers = AllAuthenticatedUsers
  NoPolicy = NoPolicy
  NoCall = NoCall
  NoId = NoId
  NoText = NoText
  Shippers = {s1}
  Respelled <- MCRespelled
  Callers = {alice}
  Policies <- MCPolicies
  Calls = {c1, c2}
  RequestIds = {i1}
  Texts = {x}
  Ids = {id1, id2}
  Batches <- MCBatches
  Operations = {1, 2, 3, 4, 5}
  PageSizes <- MCPageSizes
  DefaultSize = 2
  MaxSize = 2
SYMMETRY MCSymmetry
INVARIANTS
  OneDomain
  AnswersAreStored
  SkipsAreRemovals

  
