SPECIFICATION Spec
CONSTANTS
  c1 = c1
  c2 = c2
  None = None
  NoEtag = NoEtag
  Clients = {c1, c2}
  Roles = {1, 2}
  Members = {1, 2}
  Expressions = {2}
  Titles = {0, 1}
  AllUsers = 1
  AllAuthenticatedUsers = 9
  MaxEdits = 1
  MaxBindings = 2
  Callers <- MCCallers
  Holds <- MCHolds
  Permissions <- MCPermissions
SYMMETRY MCSymmetry
INVARIANTS
  TypeOK
  DecisionsFollowPolicy
  CanonicalForm
  EchoIsAccepted
PROPERTY NoLostGrant
