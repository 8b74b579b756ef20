SPECIFICATION HSpec
CONSTANTS
  c1 = c1
  c2 = c2
  n1 = n1
  n2 = n2
  x = x
  y = y
  i1 = i1
  canonical = canonical
  slashed = slashed
  NoEtag = NoEtag
  BadEtag = BadEtag
  NoId = NoId
  None = None
  Calls = {c1,c2}
  Names = {n1,n2}
  Spellings = {canonical,slashed}
  Canonical = canonical
  Contents = {x,y}
  RequestIds = {i1}
  Etags <- MCEtags
  Digest <- MCDigest
PROPERTY NoSilentClobber
