SPECIFICATION Spec
CONSTANTS
  c1 = c1
  c2 = c2
  star = star
  Callers <- TwoCallers
  AllowedTypes <- Types
  Ids = {1}
  Star = star
  Requests <- MixedRequests
  MaxLost = 1
SYMMETRY Symmetry
INVARIANT DeleteRevokes
