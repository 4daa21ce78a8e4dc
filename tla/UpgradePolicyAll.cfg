SPECIFICATION Spec
CONSTANTS
  Versions = {1, 2, 3}
  Archives <- Kinds
  MaxOffers = 3
INVARIANTS
  BackportsAreCounted
