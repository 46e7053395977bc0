\* One synthesis of every small dist/.
SPECIFICATION Spec
CONSTANTS
  Missing = Missing
  Unparsable = Unparsable
  None = None
  Walk <- WalkOrder
  Named <- Names
  Listings <- Roots
  Dists <- Outcomes
INVARIANTS
  TypeOK
  SynthesisIsSelection
CHECK_DEADLOCK FALSE
