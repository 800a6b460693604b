SPECIFICATION Spec
CONSTANTS
  Orders = {b1, s1}
  Cancels = {}
  Liquidators = {s1}
  Nobody = Nobody
  Threshold = 2
  HashTries = 1
  OrderTries = 2
INVARIANT CarriesItsOwn
