SPECIFICATION Spec
CONSTANTS
  Banks = {b1}
  Accounts = {i1}
  Tabs = {t1, t2}
  Fetches = {f1}
  OneAtATime = TRUE
  MaxListed = 1
  MaxReference = 2
SYMMETRY MCSymmetry
INVARIANT
  CompletedOnReturn
  RequisitionHasToken
  DisconnectForgets
PROPERTY
  StaysDisconnected
