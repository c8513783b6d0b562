CONSTANTS
  FirstTags <- KnownTags
  Keys <- DeviceKeys
  Blobs = {b1, b2}
  Chains = {k1, k2}
  Addrs = {1, 2, 3, 4}
  Sizes = {0, 2}
  MaxCerts = 2
  Lists = {l1, l2}
  Nodes = {n1, n2, n3, n4}
  Values = {1, 2}
  Objects = {o1, o2, o3}
  Outcomes = {1, 2, 3}
  Sets = {s1, s2}
  FirstMethods <- Builders
  LaterMethods = {"SigningKey"}
  MaxElems = 4
  LaterTags = {"PURPOSE", "KEY_SIZE", "NO_AUTH_REQUIRED", "APPLICATION_ID"}
  Additions <- MCAdditions
  MaxAdded = 1
  MaxParams = 2
  Lengths = {0, 32, 48}
  Handles = {1}
  MaxClock = 2
  MaxInputs = 2
  Reported = {"INVALID_INPUT_LENGTH"}
SPECIFICATION MCSpec
INVARIANTS
  OwnedOnce
  FreedIsWiped
  WellLinked
  UncheckedIsHeld
  ValidIsComplete
  ProxyIsConcatenation
  HalReads
  
  AcceptedStaysItself
  EcPublicKeyWhole
  LockInvalidatesTokens
  OperationMatchesKey
  ConfirmationCoversAll
  ClientKnows
PROPERTY ImplementsList
