\* Every setting: all faults, a failing network, a shared cache.
SPECIFICATION FairSpec
CONSTANTS
  Size = 3
  BytesKnown = TRUE
  ShaKnown = TRUE
  c1 = c1
  c2 = c2
  Callers = {c1, c2}
  Tries = 2
  None = None
  Settings <- AllSettings
INVARIANTS ReceiptIsTrue BlocksInPlace
PROPERTIES CommitsAtomically KeepsComplete Downloads
