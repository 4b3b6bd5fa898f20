\* Portable path: round trip through one Key and refinement of AeadSpec.
CONSTANTS
  Aes <- MCAes
  Polyval <- MCPolyval
  Variant = "AES_256"
  MasterKey <- MCKey256
  Nonces <- MCNonces
  Aads <- MCAads
  Msgs <- MCAllMsgs
  Path = "FALLBACK"
  Calls = {c1}
  Prefixes = {0, 5}
  MaxOps = 3
INIT Init
NEXT Next
INVARIANTS TypeOK RoundTrip
PROPERTIES AeadRefinement
CHECK_DEADLOCK FALSE
