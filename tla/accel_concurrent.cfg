\* Accelerated path, two concurrent seals on one Key (expected violation).
CONSTANTS
  Aes <- MCAes
  Polyval <- MCPolyval
  Variant = "AES_128"
  MasterKey <- MCKey128
  Nonces <- MCNonces
  Aads <- MCAads
  Msgs <- MCFewMsgs
  Path = "AVX_AESNI"
  Calls = {c1, c2}
  Prefixes = {0, 5}
  MaxOps = 2
INIT Init
NEXT Next
INVARIANTS SealMatchesReference
CHECK_DEADLOCK FALSE
