\* Accelerated path, opening with associated data of at least 2^32 whole blocks (expected violation).
CONSTANTS
  Aes <- MCAes
  Polyval <- MCPolyval
  Variant = "AES_128"
  MasterKey <- MCKey128
  Nonces <- MCNonces
  Aads <- MCLongAads
  Msgs <- MCFewMsgs
  Path = "AVX_AESNI"
  Calls = {c1}
  Prefixes = {0, 5}
  MaxOps = 2
INIT Init
NEXT Next
INVARIANTS OpenMatchesReference
CHECK_DEADLOCK FALSE
