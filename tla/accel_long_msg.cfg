\* Accelerated path, a message of at least 2^32 whole bytes (expected violation).
CONSTANTS
  Aes <- MCAes
  Polyval <- MCPolyval
  Variant = "AES_256"
  MasterKey <- MCKey256
  Nonces <- MCNonces
  Aads <- MCAads
  Msgs <- MCLongMsgs
  Path = "AVX_AESNI"
  Calls = {c1}
  Prefixes = {0, 5}
  MaxOps = 1
INIT Init
NEXT Next
INVARIANTS SealMatchesReference
CHECK_DEADLOCK FALSE
