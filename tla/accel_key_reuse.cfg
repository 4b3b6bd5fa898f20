\* Accelerated path: opening what the same Key sealed (expected violation).
CONSTANTS
  Aes <- MCAes
  Polyval <- MCPolyval
  Variant = "AES_128"
  MasterKey <- MCKey128
  Nonces <- MCNonces
  Aads <- MCAads
  Msgs <- MCShortMsgs
  Path = "AVX_AESNI"
  Calls = {c1}
  Prefixes = {0, 5}
  MaxOps = 2
INIT Init
NEXT Next
INVARIANTS RoundTrip
CHECK_DEADLOCK FALSE
