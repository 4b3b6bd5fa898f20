\* Accelerated path, one caller, messages under the 32-bit length modulus: each call is correct under the subkeys it derived.
CONSTANTS
  Aes <- MCAes
  Polyval <- MCPolyval
  Variant = "AES_128"
  MasterKey <- MCKey128
  Nonces <- MCNonces
  Aads <- MCAads
  Msgs <- MCShortMsgs
  Path = "AVX_AESNI"
  Calls = {c1}
  Prefixes = {0, 5}
  MaxOps = 3
INIT Init
NEXT Next
INVARIANTS SealMatchesReference OpenMatchesReference
CHECK_DEADLOCK FALSE
