\* Portable path: is the keystream seeded by the tag before its encryption, as spec.md section 4.4 says?
CONSTANTS
  Aes <- MCAes
  Polyval <- MCPolyval
  Variant = "AES_256"
  MasterKey <- MCKey256
  Nonces <- MCNonces
  Aads <- MCAads
  Msgs <- MCFewMsgs
  Path = "FALLBACK"
  Calls = {c1}
  Prefixes = {0, 5}
  MaxOps = 3
INIT Init
NEXT Next
INVARIANTS CounterSeededByPreTag
CHECK_DEADLOCK FALSE
