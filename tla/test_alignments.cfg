\* test_data_alignments on the accelerated path, over every short input of the model.
CONSTANTS
  Aes <- MCAes
  Polyval <- MCPolyval
  Variant = "AES_128"
  MasterKey <- MCKey128
  Nonces <- MCNonces
  Aads <- MCAads
  Msgs <- MCShortMsgs
  Path = "AVX_AESNI"
  Calls = {c1}
  Prefixes = {0}
  MaxOps = 2
INIT TestInit
NEXT TestNext
INVARIANTS TestAssertions
CHECK_DEADLOCK FALSE
