----------------------------- MODULE MCAesGcmSiv -----------------------------
(***************************************************************************)
(* Model-checking instance of AesGcmSiv.                                   *)
(*                                                                         *)
(* The block cipher and POLYVAL are replaced by small keyed functions on   *)
(* 8-bit block values: MCAes is a keyed permutation of the block made of  *)
(* affine maps and half swaps, MCPolyval a Horner evaluation modulo 256    *)
(* with a half swap per block.  The swaps matter: an affine map modulo 256 *)
(* leaves the low bits of its output independent of the high bits of the  *)
(* key, and the KDF keeps only the low half of each block, so without them *)
(* different keys derive equal subkeys and hide key changes.  They stand   *)
(* for the external primitives only; every property compares outputs      *)
(* computed with the same stand-ins.                                       *)
(***************************************************************************)
EXTENDS AesGcmSiv

BlockNum(x) == x[1] + 4 * x[2] + 16 * x[3] + 64 * x[4]
NumBlock(v) == <<v % 4, (v \div 4) % 4, (v \div 16) % 4, (v \div 64) % 4>>

KeyNum(k) ==
  LET f[i \in 0 .. Len(k)] == IF i = 0 THEN 7 ELSE (f[i - 1] * 31 + k[i] + 1) % 256
  IN  f[Len(k)]

(* Exchange of the two 4-bit halves, so that low bits depend on high bits. *)
Swap(v) == (v % 16) * 16 + v \div 16

MCAes(k, x) ==
  LET h == KeyNum(k)
      r1(v) == ((2 * (h % 128) + 1) * v + h) % 256
      r2(v) == ((2 * ((h \div 2) % 128) + 1) * v + 3 * h + 1) % 256
  IN  NumBlock(r2(Swap(r1(Swap(r1(BlockNum(x)))))))

AbsorbedNum(b) ==
  IF DOMAIN b = 1 .. BLOCK_LEN THEN BlockNum(b)
  ELSE (5 * b.aadBits + 11 * b.msgBits + 3) % 256

MCPolyval(h, bs) ==
  LET hv == 2 * (KeyNum(h) % 128) + 1
      f[i \in 0 .. Len(bs)] ==
        IF i = 0 THEN 0
        ELSE Swap((((f[i - 1] + AbsorbedNum(bs[i])) % 256) * hv) % 256)
  IN  NumBlock(f[Len(bs)])

MCKey128 == <<1, 2, 3, 0>>
MCKey256 == <<1, 2, 3, 0, 2, 2, 1, 3>>

MCNonces == {<<1, 2>>, <<3, 0>>}

MCAads == {<<>>, <<2, 1, 0, 3, 1>>}

(* Lengths 0, 3 (partial block only), 4 (one whole block) and 6 (whole    *)
(* block and partial block): every message shorter than the 32-bit length *)
(* modulus.                                                                *)
MCShortMsgs == {<<>>, <<1, 2, 3>>, <<0, 1, 2, 3>>, <<3, 1, 2, 0, 2, 1>>}

(* A message of 17 bytes: 16 whole bytes, i.e. as many as the 32-bit      *)
(* length modulus, and a partial block.                                    *)
MCLongMsg == <<1, 0, 2, 3, 3, 2, 1, 0, 0, 1, 1, 2, 2, 3, 3, 0, 2>>

(* Associated data of 66 bytes: 16 whole blocks, as many as the 32-bit    *)
(* block-count modulus, and a partial block.                               *)
MCLongAads == {[i \in 1 .. 66 |-> (i * 3) % 4]}

MCAllMsgs == MCShortMsgs \cup {MCLongMsg}
MCFewMsgs == {<<1, 2, 3>>, <<3, 1, 2, 0, 2, 1>>}
MCLongMsgs == {MCLongMsg}
=============================================================================
