----------------------- MODULE AesGcmSivFallbackProofs -----------------------
(***************************************************************************)
(* Proofs that the portable path (seal_fallback, open_fallback) computes   *)
(* GCM-SIV exactly as AeadSpec states it, for every value of the          *)
(* constants: it implements AeadSpec under the refinement mapping Abs and  *)
(* every open of a sealed ciphertext round-trips.                          *)
(*                                                                         *)
(* The argument: each helper the portable path is built from (the KDF, the *)
(* zero padding, the nonce mixing, the counter block, the counter-mode    *)
(* pass) equals the corresponding reference operator of AeadSpec; so each  *)
(* completed seal holds the reference ciphertext and tag, and each open    *)
(* decrypts with the reference keystream, which xor undoes.               *)
(***************************************************************************)
EXTENDS AesGcmSivProofs

-----------------------------------------------------------------------------
(* The helpers of the code equal the reference operators. *)

(* The KDF of gcm_siv.rs, sliced by get_encryption_key_size, yields the   *)
(* reference subkeys.                                                      *)
LEMMA KdfMatchesReference ==
  ASSUME NEW k, NEW n
  PROVE  /\ KdfAuth(k, n) = Abs!RefAuthKey(k, n)
         /\ SubSeq(KdfEncArray(k, n), 1, get_encryption_key_size(Variant))
              = Abs!RefEncKey(k, n)
<1>1. KdfAuth(k, n) = Abs!RefAuthKey(k, n)
  BY DEF KdfAuth, KdfStream, Abs!RefAuthKey, Abs!RefKdfByte, Abs!RefKdfInput,
         Abs!BLOCK_LEN, Abs!HALF, Abs!BYTE, BLOCK_LEN, HALF, BYTE
<1>2. SubSeq(KdfEncArray(k, n), 1, get_encryption_key_size(Variant))
        = Abs!RefEncKey(k, n)
  <2> DEFINE sz == get_encryption_key_size(Variant)
  <2>1. sz = KeyLen(Variant) /\ sz \in 1 .. 2 * BLOCK_LEN
    BY KeyLenFacts DEF BLOCK_LEN
  <2>2. \A i \in 1 .. sz : KdfEncArray(k, n)[i] = Abs!RefKdfByte(k, n, BLOCK_LEN + i)
    BY <2>1 DEF KdfEncArray, KdfEnc, KdfStream, Abs!RefKdfByte, Abs!RefKdfInput,
                Abs!HALF, Abs!BYTE, Abs!BLOCK_LEN, BLOCK_LEN, HALF, BYTE
  <2> DEFINE arr == KdfEncArray(k, n)
             S   == {arr[i] : i \in 1 .. sz}
  <2>3. /\ SubSeq(arr, 1, sz) \in Seq(S)
        /\ Len(SubSeq(arr, 1, sz)) = sz
        /\ \A i \in 1 .. sz : SubSeq(arr, 1, sz)[i] = arr[i]
    BY <2>1, SubSeqProperties
  <2>4. DOMAIN SubSeq(arr, 1, sz) = 1 .. sz
    BY <2>3, LenProperties
  <2>. QED
    BY <2>1, <2>2, <2>3, <2>4 DEF Abs!RefEncKey, Abs!KeyLen, KeyLen, Abs!BLOCK_LEN, BLOCK_LEN
<1>. QED
  BY <1>1, <1>2

(* crypt_last_block's counter block is the reference counter block. *)
LEMMA CtrMatchesReference ==
  ASSUME NEW t \in Block, NEW j \in Nat
  PROVE  CtrBlock(t, j) = Abs!RefCounter(t, j)
<1> DEFINE c == [t EXCEPT ![BLOCK_LEN] = SetMsb(@)]
           v == (CtrValue(c) + j) % U32
<1>1. CtrValue(c) = CtrValue(t)
  BY DEF CtrValue, Block, BLOCK_LEN
<1>2. CtrBlock(t, j) = [c EXCEPT ![1] = v % BYTE, ![2] = v \div BYTE]
  BY DEF CtrBlock
<1>3. DOMAIN CtrBlock(t, j) = 1 .. 4 /\ DOMAIN Abs!RefCounter(t, j) = 1 .. 4
  BY <1>2 DEF Abs!RefCounter, Abs!BLOCK_LEN, Block, BLOCK_LEN
<1>4. ASSUME NEW i \in 1 .. 4
      PROVE  CtrBlock(t, j)[i] = Abs!RefCounter(t, j)[i]
  <2>1. Abs!RefCounter(t, j)[i] =
          IF i = 1 THEN ((CtrValue(t) + j) % U32) % BYTE
          ELSE IF i = 2 THEN ((CtrValue(t) + j) % U32) \div BYTE
          ELSE IF i = 4 THEN SetMsb(t[i])
          ELSE t[i]
    BY DEF Abs!RefCounter, Abs!CtrValue, Abs!SetMsb, Abs!U32, Abs!BYTE, Abs!BLOCK_LEN,
           CtrValue, SetMsb, U32, BYTE
  <2>2. CtrBlock(t, j)[i] =
          IF i = 1 THEN v % BYTE
          ELSE IF i = 2 THEN v \div BYTE
          ELSE IF i = 4 THEN SetMsb(t[i])
          ELSE t[i]
    BY <1>2 DEF Block, BLOCK_LEN
  <2>. QED
    BY <1>1, <2>1, <2>2
<1>5. CtrBlock(t, j) \in Block
  BY CtrBlockType
<1>6. Abs!RefCounter(t, j) \in [1 .. 4 -> Int]
  BY DEF Abs!RefCounter, Abs!BLOCK_LEN, Abs!SetMsb, Abs!U32, Abs!BYTE,
         Abs!CtrValue, Block, Byte, BYTE, BLOCK_LEN
<1>. QED
  BY <1>4, <1>5, <1>6 DEF Block, BLOCK_LEN

(* The keystream byte of message byte i is the reference keystream byte. *)
LEMMA KsByteMatchesReference ==
  ASSUME NEW k, NEW t \in Block, NEW i \in Nat \ {0}
  PROVE  KsByte(k, t, i) =
           Aes(k, Abs!RefCounter(t, (i - 1) \div BLOCK_LEN))[((i - 1) % BLOCK_LEN) + 1]
<1>1. (i - 1) \div BLOCK_LEN \in Nat
  BY DEF BLOCK_LEN
<1>. QED
  BY <1>1, CtrMatchesReference DEF KsByte

(* Xor with the same byte twice is the identity. *)
LEMMA XorInvolution ==
  ASSUME NEW x \in Byte, NEW y \in Byte
  PROVE  Abs!Xor(Abs!Xor(x, y), y) = x
BY DEF Abs!Xor, Byte, BYTE

(* The keystream bytes are bytes. *)
LEMMA RefKsType ==
  ASSUME AesType, NEW k \in Bytes, NEW t \in Block, NEW i \in Nat \ {0}
  PROVE  Aes(k, Abs!RefCounter(t, (i - 1) \div BLOCK_LEN))[((i - 1) % BLOCK_LEN) + 1] \in Byte
<1>1. Abs!RefCounter(t, (i - 1) \div BLOCK_LEN) \in Block
  <2>1. (i - 1) \div BLOCK_LEN \in Nat
    BY DEF BLOCK_LEN
  <2>. QED
    BY <2>1, CtrMatchesReference, CtrBlockType
<1>. QED
  BY <1>1 DEF AesType, Block, BLOCK_LEN

(* seal_fallback's gcm_siv_crypt from offset 0 over the whole message is  *)
(* the reference counter-mode encryption.                                  *)
LEMMA SealCryptMatchesReference ==
  ASSUME NEW m \in Bytes, NEW t \in Block, NEW k
  PROVE  CtrXor(m, 0, Len(m), t, k) = Abs!RefCrypt(k, t, m)
<1>1. \A j \in 1 .. Len(m) :
        CtrXor(m, 0, Len(m), t, k)[j] = Xor(m[j], KsByte(k, t, j))
  BY DEF CtrXor
<1>2. \A j \in 1 .. Len(m) :
        Abs!RefCrypt(k, t, m)[j] =
          Xor(m[j], Aes(k, Abs!RefCounter(t, (j - 1) \div BLOCK_LEN))[((j - 1) % BLOCK_LEN) + 1])
  BY DEF Abs!RefCrypt, Abs!Xor, Abs!BLOCK_LEN, Xor, BLOCK_LEN
<1>3. \A j \in 1 .. Len(m) : CtrXor(m, 0, Len(m), t, k)[j] = Abs!RefCrypt(k, t, m)[j]
  <2>1. Len(m) \in Nat
    BY LenProperties DEF Bytes
  <2>. QED
    BY <1>1, <1>2, <2>1, KsByteMatchesReference
<1>4. DOMAIN CtrXor(m, 0, Len(m), t, k) = 1 .. Len(m)
      /\ DOMAIN Abs!RefCrypt(k, t, m) = 1 .. Len(m)
  BY DEF CtrXor, Abs!RefCrypt
<1>. QED
  BY <1>3, <1>4 DEF CtrXor, Abs!RefCrypt

(* The reference decryption undoes the reference encryption. *)
LEMMA CryptInvolution ==
  ASSUME AesType, NEW m \in Bytes, NEW t \in Block, NEW k \in Bytes
  PROVE  /\ Abs!RefCrypt(k, t, m) \in Bytes
         /\ Len(Abs!RefCrypt(k, t, m)) = Len(m)
         /\ Abs!RefCrypt(k, t, Abs!RefCrypt(k, t, m)) = m
<1> DEFINE ks(i) == Aes(k, Abs!RefCounter(t, (i - 1) \div BLOCK_LEN))[((i - 1) % BLOCK_LEN) + 1]
           x == Abs!RefCrypt(k, t, m)
<1>1. Len(m) \in Nat /\ m \in [1 .. Len(m) -> Byte]
  BY LenProperties DEF Bytes
<1>2. x = [i \in 1 .. Len(m) |-> Abs!Xor(m[i], ks(i))]
  BY DEF Abs!RefCrypt, Abs!BLOCK_LEN, BLOCK_LEN
<1>3. \A i \in 1 .. Len(m) : ks(i) \in Byte
  BY RefKsType
<1>4. x \in [1 .. Len(m) -> Byte]
  BY <1>1, <1>2, <1>3 DEF Abs!Xor, Byte, BYTE
<1>5. x \in Bytes /\ Len(x) = Len(m)
  BY <1>1, <1>4, ArrayLen DEF Bytes
<1>6. Abs!RefCrypt(k, t, x) = [i \in 1 .. Len(m) |-> Abs!Xor(x[i], ks(i))]
  BY <1>5 DEF Abs!RefCrypt, Abs!BLOCK_LEN, BLOCK_LEN
<1>7. \A i \in 1 .. Len(m) : Abs!Xor(x[i], ks(i)) = m[i]
  BY <1>1, <1>2, <1>3, XorInvolution
<1>. QED
  BY <1>1, <1>5, <1>6, <1>7

(* The blocks the code absorbs for a byte string, its whole blocks and    *)
(* its zero-padded tail, are the reference zero padding.                   *)
LEMMA PadMatchesReference ==
  ASSUME NEW s \in Bytes
  PROVE  PadBlocks(s) = Abs!RefPad(s)
<1> DEFINE L == Len(s)
           q == L \div BLOCK_LEN
           W == WholeBlocks(s, q)
           T == IF L % BLOCK_LEN = 0 THEN <<>> ELSE <<TailBlock(s)>>
           R == Abs!RefPad(s)
<1>1. L \in Nat /\ q \in Nat /\ q * BLOCK_LEN <= L
  BY LenProperties DEF Bytes, BLOCK_LEN
<1>2. W \in Seq(Block) /\ Len(W) = q
  <2>1. W \in Seq(Block)
    BY <1>1, WholeBlocksType
  <2>2. DOMAIN W = 1 .. q
    BY DEF WholeBlocks
  <2>. QED
    BY <1>1, <2>1, <2>2, LenProperties
<1>3. T \in Seq(Block) /\ Len(T) = IF L % BLOCK_LEN = 0 THEN 0 ELSE 1
  BY TailBlockType
<1>4. PadBlocks(s) = W \o T
  BY DEF PadBlocks
<1>5. W \o T \in Seq(Block) /\ Len(W \o T) = Len(W) + Len(T)
      /\ \A j \in 1 .. Len(W) + Len(T) :
           (W \o T)[j] = IF j <= Len(W) THEN W[j] ELSE T[j - Len(W)]
  BY <1>2, <1>3, ConcatProperties
<1>6. (L + BLOCK_LEN - 1) \div BLOCK_LEN = q + (IF L % BLOCK_LEN = 0 THEN 0 ELSE 1)
  BY <1>1 DEF BLOCK_LEN
<1>7. R = [j \in 1 .. q + (IF L % BLOCK_LEN = 0 THEN 0 ELSE 1) |->
             [i \in 1 .. BLOCK_LEN |->
                IF (j - 1) * BLOCK_LEN + i <= L THEN s[(j - 1) * BLOCK_LEN + i] ELSE 0]]
  BY <1>6 DEF Abs!RefPad, Abs!BLOCK_LEN, BLOCK_LEN
<1>8. ASSUME NEW j \in 1 .. q + (IF L % BLOCK_LEN = 0 THEN 0 ELSE 1)
      PROVE  (W \o T)[j] = R[j]
  <2>0. j \in 1 .. Len(W) + Len(T)
    BY <1>2, <1>3
  <2>1. R[j] = [i \in 1 .. BLOCK_LEN |->
                 IF (j - 1) * BLOCK_LEN + i <= L THEN s[(j - 1) * BLOCK_LEN + i] ELSE 0]
    BY <1>7
  <2>2. CASE j <= q
    <3>1. (W \o T)[j] = W[j]
      BY <1>2, <1>5, <2>0, <2>2
    <3>2. W[j] = [i \in 1 .. BLOCK_LEN |-> s[(j - 1) * BLOCK_LEN + i]]
      BY <2>2 DEF WholeBlocks
    <3>3. \A i \in 1 .. BLOCK_LEN : (j - 1) * BLOCK_LEN + i <= L
      BY <1>1, <2>2 DEF BLOCK_LEN
    <3>. QED
      BY <2>1, <3>1, <3>2, <3>3
  <2>3. CASE ~(j <= q)
    <3>1. j = q + 1 /\ L % BLOCK_LEN # 0
      BY <1>1, <2>3
    <3>2. (W \o T)[j] = TailBlock(s)
      BY <1>2, <1>3, <1>5, <2>0, <3>1
    <3>3. Whole(s) = (j - 1) * BLOCK_LEN
      BY <1>1, <3>1 DEF Whole, BLOCK_LEN
    <3>4. TailBlock(s) = [i \in 1 .. BLOCK_LEN |->
                            IF Whole(s) + i <= L THEN s[Whole(s) + i] ELSE 0]
      BY DEF TailBlock
    <3>. QED
      BY <2>1, <3>2, <3>3, <3>4
  <2>. QED
    BY <2>2, <2>3
<1>9. R \in Seq(Block) /\ Len(R) = q + (IF L % BLOCK_LEN = 0 THEN 0 ELSE 1)
  <2>1. \A j \in 1 .. q + (IF L % BLOCK_LEN = 0 THEN 0 ELSE 1) : R[j] \in Block
    BY <1>2, <1>3, <1>5, <1>8, ElementOfSeq
  <2>2. R \in Seq(Block)
    BY <1>1, <1>7, <2>1, IsASeq
  <2>. QED
    BY <1>1, <1>7, <2>2, LenProperties
<1>. QED
  BY <1>2, <1>3, <1>4, <1>5, <1>8, <1>9, SeqEqual

(* gcm_siv_polyval's tag before encryption is the reference value S_s. *)
LEMMA PolyvalMatchesReference ==
  ASSUME NEW auth, NEW n, NEW a \in Bytes, NEW m \in Bytes
  PROVE  PolyvalTagPre(auth, n, a, m) = Abs!RefS(auth, n, a, m)
<1>1. Len(a) \in Nat /\ Len(m) \in Nat
  BY LenProperties DEF Bytes
<1>2. LengthBlock(Len(a), Len(m)) = [aadBits |-> 8 * Len(a), msgBits |-> 8 * Len(m)]
  BY <1>1 DEF LengthBlock
<1>3. PadBlocks(a) \o PadBlocks(m) \o <<LengthBlock(Len(a), Len(m))>>
        = Abs!RefPad(a) \o Abs!RefPad(m) \o <<[aadBits |-> 8 * Len(a), msgBits |-> 8 * Len(m)]>>
  BY <1>2, PadMatchesReference
<1>. QED
  BY <1>3 DEF PolyvalTagPre, NonceMix, Abs!RefS, Abs!Xor, Abs!ClearMsb, Abs!NONCE_LEN,
              Abs!BLOCK_LEN, Abs!CTR_LEN, Xor, ClearMsb, NONCE_LEN, BLOCK_LEN, CTR_LEN

(* The subkeys the portable path derives from the Key's raw bytes. *)
FbAuth(n) == KdfAuth(MasterKey, n)
FbEnc(n) == SubSeq(KdfEncArray(MasterKey, n), 1, get_encryption_key_size(Variant))

LEMMA FallbackKeys ==
  ASSUME AesType, NEW n \in Nonce
  PROVE  /\ FbAuth(n) = Abs!RefAuthKey(MasterKey, n) /\ FbAuth(n) \in Block
         /\ FbEnc(n) = Abs!RefEncKey(MasterKey, n) /\ FbEnc(n) \in EncKey
<1>1. MasterKey \in Bytes
  BY MasterKeyAssumption, BlockIsBytes DEF EncKey
<1>. QED
  BY <1>1, KdfType, KdfMatchesReference DEF FbAuth, FbEnc

(* seal_fallback returns the reference tag and leaves the reference       *)
(* ciphertext in the buffer.                                               *)
LEMMA SealFallbackMatchesReference ==
  ASSUME AesType, PolyvalType, NEW n \in Nonce, NEW a \in Bytes, NEW m \in Bytes
  PROVE  LET tag == Aes(FbEnc(n), PolyvalTagPre(FbAuth(n), n, a, m))
         IN  /\ tag = Abs!RefSeal(n, a, m).tag
             /\ CtrXor(m, 0, Len(m), tag, FbEnc(n)) = Abs!RefSeal(n, a, m).ct
<1> DEFINE tag == Aes(FbEnc(n), PolyvalTagPre(FbAuth(n), n, a, m))
<1>1. FbAuth(n) = Abs!RefAuthKey(MasterKey, n) /\ FbEnc(n) = Abs!RefEncKey(MasterKey, n)
      /\ FbAuth(n) \in Bytes /\ FbEnc(n) \in Bytes
  BY FallbackKeys, BlockIsBytes
<1>2. tag = Abs!RefTag(Abs!RefAuthKey(MasterKey, n), Abs!RefEncKey(MasterKey, n), n, a, m)
  BY <1>1, PolyvalMatchesReference DEF Abs!RefTag
<1>3. tag = Abs!RefSeal(n, a, m).tag
  BY <1>2 DEF Abs!RefSeal
<1>4. tag \in Block
  BY <1>1, PolyvalTagPreType DEF AesType
<1>5. CtrXor(m, 0, Len(m), tag, FbEnc(n)) = Abs!RefCrypt(FbEnc(n), tag, m)
  BY <1>4, SealCryptMatchesReference
<1>6. Abs!RefSeal(n, a, m).ct = Abs!RefCrypt(Abs!RefEncKey(MasterKey, n), tag, m)
  BY <1>2 DEF Abs!RefSeal
<1>. QED
  BY <1>1, <1>3, <1>5, <1>6

-----------------------------------------------------------------------------
(* The open buffer: the ciphertext follows the prefix and the tag ends it. *)
LEMMA OpenBufferParts ==
  ASSUME NEW r \in SealRec, NEW p \in Nat
  PROVE  /\ \A j \in 1 .. Len(r.ct) : OpenBuffer(r, p)[p + j] = r.ct[j]
         /\ TrailingTag(OpenBuffer(r, p)) = r.tag
<1> DEFINE z  == [i \in 1 .. p |-> 0]
           x  == z \o r.ct
           io == x \o r.tag
<1>1. z \in Seq(Byte) /\ Len(z) = p
  <2>1. z \in [1 .. p -> Byte]
    BY DEF Byte, BYTE
  <2>. QED
    BY <2>1, ArrayLen
<1>2. r.ct \in Seq(Byte) /\ Len(r.ct) \in Nat
  BY LenProperties DEF SealRec, Bytes
<1>3. r.tag \in Seq(Byte) /\ Len(r.tag) = TAG_LEN
  <2>1. r.tag \in [1 .. 4 -> Byte]
    BY DEF SealRec, Block, BLOCK_LEN
  <2>. QED
    BY <2>1, ArrayLen DEF TAG_LEN, BLOCK_LEN
<1>4. x \in Seq(Byte) /\ Len(x) = p + Len(r.ct)
      /\ \A i \in 1 .. p + Len(r.ct) : x[i] = IF i <= p THEN z[i] ELSE r.ct[i - p]
  BY <1>1, <1>2, ConcatProperties
<1>5. io \in Seq(Byte) /\ Len(io) = Len(x) + TAG_LEN
      /\ \A i \in 1 .. Len(x) + Len(r.tag) : io[i] = IF i <= Len(x) THEN x[i] ELSE r.tag[i - Len(x)]
  BY <1>3, <1>4, ConcatProperties, Zenon
<1>6. ASSUME NEW j \in 1 .. Len(r.ct) PROVE io[p + j] = r.ct[j]
  <2>1. p + j \in 1 .. Len(x) /\ p + j \in 1 .. Len(x) + Len(r.tag) /\ p + j \in 1 .. p + Len(r.ct)
    BY <1>2, <1>3, <1>4 DEF TAG_LEN, BLOCK_LEN
  <2>2. io[p + j] = x[p + j]
    BY <2>1, <1>5
  <2>3. x[p + j] = r.ct[j]
    BY <2>1, <1>4
  <2>. QED
    BY <2>2, <2>3
<1>7. TrailingTag(io) = r.tag
  <2>a. Len(r.tag) = 4
    BY <1>3 DEF TAG_LEN, BLOCK_LEN
  <2>b. Len(x) \in Nat
    BY <1>2, <1>4
  <2>c. Len(io) = Len(x) + 4
    BY <1>5 DEF TAG_LEN, BLOCK_LEN
  <2>0. Len(io) - TAG_LEN + 1 = Len(x) + 1 /\ Len(io) = Len(x) + Len(r.tag)
    <3> HIDE DEF z, x, io
    <3>. QED
      BY <2>a, <2>b, <2>c DEF TAG_LEN, BLOCK_LEN
  <2>1. TrailingTag(io) = SubSeq(x \o r.tag, Len(x) + 1, Len(x) + Len(r.tag))
    BY <2>0 DEF TrailingTag
  <2>2. Len(x) + 1 \in Len(x) + 1 .. Len(x) + Len(r.tag)
        /\ Len(x) + Len(r.tag) \in Len(x) + 1 .. Len(x) + Len(r.tag)
    BY <1>2, <1>3, <1>4 DEF TAG_LEN, BLOCK_LEN
  <2>3. SubSeq(x \o r.tag, Len(x) + 1, Len(x) + Len(r.tag))
          = SubSeq(r.tag, (Len(x) + 1) - Len(x), (Len(x) + Len(r.tag)) - Len(x))
    BY <1>3, <1>4, <2>2, SubSeqOfConcat2
  <2>4. SubSeq(r.tag, (Len(x) + 1) - Len(x), (Len(x) + Len(r.tag)) - Len(x))
          = SubSeq(r.tag, 1, Len(r.tag))
    BY <1>2, <1>3, <1>4 DEF TAG_LEN, BLOCK_LEN
  <2>. QED
    BY <1>3, <2>1, <2>3, <2>4, SubSeqFull
<1>. QED
  BY <1>6, <1>7 DEF OpenBuffer

(* open_fallback, on the buffer a seal produced behind p prefix bytes,    *)
(* reads the sealed tag from the buffer's end, writes the reference       *)
(* decryption of the ciphertext from offset 0 and recomputes the          *)
(* reference tag over it.                                                  *)
LEMMA OpenFallbackMatchesReference ==
  ASSUME AesType, PolyvalType, NEW r \in SealRec, NEW p \in Nat
  PROVE  LET io  == OpenBuffer(r, p)
             len == Len(io)
             tag == TrailingTag(io)
             io1 == CtrXor(SubSeq(io, 1, len - TAG_LEN), p, len - TAG_LEN - p, tag, FbEnc(r.n))
             pt  == SubSeq(io1, 1, len - TAG_LEN - p)
         IN  /\ tag = r.tag
             /\ pt = Abs!RefOpen(r.n, r.a, r.ct, r.tag).pt
             /\ Aes(FbEnc(r.n), PolyvalTagPre(FbAuth(r.n), r.n, r.a, pt))
                  = Abs!RefOpen(r.n, r.a, r.ct, r.tag).tag
<1> DEFINE io   == OpenBuffer(r, p)
           len  == Len(io)
           tag  == TrailingTag(io)
           enc  == FbEnc(r.n)
           body == SubSeq(io, 1, len - TAG_LEN)
           io1  == CtrXor(body, p, len - TAG_LEN - p, tag, enc)
           pt   == SubSeq(io1, 1, len - TAG_LEN - p)
           L    == Len(r.ct)
           ref  == Abs!RefCrypt(enc, r.tag, r.ct)
<1> HIDE DEF io, tag, enc, body, io1, pt, L, ref
<1>1. tag = r.tag /\ \A j \in 1 .. L : io[p + j] = r.ct[j]
  BY OpenBufferParts DEF io, tag, L
<1>2. io \in Bytes /\ len = p + L + TAG_LEN /\ L \in Nat /\ r.ct \in Bytes /\ r.tag \in Block
      /\ r.n \in Nonce
  BY OpenBufferType, LenProperties DEF SealRec, Bytes, io, L
<1>3. enc = Abs!RefEncKey(MasterKey, r.n) /\ enc \in Bytes
      /\ FbAuth(r.n) = Abs!RefAuthKey(MasterKey, r.n)
  BY <1>2, FallbackKeys, BlockIsBytes DEF enc
<1>4. len - TAG_LEN = p + L /\ len - TAG_LEN - p = L
  BY <1>2 DEF TAG_LEN, BLOCK_LEN
<1>5. body \in Bytes /\ Len(body) = p + L /\ \A i \in 1 .. p + L : body[i] = io[i]
  <2>0. \A i \in 1 .. p + L : i \in 1 .. Len(io)
    BY <1>2 DEF TAG_LEN, BLOCK_LEN
  <2>1. \A i \in 1 .. p + L : io[i] \in Byte
    BY <1>2, <2>0, ElementOfSeq DEF Bytes
  <2>2. p + L \in Int /\ 1 <= p + L + 1
    BY <1>2
  <2>3. body = SubSeq(io, 1, p + L)
    BY <1>4 DEF body
  <2>. QED
    BY <2>1, <2>2, <2>3, SubSeqProperties DEF Bytes
<1>6. io1 \in Bytes /\ Len(io1) = p + L
      /\ \A j \in 1 .. L : io1[j] = Xor(body[j + p], KsByte(enc, tag, j))
  <2>0. tag \in Block /\ L \in Int /\ L + p <= Len(body)
    BY <1>1, <1>2, <1>5
  <2>1. io1 = CtrXor(body, p, L, tag, enc)
    BY <1>4 DEF io1
  <2>2. CtrXor(body, p, L, tag, enc) \in Bytes /\ Len(CtrXor(body, p, L, tag, enc)) = p + L
    BY <1>2, <1>3, <1>5, <2>0, CtrXorType
  <2>3. \A j \in 1 .. L : CtrXor(body, p, L, tag, enc)[j] = Xor(body[j + p], KsByte(enc, tag, j))
    BY <1>2, <1>5 DEF CtrXor
  <2>. QED
    BY <2>1, <2>2, <2>3
<1>7. pt \in Seq(Byte) /\ Len(pt) = L /\ \A j \in 1 .. L : pt[j] = io1[j]
  <2>1. pt = SubSeq(io1, 1, L)
    BY <1>4 DEF pt
  <2>2. \A i \in 1 .. L : io1[i] \in Byte
    BY <1>2, <1>6, ElementOfSeq DEF Bytes
  <2>3. SubSeq(io1, 1, L) \in Seq(Byte) /\ Len(SubSeq(io1, 1, L)) = (IF 1 <= L THEN L - 1 + 1 ELSE 0)
        /\ \A i \in 1 .. L - 1 + 1 : SubSeq(io1, 1, L)[i] = io1[1 + i - 1]
    BY <1>2, <2>2, SubSeqProperties
  <2>. QED
    BY <1>2, <2>1, <2>3
<1>8. ASSUME NEW j \in 1 .. L PROVE pt[j] = ref[j]
  <2>1. pt[j] = Xor(r.ct[j], KsByte(enc, r.tag, j))
    <3>1. j + p \in 1 .. p + L /\ body[j + p] = io[p + j]
      BY <1>2, <1>5
    <3>. QED
      BY <1>1, <1>6, <1>7, <3>1
  <2>2. KsByte(enc, r.tag, j) =
          Aes(enc, Abs!RefCounter(r.tag, (j - 1) \div BLOCK_LEN))[((j - 1) % BLOCK_LEN) + 1]
    BY <1>2, KsByteMatchesReference
  <2>3. ref[j] = Xor(r.ct[j],
          Aes(enc, Abs!RefCounter(r.tag, (j - 1) \div BLOCK_LEN))[((j - 1) % BLOCK_LEN) + 1])
    BY DEF ref, L, Abs!RefCrypt, Abs!Xor, Abs!BLOCK_LEN, Xor, BLOCK_LEN
  <2>. QED
    BY <2>1, <2>2, <2>3
<1>9. pt = ref
  <2>1. ref \in Seq(Byte) /\ Len(ref) = L
    BY <1>2, <1>3, CryptInvolution DEF Bytes, ref, L
  <2>. QED
    BY <1>7, <1>8, <2>1, SeqEqual
<1>10. Abs!RefOpen(r.n, r.a, r.ct, r.tag).pt = ref
  BY <1>3 DEF Abs!RefOpen, ref
<1>11. Aes(enc, PolyvalTagPre(FbAuth(r.n), r.n, r.a, pt)) = Abs!RefOpen(r.n, r.a, r.ct, r.tag).tag
  <2>1. pt \in Bytes /\ r.a \in Bytes
    BY <1>7 DEF Bytes, SealRec
  <2>2. PolyvalTagPre(FbAuth(r.n), r.n, r.a, pt) = Abs!RefS(Abs!RefAuthKey(MasterKey, r.n), r.n, r.a, pt)
    BY <1>3, <2>1, PolyvalMatchesReference
  <2>. QED
    BY <1>3, <1>9, <1>10, <2>2 DEF Abs!RefOpen, Abs!RefTag
<1>. QED
  BY <1>1, <1>9, <1>10, <1>11 DEF io, tag, enc, body, io1, pt

-----------------------------------------------------------------------------
(* The inductive invariant of the portable path.  RoundTrip alone is not   *)
(* inductive: an open round-trips only because the seal it reads holds the *)
(* reference ciphertext and tag, and only because no accelerated seal is   *)
(* half-way through (those steps would otherwise add records to sealed).   *)
AllIdle == \A c \in Calls : pc[c] = "idle"

SealedCorrect ==
  \A r \in sealed : /\ r.ct = Abs!RefSeal(r.n, r.a, r.m).ct
                    /\ r.tag = Abs!RefSeal(r.n, r.a, r.m).tag

FInv == TypeOK /\ AllIdle /\ SealedCorrect /\ RoundTrip

LEMMA FInvInit == Init => FInv
BY InitTypeOK DEF Init, FInv, AllIdle, SealedCorrect, RoundTrip

LEMMA SealFallbackFInv ==
  ASSUME AesType, PolyvalType, FInv,
         NEW n \in Nonces, NEW a \in Aads, NEW m \in Msgs, SealFallback(n, a, m)
  PROVE  FInv'
<1> DEFINE tag == Aes(FbEnc(n), PolyvalTagPre(FbAuth(n), n, a, m))
           rec == [n |-> n, a |-> a, m |-> m, ct |-> CtrXor(m, 0, Len(m), tag, FbEnc(n)),
                   tag |-> tag, auth |-> FbAuth(n), enc |-> FbEnc(n)]
<1>1. TypeOK'
  BY SealFallbackTypeOK DEF FInv
<1>2. sealed' = sealed \cup {rec} /\ UNCHANGED <<pc, opened>>
  BY DEF SealFallback, FbAuth, FbEnc
<1>3. n \in Nonce /\ a \in Bytes /\ m \in Bytes
  BY InputAssumption
<1>4. rec.ct = Abs!RefSeal(n, a, m).ct /\ rec.tag = Abs!RefSeal(n, a, m).tag
  BY <1>3, SealFallbackMatchesReference
<1>5. SealedCorrect'
  BY <1>2, <1>4 DEF FInv, SealedCorrect
<1>. QED
  BY <1>1, <1>2, <1>5 DEF FInv, AllIdle, RoundTrip

LEMMA OpenFallbackFInv ==
  ASSUME AesType, PolyvalType, FInv,
         NEW r \in sealed, NEW p \in Prefixes, OpenFallback(r, p)
  PROVE  FInv'
<1> DEFINE io  == OpenBuffer(r, p)
           len == Len(io)
           tag == TrailingTag(io)
           io1 == CtrXor(SubSeq(io, 1, len - TAG_LEN), p, len - TAG_LEN - p, tag, FbEnc(r.n))
           pt  == SubSeq(io1, 1, len - TAG_LEN - p)
           rec == [n |-> r.n, a |-> r.a, m |-> r.m, ct |-> r.ct, tagIn |-> tag,
                   prefix |-> p, out |-> pt,
                   tag |-> Aes(FbEnc(r.n), PolyvalTagPre(FbAuth(r.n), r.n, r.a, pt)),
                   auth |-> FbAuth(r.n), enc |-> FbEnc(r.n)]
<1>1. TypeOK'
  BY OpenFallbackTypeOK, CallsAssumption DEF FInv
<1>2. opened' = opened \cup {rec} /\ UNCHANGED <<pc, sealed>>
  BY DEF OpenFallback, FbAuth, FbEnc
<1>3. r \in SealRec /\ p \in Nat /\ r.n \in Nonce /\ r.a \in Bytes /\ r.m \in Bytes
  BY CallsAssumption DEF FInv, TypeOK, SealRec
<1>4. /\ tag = r.tag
      /\ pt = Abs!RefCrypt(Abs!RefEncKey(MasterKey, r.n), r.tag, r.ct)
  BY <1>3, OpenFallbackMatchesReference DEF Abs!RefOpen
<1>5. /\ r.ct = Abs!RefCrypt(Abs!RefEncKey(MasterKey, r.n), r.tag, r.m)
      /\ r.tag = Aes(FbEnc(r.n), PolyvalTagPre(FbAuth(r.n), r.n, r.a, r.m))
  <2>1. r.ct = Abs!RefSeal(r.n, r.a, r.m).ct /\ r.tag = Abs!RefSeal(r.n, r.a, r.m).tag
    BY DEF FInv, SealedCorrect
  <2>2. r.tag = Aes(FbEnc(r.n), PolyvalTagPre(FbAuth(r.n), r.n, r.a, r.m))
    BY <1>3, <2>1, SealFallbackMatchesReference
  <2>3. Abs!RefSeal(r.n, r.a, r.m).ct
          = Abs!RefCrypt(Abs!RefEncKey(MasterKey, r.n), Abs!RefSeal(r.n, r.a, r.m).tag, r.m)
    BY DEF Abs!RefSeal
  <2>. QED
    BY <2>1, <2>2, <2>3
<1>6. pt = r.m
  <2>1. Abs!RefEncKey(MasterKey, r.n) \in Bytes /\ r.tag \in Block
    BY <1>3, FallbackKeys, BlockIsBytes DEF SealRec
  <2>. QED
    BY <1>3, <1>4, <1>5, <2>1, CryptInvolution
<1>7. rec.out = rec.m /\ rec.tag = rec.tagIn
  BY <1>4, <1>5, <1>6
<1>8. RoundTrip'
  BY <1>2, <1>7 DEF FInv, RoundTrip
<1>. QED
  BY <1>1, <1>2, <1>8 DEF FInv, AllIdle, SealedCorrect

(* On the portable path no accelerated step is enabled: every caller is   *)
(* idle, and aes_gcm_siv_seal / aes_gcm_siv_open dispatch to seal_fallback *)
(* and open_fallback.                                                      *)
LEMMA FInvStep ==
  ASSUME AesType, PolyvalType, Path = "FALLBACK"
  PROVE  FInv /\ [Next]_vars => FInv'
<1> SUFFICES ASSUME FInv, [Next]_vars PROVE FInv'
  OBVIOUS
<1>1. ASSUME NEW c \in Calls, NEW n \in Nonces, NEW a \in Aads, NEW m \in Msgs,
             SealDispatch(c, n, a, m)
      PROVE  FInv'
  BY <1>1, SealFallbackFInv DEF SealDispatch
<1>2. ASSUME NEW r \in sealed, NEW p \in Prefixes, OpenDispatch(r, p)
      PROVE  FInv'
  BY <1>2, OpenFallbackFInv DEF OpenDispatch
<1>3. ASSUME NEW c \in Calls,
             \/ SealAccelKsEnc(c) \/ SealAccelEncMsg(c)
             \/ SealAccelLastBlock(c) \/ SealAccelReturn(c)
      PROVE  FALSE
  BY <1>3 DEF FInv, AllIdle, SealAccelKsEnc, SealAccelEncMsg, SealAccelLastBlock,
              SealAccelReturn
<1>4. CASE UNCHANGED vars
  <2>1. TypeOK'
    BY <1>4 DEF vars, FInv, TypeOK, EncKey, PCs, Local, SealRec, OpenRec
  <2>. QED
    BY <1>4, <2>1 DEF vars, FInv, AllIdle, SealedCorrect, RoundTrip
<1>. QED
  BY <1>1, <1>2, <1>3, <1>4 DEF Next

(* Every open of a sealed ciphertext through the portable path writes the *)
(* sealed plaintext from offset 0 and returns the sealed tag, for every    *)
(* key, variant, input, prefix and number of calls (spec.md 8.1): what     *)
(* seal_fallback writes, open_fallback undoes.                             *)
THEOREM FallbackRoundTrip ==
  ASSUME AesType, PolyvalType, Path = "FALLBACK"
  PROVE  Spec => []RoundTrip
<1>1. Init => FInv
  BY FInvInit
<1>2. FInv /\ [Next]_vars => FInv'
  BY FInvStep
<1>3. FInv => RoundTrip
  BY DEF FInv
<1>. QED
  BY <1>1, <1>2, <1>3, PTL DEF Spec

-----------------------------------------------------------------------------
(* The refinement: the projections of sealed and opened start empty and   *)
(* every portable step adds exactly the record AeadSpec's SealA or OpenA  *)
(* adds.                                                                   *)
LEMMA FallbackInitA == Init => Abs!InitA
BY DEF Init, Abs!InitA

LEMMA FallbackStepA ==
  ASSUME AesType, PolyvalType, Path = "FALLBACK"
  PROVE  FInv /\ [Next]_vars => [Abs!NextA]_Abs!varsA
<1> SUFFICES ASSUME FInv, [Next]_vars PROVE [Abs!NextA]_Abs!varsA
  OBVIOUS
<1> DEFINE projS(r) == [n |-> r.n, a |-> r.a, m |-> r.m, ct |-> r.ct, tag |-> r.tag]
           projO(r) == [n |-> r.n, a |-> r.a, ct |-> r.ct, tagIn |-> r.tagIn,
                        out |-> r.out, tag |-> r.tag]
<1>1. ASSUME NEW c \in Calls, NEW n \in Nonces, NEW a \in Aads, NEW m \in Msgs,
             SealDispatch(c, n, a, m)
      PROVE  Abs!SealA(n, a, m)
  <2> DEFINE tag == Aes(FbEnc(n), PolyvalTagPre(FbAuth(n), n, a, m))
             rec == [n |-> n, a |-> a, m |-> m, ct |-> CtrXor(m, 0, Len(m), tag, FbEnc(n)),
                     tag |-> tag, auth |-> FbAuth(n), enc |-> FbEnc(n)]
  <2>1. sealed' = sealed \cup {rec} /\ UNCHANGED opened
    BY <1>1 DEF SealDispatch, SealFallback, FbAuth, FbEnc
  <2>2. rec.ct = Abs!RefSeal(n, a, m).ct /\ rec.tag = Abs!RefSeal(n, a, m).tag
    BY InputAssumption, SealFallbackMatchesReference
  <2>3. {projS(r) : r \in sealed'} = {projS(r) : r \in sealed} \cup {projS(rec)}
    BY <2>1
  <2>. QED
    BY <2>1, <2>2, <2>3 DEF Abs!SealA
<1>2. ASSUME NEW r \in sealed, NEW p \in Prefixes, OpenDispatch(r, p)
      PROVE  Abs!OpenA(projS(r))
  <2> DEFINE io  == OpenBuffer(r, p)
             len == Len(io)
             tag == TrailingTag(io)
             io1 == CtrXor(SubSeq(io, 1, len - TAG_LEN), p, len - TAG_LEN - p, tag, FbEnc(r.n))
             pt  == SubSeq(io1, 1, len - TAG_LEN - p)
             rec == [n |-> r.n, a |-> r.a, m |-> r.m, ct |-> r.ct, tagIn |-> tag,
                     prefix |-> p, out |-> pt,
                     tag |-> Aes(FbEnc(r.n), PolyvalTagPre(FbAuth(r.n), r.n, r.a, pt)),
                     auth |-> FbAuth(r.n), enc |-> FbEnc(r.n)]
  <2>1. opened' = opened \cup {rec} /\ UNCHANGED sealed
    BY <1>2 DEF OpenDispatch, OpenFallback, FbAuth, FbEnc
  <2>2. /\ tag = r.tag
        /\ pt = Abs!RefOpen(r.n, r.a, r.ct, r.tag).pt
        /\ rec.tag = Abs!RefOpen(r.n, r.a, r.ct, r.tag).tag
    <3>1. r \in SealRec /\ p \in Nat
      BY CallsAssumption DEF FInv, TypeOK
    <3>. QED
      BY <3>1, OpenFallbackMatchesReference
  <2>3. {projO(o) : o \in opened'} = {projO(o) : o \in opened} \cup {projO(rec)}
    BY <2>1
  <2>4. projS(r) \in {projS(s) : s \in sealed}
    OBVIOUS
  <2>. QED
    BY <2>1, <2>2, <2>3, <2>4 DEF Abs!OpenA
<1>3. ASSUME NEW c \in Calls,
             \/ SealAccelKsEnc(c) \/ SealAccelEncMsg(c)
             \/ SealAccelLastBlock(c) \/ SealAccelReturn(c)
      PROVE  FALSE
  BY <1>3 DEF FInv, AllIdle, SealAccelKsEnc, SealAccelEncMsg, SealAccelLastBlock,
              SealAccelReturn
<1>4. CASE UNCHANGED vars
  BY <1>4 DEF vars, Abs!varsA
<1>. QED
  <2>1. ASSUME NEW r \in sealed, NEW p \in Prefixes, OpenDispatch(r, p)
        PROVE  Abs!NextA
    BY <1>2, <2>1 DEF Abs!NextA
  <2>2. ASSUME NEW c \in Calls, NEW n \in Nonces, NEW a \in Aads, NEW m \in Msgs,
               SealDispatch(c, n, a, m)
        PROVE  Abs!NextA
    BY <1>1, <2>2 DEF Abs!NextA
  <2>. QED
    BY <1>3, <1>4, <2>1, <2>2 DEF Next

(* The portable path implements AeadSpec: seal_fallback and open_fallback *)
(* behave as the abstract AEAD under the long-term key, for every value of *)
(* the constants, because they read nothing but the Key's raw bytes.      *)
THEOREM FallbackRefinement ==
  ASSUME AesType, PolyvalType, Path = "FALLBACK"
  PROVE  Spec => AeadRefinement
<1>1. Init => FInv /\ Abs!InitA
  BY FInvInit, FallbackInitA
<1>2. FInv /\ [Next]_vars => FInv'
  BY FInvStep
<1>3. FInv /\ [Next]_vars => [Abs!NextA]_Abs!varsA
  BY FallbackStepA
<1>. QED
  BY <1>1, <1>2, <1>3, PTL DEF Spec, AeadRefinement, Abs!SpecA
=============================================================================
