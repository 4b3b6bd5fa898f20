--------------------------- MODULE AesGcmSivProofs ---------------------------
(***************************************************************************)
(* Proofs about AesGcmSiv for every value of the constants.                *)
(*                                                                         *)
(* The external primitives are only assumed to return blocks (AesType,     *)
(* PolyvalType); nothing else is assumed of them.                          *)
(***************************************************************************)
EXTENDS AesGcmSiv, SequenceTheorems, TLAPS

(* The arithmetic on bytes never leaves the byte range. *)
LEMMA XorType ==
  ASSUME NEW a \in Int, NEW b \in Int
  PROVE  Xor(a, b) \in Byte
BY DEF Xor, Byte, BYTE

LEMMA MsbType ==
  ASSUME NEW x \in Int
  PROVE  SetMsb(x) \in Byte /\ ClearMsb(x) \in Byte
BY DEF SetMsb, ClearMsb, Byte, BYTE

LEMMA KeyLenFacts ==
  /\ KeyLen(Variant) \in {BLOCK_LEN, 2 * BLOCK_LEN}
  /\ get_encryption_key_size(Variant) = KeyLen(Variant)
BY VariantAssumption DEF KeyLen, get_encryption_key_size, BLOCK_LEN

(* A counter block derived from a block is a block. *)
LEMMA CtrBlockType ==
  ASSUME NEW tag \in Block, NEW j \in Nat
  PROVE  CtrBlock(tag, j) \in Block
<1> DEFINE c == [tag EXCEPT ![BLOCK_LEN] = SetMsb(@)]
           v == (CtrValue(c) + j) % U32
<1>1. c \in Block
  BY MsbType DEF Block, Byte, BYTE, BLOCK_LEN
<1>2. v \in 0 .. U32 - 1
  BY <1>1 DEF CtrValue, Block, Byte, BYTE, U32, BLOCK_LEN
<1>3. v % BYTE \in Byte /\ v \div BYTE \in Byte
  BY <1>2 DEF Byte, BYTE, U32
<1>. QED
  BY <1>1, <1>3 DEF CtrBlock, Block, BLOCK_LEN

(* Fixed-length arrays of bytes are byte strings, and back. *)
LEMMA ArrayIsSeq ==
  ASSUME NEW n \in Nat, NEW S
  PROVE  [1 .. n -> S] \subseteq Seq(S)
BY SeqDef

LEMMA SeqIsArray ==
  ASSUME NEW S, NEW s \in Seq(S), NEW n \in Nat, Len(s) = n
  PROVE  s \in [1 .. n -> S]
BY LenProperties

LEMMA ArrayLen ==
  ASSUME NEW S, NEW n \in Nat, NEW s \in [1 .. n -> S]
  PROVE  s \in Seq(S) /\ Len(s) = n
<1>1. s \in Seq(S)
  BY ArrayIsSeq
<1>2. DOMAIN s = 1 .. Len(s) /\ Len(s) \in Nat
  BY <1>1, LenProperties
<1>. QED
  BY <1>1, <1>2

LEMMA NonceArray == Nonce = [1 .. 2 -> Byte]
BY DEF Nonce, NONCE_LEN, BLOCK_LEN, CTR_LEN

LEMMA BlockIsBytes == Block \subseteq Bytes /\ Nonce \subseteq Bytes /\ EncKey \subseteq Bytes
<1>1. Block \subseteq Bytes
  BY ArrayIsSeq DEF Block, Bytes, BLOCK_LEN
<1>2. Nonce \subseteq Bytes
  BY NonceArray, ArrayIsSeq DEF Bytes
<1>3. KeyLen(Variant) \in Nat
  BY KeyLenFacts DEF BLOCK_LEN
<1>4. EncKey \subseteq Bytes
  BY <1>3, ArrayIsSeq DEF EncKey, Bytes
<1>. QED
  BY <1>1, <1>2, <1>4

(* The KDF input block of counter j < 16 and nonce n is a block. *)
LEMMA KdfInputType ==
  ASSUME NEW j \in 0 .. 15, NEW n \in Nonce
  PROVE  <<j % BYTE, j \div BYTE>> \o n \in Block
<1> DEFINE t == <<j % BYTE, j \div BYTE>>
<1>1. t \in Seq(Byte) /\ Len(t) = 2
  BY DEF Byte, BYTE
<1>2. n \in [1 .. 2 -> Byte]
  BY NonceArray
<1>3. n \in Seq(Byte) /\ Len(n) = 2
  BY <1>2, ArrayLen
<1>4. t \o n \in Seq(Byte) /\ Len(t \o n) = Len(t) + Len(n)
  BY <1>1, <1>3, ConcatProperties
<1>5. Len(t \o n) = 4
  BY <1>1, <1>3, <1>4
<1>. QED
  BY <1>4, <1>5, SeqIsArray DEF Block, BLOCK_LEN

(* The KDF's key stream, up to three blocks of key material, is bytes. *)
LEMMA KdfStreamType ==
  ASSUME AesType, NEW k \in Bytes, NEW n \in Nonce, NEW len \in 0 .. 3 * BLOCK_LEN
  PROVE  KdfStream(k, n, len) \in [1 .. len -> Byte]
<1> SUFFICES ASSUME NEW i \in 1 .. len
             PROVE  Aes(k, <<((i - 1) \div HALF) % BYTE, ((i - 1) \div HALF) \div BYTE>> \o n)
                       [((i - 1) % HALF) + 1] \in Byte
  BY DEF KdfStream
<1>1. (i - 1) \div HALF \in 0 .. 15
  BY DEF HALF, BLOCK_LEN
<1>2. Aes(k, <<((i - 1) \div HALF) % BYTE, ((i - 1) \div HALF) \div BYTE>> \o n) \in Block
  BY <1>1, KdfInputType DEF AesType
<1>. QED
  BY <1>2 DEF Block, HALF, BLOCK_LEN

LEMMA KdfType ==
  ASSUME AesType, NEW k \in Bytes, NEW n \in Nonce
  PROVE  /\ KdfAuth(k, n) \in Block
         /\ KdfEnc(k, n) \in EncKey
         /\ KdfEncArray(k, n) \in [1 .. 2 * BLOCK_LEN -> Byte]
         /\ SubSeq(KdfEncArray(k, n), 1, get_encryption_key_size(Variant)) \in EncKey
<1>1. KdfAuth(k, n) \in Block
  BY KdfStreamType DEF KdfAuth, Block, BLOCK_LEN
<1>2. KdfStream(k, n, BLOCK_LEN + KeyLen(Variant)) \in [1 .. BLOCK_LEN + KeyLen(Variant) -> Byte]
  <2>1. BLOCK_LEN + KeyLen(Variant) \in 0 .. 3 * BLOCK_LEN
    BY KeyLenFacts DEF BLOCK_LEN
  <2>. QED
    BY <2>1, KdfStreamType
<1>3. KdfEnc(k, n) \in EncKey
  BY <1>2, KeyLenFacts DEF KdfEnc, EncKey, BLOCK_LEN
<1>4. KdfEncArray(k, n) \in [1 .. 2 * BLOCK_LEN -> Byte]
  BY <1>3, KeyLenFacts DEF KdfEncArray, EncKey, Byte, BYTE, BLOCK_LEN
<1>5. SubSeq(KdfEncArray(k, n), 1, get_encryption_key_size(Variant)) \in EncKey
  <2> DEFINE arr == KdfEncArray(k, n)
             sz == get_encryption_key_size(Variant)
  <2>1. \A i \in 1 .. sz : arr[i] \in Byte
    BY <1>4, KeyLenFacts DEF BLOCK_LEN
  <2>2. SubSeq(arr, 1, sz) \in Seq(Byte) /\ Len(SubSeq(arr, 1, sz)) = sz
    BY <2>1, KeyLenFacts, SubSeqProperties DEF BLOCK_LEN
  <2>. QED
    BY <2>2, KeyLenFacts, LenProperties DEF EncKey
<1>. QED
  BY <1>1, <1>3, <1>4, <1>5

-----------------------------------------------------------------------------
(* What POLYVAL absorbs is a sequence of blocks and length blocks. *)

LEMMA WholeBlocksType ==
  ASSUME NEW s \in Bytes, NEW k \in Nat, k * BLOCK_LEN <= Len(s)
  PROVE  WholeBlocks(s, k) \in Seq(Block)
<1>1. \A j \in 1 .. k, i \in 1 .. BLOCK_LEN : (j - 1) * BLOCK_LEN + i \in 1 .. Len(s)
  BY DEF BLOCK_LEN
<1>2. \A j \in 1 .. k : [i \in 1 .. BLOCK_LEN |-> s[(j - 1) * BLOCK_LEN + i]] \in Block
  BY <1>1, ElementOfSeq DEF Block, Bytes
<1>. QED
  BY <1>2, IsASeq DEF WholeBlocks

LEMMA TailBlockType ==
  ASSUME NEW s \in Bytes
  PROVE  TailBlock(s) \in Block
<1>1. Whole(s) \in Nat
  BY LenProperties DEF Whole, Bytes, BLOCK_LEN
<1>2. \A i \in 1 .. BLOCK_LEN : Whole(s) + i <= Len(s) => Whole(s) + i \in 1 .. Len(s)
  BY <1>1, LenProperties DEF Bytes
<1>. QED
  BY <1>2, ElementOfSeq DEF TailBlock, Block, Bytes, Byte, BYTE

LEMMA AbsorbedBlocks ==
  ASSUME NEW bs \in Seq(Block)
  PROVE  bs \in Seq(Absorbed)
BY SeqMonotonic DEF Absorbed

LEMMA PadBlocksType ==
  ASSUME NEW s \in Bytes
  PROVE  PadBlocks(s) \in Seq(Absorbed)
<1>1. WholeBlocks(s, Len(s) \div BLOCK_LEN) \in Seq(Block)
  <2>1. Len(s) \div BLOCK_LEN \in Nat /\ (Len(s) \div BLOCK_LEN) * BLOCK_LEN <= Len(s)
    BY LenProperties DEF Bytes, BLOCK_LEN
  <2>. QED
    BY <2>1, WholeBlocksType
<1>2. (IF Len(s) % BLOCK_LEN = 0 THEN <<>> ELSE <<TailBlock(s)>>) \in Seq(Block)
  BY TailBlockType
<1>3. PadBlocks(s) \in Seq(Block)
  BY <1>1, <1>2, ConcatProperties DEF PadBlocks
<1>. QED
  BY <1>3, AbsorbedBlocks

LEMMA LengthBlockType ==
  ASSUME NEW x \in Nat, NEW y \in Nat
  PROVE  <<LengthBlock(x, y)>> \in Seq(Absorbed)
BY DEF LengthBlock, LenBlock, Absorbed

LEMMA NonceMixType ==
  ASSUME NEW v \in Block, NEW n \in Nonce
  PROVE  NonceMix(v, n) \in Block
<1>1. \A i \in 1 .. NONCE_LEN : v[i] \in Int /\ n[i] \in Int
  BY NonceArray DEF Block, Byte, BYTE, NONCE_LEN, BLOCK_LEN, CTR_LEN
<1>. QED
  BY <1>1, XorType, MsbType DEF NonceMix, Block, Byte, BYTE, BLOCK_LEN

(* The tag before its encryption is a block whatever is hashed. *)
LEMMA PolyvalTagPreType ==
  ASSUME PolyvalType, NEW auth \in Bytes, NEW n \in Nonce,
         NEW a \in Bytes, NEW m \in Bytes
  PROVE  PolyvalTagPre(auth, n, a, m) \in Block
<1>1. PadBlocks(a) \o PadBlocks(m) \o <<LengthBlock(Len(a), Len(m))>> \in Seq(Absorbed)
  <2>1. Len(a) \in Nat /\ Len(m) \in Nat
    BY LenProperties DEF Bytes
  <2>. QED
    BY <2>1, PadBlocksType, LengthBlockType, ConcatProperties
<1>2. Polyval(auth, PadBlocks(a) \o PadBlocks(m) \o <<LengthBlock(Len(a), Len(m))>>) \in Block
  BY <1>1 DEF PolyvalType
<1>. QED
  BY <1>2, NonceMixType DEF PolyvalTagPre

-----------------------------------------------------------------------------
(* The in-place passes over the buffer keep it a byte string of the same  *)
(* length, as long as every byte they read lies inside it.                 *)

LEMMA KsByteType ==
  ASSUME AesType, NEW k \in Bytes, NEW tag \in Block, NEW i \in Nat \ {0}
  PROVE  KsByte(k, tag, i) \in Byte
<1>1. CtrBlock(tag, (i - 1) \div BLOCK_LEN) \in Block
  <2>1. (i - 1) \div BLOCK_LEN \in Nat
    BY DEF BLOCK_LEN
  <2>. QED
    BY <2>1, CtrBlockType
<1>2. Aes(k, CtrBlock(tag, (i - 1) \div BLOCK_LEN)) \in Block
  BY <1>1 DEF AesType
<1>. QED
  BY <1>2 DEF KsByte, Block, BLOCK_LEN

LEMMA CtrXorType ==
  ASSUME AesType, NEW io \in Bytes, NEW prefix \in Nat, NEW nbytes \in Int,
         nbytes + prefix <= Len(io), NEW tag \in Block, NEW k \in Bytes
  PROVE  CtrXor(io, prefix, nbytes, tag, k) \in Bytes
         /\ Len(CtrXor(io, prefix, nbytes, tag, k)) = Len(io)
<1>1. Len(io) \in Nat
  BY LenProperties DEF Bytes
<1>2. ASSUME NEW j \in 1 .. Len(io)
      PROVE  (IF j <= nbytes THEN Xor(io[j + prefix], KsByte(k, tag, j)) ELSE io[j]) \in Byte
  <2>1. CASE j <= nbytes
    <3>1. io[j + prefix] \in Byte
      BY <1>1, <2>1, ElementOfSeq DEF Bytes
    <3>2. KsByte(k, tag, j) \in Byte
      BY KsByteType
    <3>. QED
      BY <2>1, <3>1, <3>2, XorType DEF Byte, BYTE
  <2>2. CASE ~(j <= nbytes)
    BY <2>2, ElementOfSeq DEF Bytes
  <2>. QED
    BY <2>1, <2>2
<1>3. CtrXor(io, prefix, nbytes, tag, k) \in Seq(Byte)
  BY <1>1, <1>2, IsASeq DEF CtrXor
<1>. QED
  BY <1>1, <1>3 DEF CtrXor, Bytes

LEMMA CryptLastBlockType ==
  ASSUME AesType, NEW io \in Bytes, NEW prefix \in Nat, NEW len \in Nat,
         len + prefix <= Len(io), NEW tag \in Block, NEW k \in Bytes
  PROVE  CryptLastBlock(tag, io, k, len, prefix) \in Bytes
         /\ Len(CryptLastBlock(tag, io, k, len, prefix)) = Len(io)
<1> DEFINE ks  == Aes(k, CtrBlock(tag, len \div BLOCK_LEN))
           off == (len - (len % BLOCK_LEN)) + prefix
           rem == len % BLOCK_LEN
<1>1. Len(io) \in Nat
  BY LenProperties DEF Bytes
<1>2. ks \in Block
  <2>1. len \div BLOCK_LEN \in Nat
    BY DEF BLOCK_LEN
  <2>. QED
    BY <2>1, CtrBlockType DEF AesType
<1>3. ASSUME NEW j \in 1 .. Len(io)
      PROVE  (IF off - prefix < j /\ j <= off - prefix + rem
              THEN Xor(io[j + prefix], ks[j + prefix - off]) ELSE io[j]) \in Byte
  <2>1. CASE off - prefix < j /\ j <= off - prefix + rem
    <3>1. j + prefix \in 1 .. Len(io) /\ j + prefix - off \in 1 .. BLOCK_LEN
      BY <1>1, <2>1 DEF BLOCK_LEN
    <3>2. io[j + prefix] \in Byte /\ ks[j + prefix - off] \in Byte
      BY <3>1, <1>2, ElementOfSeq DEF Bytes, Block
    <3>. QED
      BY <2>1, <3>2, XorType DEF Byte, BYTE
  <2>2. CASE ~(off - prefix < j /\ j <= off - prefix + rem)
    BY <2>2, ElementOfSeq DEF Bytes
  <2>. QED
    BY <2>1, <2>2
<1>4. CryptLastBlock(tag, io, k, len, prefix) \in Seq(Byte)
  BY <1>1, <1>3, IsASeq DEF CryptLastBlock
<1>. QED
  BY <1>1, <1>4 DEF CryptLastBlock, Bytes

(* Reduction modulo the 32-bit width never increases a count. *)
LEMMA ModBound == \A k \in Nat : k % U32 \in 0 .. k
<1> SUFFICES ASSUME NEW k \in Nat PROVE k % 16 \in 0 .. k
  BY DEF U32, BYTE
<1>1. CASE k < 16
  BY <1>1
<1>2. CASE k >= 16
  BY <1>2
<1>. QED
  BY <1>1, <1>2

(* (len / BLOCK_LEN) as libc::c_uint whole blocks lie inside the buffer. *)
LEMMA TruncatedBlockCount ==
  ASSUME NEW x \in Nat
  PROVE  /\ (x \div BLOCK_LEN) % U32 \in Nat
         /\ ((x \div BLOCK_LEN) % U32) * BLOCK_LEN <= x
<1>1. x \div BLOCK_LEN \in Nat /\ (x \div BLOCK_LEN) * BLOCK_LEN <= x
  BY DEF BLOCK_LEN
<1>2. (x \div BLOCK_LEN) % U32 \in 0 .. x \div BLOCK_LEN
  BY <1>1, ModBound
<1>. QED
  BY <1>1, <1>2 DEF BLOCK_LEN

(* (len as libc::c_uint) rounded down to whole blocks lies inside len. *)
LEMMA TruncatedWhole ==
  ASSUME NEW x \in Nat
  PROVE  LET d == (x % U32) - ((x % U32) % BLOCK_LEN)
         IN  d \in 0 .. x /\ (d \div BLOCK_LEN) \in Nat /\ (d \div BLOCK_LEN) * BLOCK_LEN <= d
<1>1. x % U32 \in 0 .. x
  BY ModBound
<1>. QED
  BY <1>1 DEF BLOCK_LEN

LEMMA WholeBound ==
  ASSUME NEW s \in Bytes
  PROVE  Whole(s) \in 0 .. Len(s)
<1>1. Len(s) \in Nat
  BY LenProperties DEF Bytes
<1>. QED
  BY <1>1 DEF Whole, BLOCK_LEN

LEMMA SubSeqBytes ==
  ASSUME NEW io \in Bytes, NEW m \in Nat \ {0}, NEW n \in Int, n <= Len(io), m <= n + 1
  PROVE  SubSeq(io, m, n) \in Bytes /\ Len(SubSeq(io, m, n)) = n - m + 1
<1>1. \A i \in m .. n : io[i] \in Byte
  BY ElementOfSeq DEF Bytes
<1>. QED
  BY <1>1, SubSeqProperties DEF Bytes

(* The last block of a buffer of at least one block is a block. *)
LEMMA LastBlockType ==
  ASSUME NEW io \in Bytes, Len(io) >= TAG_LEN
  PROVE  SubSeq(io, Len(io) - TAG_LEN + 1, Len(io)) \in Block
<1>1. SubSeq(io, Len(io) - TAG_LEN + 1, Len(io)) \in Seq(Byte)
      /\ Len(SubSeq(io, Len(io) - TAG_LEN + 1, Len(io))) = BLOCK_LEN
  BY SubSeqBytes, LenProperties DEF Bytes, TAG_LEN, BLOCK_LEN
<1>. QED
  BY <1>1, SeqIsArray DEF Block, BLOCK_LEN

(* The buffer an open is given: prefix, ciphertext and tag. *)
LEMMA OpenBufferType ==
  ASSUME NEW r \in SealRec, NEW p \in Nat
  PROVE  /\ OpenBuffer(r, p) \in Bytes
         /\ Len(OpenBuffer(r, p)) = p + Len(r.ct) + TAG_LEN
<1>1. [i \in 1 .. p |-> 0] \in Seq(Byte) /\ Len([i \in 1 .. p |-> 0]) = p
  <2>1. [i \in 1 .. p |-> 0] \in [1 .. p -> Byte]
    BY DEF Byte, BYTE
  <2>. QED
    BY <2>1, ArrayLen
<1>2. r.ct \in Seq(Byte) /\ Len(r.ct) \in Nat
  BY LenProperties DEF SealRec, Bytes
<1>3. r.tag \in Seq(Byte) /\ Len(r.tag) = TAG_LEN
  <2>1. r.tag \in [1 .. 4 -> Byte]
    BY DEF SealRec, Block, BLOCK_LEN
  <2>. QED
    BY <2>1, ArrayLen DEF TAG_LEN, BLOCK_LEN
<1> DEFINE z == [i \in 1 .. p |-> 0]
           x == z \o r.ct
<1>4. x \in Seq(Byte) /\ Len(x) = p + Len(r.ct)
  BY <1>1, <1>2, ConcatProperties
<1>5. x \o r.tag \in Seq(Byte) /\ Len(x \o r.tag) = Len(x) + Len(r.tag)
  BY <1>3, <1>4, ConcatProperties, Zenon
<1>6. Len(x \o r.tag) = p + Len(r.ct) + TAG_LEN
  BY <1>2, <1>3, <1>4, <1>5 DEF TAG_LEN, BLOCK_LEN
<1>. QED
  BY <1>5, <1>6 DEF OpenBuffer, Bytes

-----------------------------------------------------------------------------
(* Every action keeps TypeOK. *)

LEMMA InitTypeOK == Init => TypeOK
<1> SUFFICES ASSUME Init PROVE TypeOK
  OBVIOUS
<1>1. [n |-> [i \in 1 .. NONCE_LEN |-> 0], a |-> <<>>, m |-> <<>>,
       buf |-> <<>>, auth |-> [i \in 1 .. BLOCK_LEN |-> 0],
       enc |-> [i \in 1 .. KeyLen(Variant) |-> 0],
       tag |-> [i \in 1 .. BLOCK_LEN |-> 0]] \in Local
  BY DEF Local, Nonce, Block, EncKey, Bytes, Byte, BYTE
<1>2. loc \in [Calls -> Local]
  BY <1>1 DEF Init
<1>3. pc \in [Calls -> PCs]
  BY DEF Init, PCs
<1>4. asmKey \in EncKey /\ ops \in 0 .. MaxOps
  BY MasterKeyAssumption, CallsAssumption DEF Init, EncKey
<1>. QED
  BY <1>2, <1>3, <1>4 DEF Init, TypeOK

LEMMA SealFallbackTypeOK ==
  ASSUME AesType, PolyvalType, TypeOK,
         NEW n \in Nonces, NEW a \in Aads, NEW m \in Msgs, SealFallback(n, a, m)
  PROVE  TypeOK'
<1> DEFINE auth == KdfAuth(MasterKey, n)
           enc  == SubSeq(KdfEncArray(MasterKey, n), 1, get_encryption_key_size(Variant))
           tag  == Aes(enc, PolyvalTagPre(auth, n, a, m))
<1>1. n \in Nonce /\ a \in Bytes /\ m \in Bytes /\ MasterKey \in Bytes
  BY InputAssumption, MasterKeyAssumption, BlockIsBytes DEF EncKey
<1>2. auth \in Block /\ enc \in EncKey
  BY <1>1, KdfType
<1>3. tag \in Block
  BY <1>1, <1>2, BlockIsBytes, PolyvalTagPreType DEF AesType
<1>4. CtrXor(m, 0, Len(m), tag, enc) \in Bytes
  <2>1. Len(m) \in Int /\ Len(m) + 0 <= Len(m) /\ 0 \in Nat
    BY <1>1, LenProperties DEF Bytes
  <2>2. enc \in Bytes
    BY <1>2, BlockIsBytes
  <2>. QED
    BY <1>1, <1>3, <2>1, <2>2, CtrXorType, Zenon
<1> DEFINE rec == [n |-> n, a |-> a, m |-> m, ct |-> CtrXor(m, 0, Len(m), tag, enc),
                   tag |-> tag, auth |-> auth, enc |-> enc]
<1>5. rec \in SealRec
  BY <1>1, <1>2, <1>3, <1>4 DEF SealRec
<1>6. sealed' = sealed \cup {rec}
  BY DEF SealFallback
<1>7. ops' \in 0 .. MaxOps
  BY CallsAssumption DEF SealFallback, TypeOK
<1>. QED
  BY <1>5, <1>6, <1>7 DEF SealFallback, TypeOK

LEMMA SealAccelKdfTypeOK ==
  ASSUME AesType, PolyvalType, TypeOK, NEW c \in Calls,
         NEW n \in Nonces, NEW a \in Aads, NEW m \in Msgs, SealAccelKdf(c, n, a, m)
  PROVE  TypeOK'
<1> DEFINE auth == KdfAuth(asmKey, n)
           enc  == KdfEnc(asmKey, n)
           rec  == [n |-> n, a |-> a, m |-> m, buf |-> m, auth |-> auth,
                    enc |-> enc, tag |-> PolyvalTagPre(auth, n, a, m)]
<1>1. n \in Nonce /\ a \in Bytes /\ m \in Bytes /\ asmKey \in Bytes
  BY InputAssumption, BlockIsBytes DEF TypeOK
<1>2. auth \in Block /\ enc \in EncKey
  BY <1>1, KdfType
<1>3. PolyvalTagPre(auth, n, a, m) \in Block
  BY <1>1, <1>2, BlockIsBytes, PolyvalTagPreType
<1>4. rec \in Local
  BY <1>1, <1>2, <1>3 DEF Local
<1>5. loc' = [loc EXCEPT ![c] = rec] /\ pc' = [pc EXCEPT ![c] = "ks_enc"]
  BY DEF SealAccelKdf
<1>6. ops' \in 0 .. MaxOps
  BY CallsAssumption DEF SealAccelKdf, TypeOK
<1>. QED
  BY <1>4, <1>5, <1>6 DEF SealAccelKdf, TypeOK, PCs

LEMMA SealAccelKsEncTypeOK ==
  ASSUME AesType, TypeOK, NEW c \in Calls, SealAccelKsEnc(c)
  PROVE  TypeOK'
<1>1. loc[c] \in Local
  BY DEF TypeOK
<1>2. Aes(loc[c].enc, loc[c].tag) \in Block
  BY <1>1, BlockIsBytes DEF Local, AesType
<1>3. [loc[c] EXCEPT !.tag = Aes(loc[c].enc, loc[c].tag)] \in Local
  BY <1>1, <1>2 DEF Local
<1>4. loc' = [loc EXCEPT ![c] = [loc[c] EXCEPT !.tag = Aes(loc[c].enc, loc[c].tag)]]
  BY DEF SealAccelKsEnc
<1>. QED
  BY <1>1, <1>3, <1>4 DEF SealAccelKsEnc, TypeOK, PCs, Local

LEMMA SealAccelEncMsgTypeOK ==
  ASSUME AesType, TypeOK, NEW c \in Calls, SealAccelEncMsg(c)
  PROVE  TypeOK'
<1> DEFINE buf == loc[c].buf
           nb  == Whole(buf) % U32
<1>1. loc[c] \in Local /\ buf \in Bytes /\ loc[c].tag \in Block /\ asmKey \in Bytes
  BY BlockIsBytes DEF TypeOK, Local
<1>2. nb \in Int /\ nb + 0 <= Len(buf) /\ 0 \in Nat
  <2>1. Len(buf) \in Nat
    BY <1>1, LenProperties DEF Bytes
  <2>2. Whole(buf) \in 0 .. Len(buf)
    BY <1>1, WholeBound
  <2>. QED
    BY <2>2, ModBound
<1>3. CtrXor(buf, 0, nb, loc[c].tag, asmKey) \in Bytes
  BY <1>1, <1>2, CtrXorType, Zenon
<1>4. [loc[c] EXCEPT !.buf = CtrXor(buf, 0, nb, loc[c].tag, asmKey)] \in Local
  BY <1>1, <1>3 DEF Local
<1>5. loc' = [loc EXCEPT ![c] = [loc[c] EXCEPT !.buf = CtrXor(buf, 0, nb, loc[c].tag, asmKey)]]
  BY DEF SealAccelEncMsg
<1>. QED
  BY <1>4, <1>5 DEF SealAccelEncMsg, TypeOK, PCs

LEMMA SealAccelLastBlockTypeOK ==
  ASSUME AesType, TypeOK, NEW c \in Calls, SealAccelLastBlock(c)
  PROVE  TypeOK'
<1> DEFINE buf == loc[c].buf
<1>1. loc[c] \in Local /\ buf \in Bytes /\ loc[c].tag \in Block /\ asmKey \in Bytes
  BY BlockIsBytes DEF TypeOK, Local
<1>2. Len(buf) \in Nat /\ Len(buf) + 0 <= Len(buf) /\ 0 \in Nat
  BY <1>1, LenProperties DEF Bytes
<1>3. CryptLastBlock(loc[c].tag, buf, asmKey, Len(buf), 0) \in Bytes
  BY <1>1, <1>2, CryptLastBlockType, Zenon
<1>4. [loc[c] EXCEPT !.buf = CryptLastBlock(loc[c].tag, buf, asmKey, Len(buf), 0)] \in Local
  BY <1>1, <1>3 DEF Local
<1>5. loc' = [loc EXCEPT ![c] = [loc[c] EXCEPT !.buf = CryptLastBlock(loc[c].tag, buf, asmKey, Len(buf), 0)]]
  BY DEF SealAccelLastBlock
<1>. QED
  BY <1>4, <1>5 DEF SealAccelLastBlock, TypeOK, PCs

LEMMA SealAccelReturnTypeOK ==
  ASSUME TypeOK, NEW c \in Calls, SealAccelReturn(c)
  PROVE  TypeOK'
<1>1. loc[c] \in Local
  BY DEF TypeOK
<1>2. [n |-> loc[c].n, a |-> loc[c].a, m |-> loc[c].m, ct |-> loc[c].buf,
       tag |-> loc[c].tag, auth |-> loc[c].auth, enc |-> loc[c].enc] \in SealRec
  BY <1>1 DEF Local, SealRec
<1>. QED
  BY <1>2 DEF SealAccelReturn, TypeOK, PCs

LEMMA OpenFallbackTypeOK ==
  ASSUME AesType, PolyvalType, TypeOK,
         NEW r \in sealed, NEW p \in Nat, OpenFallback(r, p)
  PROVE  TypeOK'
<1> DEFINE io   == OpenBuffer(r, p)
           len  == Len(io)
           tag  == TrailingTag(io)
           auth == KdfAuth(MasterKey, r.n)
           enc  == SubSeq(KdfEncArray(MasterKey, r.n), 1, get_encryption_key_size(Variant))
           body == SubSeq(io, 1, len - TAG_LEN)
           io1  == CtrXor(body, p, len - TAG_LEN - p, tag, enc)
           pt   == SubSeq(io1, 1, len - TAG_LEN - p)
<1>1. r \in SealRec /\ p \in Nat /\ MasterKey \in Bytes
  BY CallsAssumption, MasterKeyAssumption, BlockIsBytes DEF TypeOK, EncKey
<1>2. io \in Bytes /\ len = p + Len(r.ct) + TAG_LEN /\ Len(r.ct) \in Nat
  BY <1>1, OpenBufferType, LenProperties DEF SealRec, Bytes
<1>3. tag \in Block
  <2>1. Len(io) >= TAG_LEN
    BY <1>1, <1>2 DEF TAG_LEN, BLOCK_LEN
  <2>. QED
    BY <1>2, <2>1, LastBlockType DEF TrailingTag
<1>4. auth \in Block /\ enc \in EncKey
  <2>1. r.n \in Nonce
    BY <1>1 DEF SealRec
  <2>. QED
    BY <1>1, <2>1, KdfType
<1>5. body \in Bytes /\ Len(body) = len - TAG_LEN
  <2>1. 1 \in Nat \ {0} /\ len - TAG_LEN \in Int /\ len - TAG_LEN <= Len(io)
        /\ 1 <= (len - TAG_LEN) + 1
    BY <1>1, <1>2 DEF TAG_LEN, BLOCK_LEN
  <2>2. Len(SubSeq(io, 1, len - TAG_LEN)) = (len - TAG_LEN) - 1 + 1
    BY <1>2, <2>1, SubSeqBytes
  <2>. QED
    BY <1>2, <2>1, <2>2, SubSeqBytes
<1>6. io1 \in Bytes /\ Len(io1) = len - TAG_LEN
  <2>1. len - TAG_LEN - p \in Int /\ (len - TAG_LEN - p) + p <= Len(body)
    BY <1>1, <1>2, <1>5 DEF TAG_LEN, BLOCK_LEN
  <2>2. enc \in Bytes
    BY <1>4, BlockIsBytes
  <2>. QED
    BY <1>1, <1>3, <1>5, <2>1, <2>2, CtrXorType, Zenon
<1>7. pt \in Bytes
  <2>1. 1 \in Nat \ {0} /\ len - TAG_LEN - p \in Int /\ len - TAG_LEN - p <= Len(io1)
        /\ 1 <= (len - TAG_LEN - p) + 1
    BY <1>1, <1>2, <1>6 DEF TAG_LEN, BLOCK_LEN
  <2>. QED
    BY <1>6, <2>1, SubSeqBytes
<1>8. Aes(enc, PolyvalTagPre(auth, r.n, r.a, pt)) \in Block
  <2>1. PolyvalTagPre(auth, r.n, r.a, pt) \in Block
    BY <1>1, <1>4, <1>7, BlockIsBytes, PolyvalTagPreType DEF SealRec
  <2>. QED
    BY <1>4, <2>1, BlockIsBytes DEF AesType
<1> DEFINE rec == [n |-> r.n, a |-> r.a, m |-> r.m, ct |-> r.ct, tagIn |-> tag,
                   prefix |-> p, out |-> pt,
                   tag |-> Aes(enc, PolyvalTagPre(auth, r.n, r.a, pt)),
                   auth |-> auth, enc |-> enc]
<1>9. rec \in OpenRec
  BY <1>1, <1>3, <1>4, <1>7, <1>8 DEF SealRec, OpenRec
<1>10. opened' = opened \cup {rec}
  BY DEF OpenFallback
<1>11. ops' \in 0 .. MaxOps
  BY CallsAssumption DEF OpenFallback, TypeOK
<1>. QED
  BY <1>9, <1>10, <1>11 DEF OpenFallback, TypeOK

LEMMA OpenAccelTypeOK ==
  ASSUME AesType, PolyvalType, TypeOK,
         NEW r \in sealed, NEW p \in Nat, OpenAccel(r, p)
  PROVE  TypeOK'
<1> DEFINE io    == OpenBuffer(r, p)
           len   == Len(io) - TAG_LEN - p
           auth  == KdfAuth(asmKey, r.n)
           enc   == KdfEnc(asmKey, r.n)
           aad   == r.a
           accA  == WholeBlocks(aad, (Len(aad) \div BLOCK_LEN) % U32)
                    \o (IF Len(aad) % BLOCK_LEN # 0 THEN <<TailBlock(aad)>> ELSE <<>>)
           nDec  == (len % U32) - ((len % U32) % BLOCK_LEN)
           tag   == SubSeq(io, p + len + 1, Len(io))
           io1   == CtrXor(io, p, nDec, tag, enc)
           io2   == IF len % BLOCK_LEN # 0
                    THEN CryptLastBlock(tag, io1, enc, len, p) ELSE io1
           out   == SubSeq(io2, 1, len)
           accM  == WholeBlocks(io1, nDec \div BLOCK_LEN)
           accT  == IF len % BLOCK_LEN # 0 THEN <<TailBlock(out)>> ELSE <<>>
           acc   == accA \o accM \o accT \o <<LengthBlock(Len(aad), len)>>
<1>1. r \in SealRec /\ p \in Nat /\ asmKey \in Bytes /\ aad \in Bytes /\ r.n \in Nonce
  BY CallsAssumption, BlockIsBytes DEF TypeOK, SealRec
<1>2. io \in Bytes /\ Len(io) = p + Len(r.ct) + TAG_LEN /\ Len(r.ct) \in Nat
  BY <1>1, OpenBufferType, LenProperties DEF SealRec, Bytes
<1>3. len = Len(r.ct) /\ len \in Nat
  BY <1>1, <1>2 DEF TAG_LEN, BLOCK_LEN
<1>4. tag \in Block
  <2>1. p + len + 1 = Len(io) - TAG_LEN + 1 /\ Len(io) >= TAG_LEN
    BY <1>1, <1>2, <1>3 DEF TAG_LEN, BLOCK_LEN
  <2>. QED
    BY <1>2, <2>1, LastBlockType
<1>5. auth \in Block /\ enc \in EncKey /\ enc \in Bytes
  BY <1>1, KdfType, BlockIsBytes
<1>6. nDec \in 0 .. len /\ (nDec \div BLOCK_LEN) \in Nat
      /\ (nDec \div BLOCK_LEN) * BLOCK_LEN <= nDec
  BY <1>3, TruncatedWhole
<1>7. io1 \in Bytes /\ Len(io1) = Len(io)
  <2>1. nDec \in Int /\ nDec + p <= Len(io)
    BY <1>1, <1>2, <1>3, <1>6 DEF TAG_LEN, BLOCK_LEN
  <2>. QED
    BY <1>1, <1>2, <1>4, <1>5, <2>1, CtrXorType
<1>8. io2 \in Bytes /\ Len(io2) = Len(io)
  <2>1. len + p <= Len(io1)
    BY <1>1, <1>2, <1>3, <1>7 DEF TAG_LEN, BLOCK_LEN
  <2>2. CryptLastBlock(tag, io1, enc, len, p) \in Bytes
        /\ Len(CryptLastBlock(tag, io1, enc, len, p)) = Len(io1)
    BY <1>1, <1>3, <1>4, <1>5, <1>7, <2>1, CryptLastBlockType
  <2>. QED
    BY <1>7, <2>2
<1>9. out \in Bytes
  <2>0. len <= Len(io)
    BY <1>1, <1>2, <1>3 DEF TAG_LEN, BLOCK_LEN
  <2>1. 1 \in Nat \ {0} /\ len \in Int /\ len <= Len(io2) /\ 1 <= len + 1
    BY <2>0, <1>3, <1>8
  <2>. QED
    BY <1>8, <2>1, SubSeqBytes
<1>10. accA \in Seq(Block)
  <2>1. (Len(aad) \div BLOCK_LEN) % U32 \in Nat
        /\ ((Len(aad) \div BLOCK_LEN) % U32) * BLOCK_LEN <= Len(aad)
    <3>1. Len(aad) \in Nat
      BY <1>1, LenProperties DEF Bytes
    <3>. QED
      BY <3>1, TruncatedBlockCount
  <2>2. WholeBlocks(aad, (Len(aad) \div BLOCK_LEN) % U32) \in Seq(Block)
    BY <1>1, <2>1, WholeBlocksType
  <2>3. (IF Len(aad) % BLOCK_LEN # 0 THEN <<TailBlock(aad)>> ELSE <<>>) \in Seq(Block)
    BY <1>1, TailBlockType
  <2>. QED
    BY <2>2, <2>3, ConcatProperties
<1>11. accM \in Seq(Block)
  <2>1. (nDec \div BLOCK_LEN) * BLOCK_LEN <= Len(io1)
    BY <1>1, <1>2, <1>3, <1>6, <1>7 DEF TAG_LEN, BLOCK_LEN
  <2>. QED
    BY <1>6, <1>7, <2>1, WholeBlocksType
<1>12. accT \in Seq(Block)
  BY <1>9, TailBlockType
<1>13. acc \in Seq(Absorbed)
  <2>1. accA \o accM \o accT \in Seq(Block)
    BY <1>10, <1>11, <1>12, ConcatProperties
  <2>2. <<LengthBlock(Len(aad), len)>> \in Seq(Absorbed)
    <3>1. Len(aad) \in Nat
      BY <1>1, LenProperties DEF Bytes
    <3>. QED
      BY <1>3, <3>1, LengthBlockType
  <2>. QED
    BY <2>1, <2>2, AbsorbedBlocks, ConcatProperties
<1>14. Aes(enc, NonceMix(Polyval(auth, acc), r.n)) \in Block
  <2>1. Polyval(auth, acc) \in Block
    BY <1>5, <1>13, BlockIsBytes DEF PolyvalType
  <2>2. NonceMix(Polyval(auth, acc), r.n) \in Block
    BY <1>1, <2>1, NonceMixType
  <2>. QED
    BY <1>5, <2>2 DEF AesType
<1> DEFINE rec == [n |-> r.n, a |-> aad, m |-> r.m, ct |-> r.ct, tagIn |-> tag,
                   prefix |-> p, out |-> out,
                   tag |-> Aes(enc, NonceMix(Polyval(auth, acc), r.n)),
                   auth |-> auth, enc |-> enc]
<1>15. rec \in OpenRec
  BY <1>1, <1>4, <1>5, <1>9, <1>14 DEF SealRec, OpenRec
<1>16. opened' = opened \cup {rec}
  BY DEF OpenAccel
<1>17. ops' \in 0 .. MaxOps
  BY CallsAssumption DEF OpenAccel, TypeOK
<1>. QED
  BY <1>15, <1>16, <1>17 DEF OpenAccel, TypeOK

(* Every step keeps TypeOK. *)
LEMMA TypeOKStep ==
  ASSUME AesType, PolyvalType
  PROVE  TypeOK /\ [Next]_vars => TypeOK'
<1> SUFFICES ASSUME TypeOK, [Next]_vars PROVE TypeOK'
  OBVIOUS
<1>1. ASSUME NEW c \in Calls, NEW n \in Nonces, NEW a \in Aads, NEW m \in Msgs,
             SealDispatch(c, n, a, m)
      PROVE  TypeOK'
  <2>1. CASE Path = "FALLBACK"
    BY <1>1, <2>1, SealFallbackTypeOK DEF SealDispatch
  <2>2. CASE Path # "FALLBACK"
    BY <1>1, <2>2, SealAccelKdfTypeOK DEF SealDispatch
  <2>. QED
    BY <2>1, <2>2
<1>2. ASSUME NEW r \in sealed, NEW p \in Prefixes, OpenDispatch(r, p)
      PROVE  TypeOK'
  <2>1. CASE Path = "FALLBACK"
    BY <1>2, <2>1, OpenFallbackTypeOK, CallsAssumption DEF OpenDispatch
  <2>2. CASE Path # "FALLBACK"
    BY <1>2, <2>2, OpenAccelTypeOK, CallsAssumption DEF OpenDispatch
  <2>. QED
    BY <2>1, <2>2
<1>3. ASSUME NEW c \in Calls, SealAccelKsEnc(c) PROVE TypeOK'
  BY <1>3, SealAccelKsEncTypeOK
<1>4. ASSUME NEW c \in Calls, SealAccelEncMsg(c) PROVE TypeOK'
  BY <1>4, SealAccelEncMsgTypeOK
<1>5. ASSUME NEW c \in Calls, SealAccelLastBlock(c) PROVE TypeOK'
  BY <1>5, SealAccelLastBlockTypeOK
<1>6. ASSUME NEW c \in Calls, SealAccelReturn(c) PROVE TypeOK'
  BY <1>6, SealAccelReturnTypeOK
<1>7. CASE UNCHANGED vars
  BY <1>7 DEF vars, TypeOK, EncKey, PCs, Local, SealRec, OpenRec
<1>. QED
  BY <1>1, <1>2, <1>3, <1>4, <1>5, <1>6, <1>7 DEF Next

-----------------------------------------------------------------------------
(* Type correctness of the whole system: whatever the interleaving of the *)
(* portable or accelerated seals and opens of any number of callers, the  *)
(* shared stored schedule always expands a key of the variant's size and  *)
(* every completed call derived subkeys and tags of the right sizes and    *)
(* wrote byte strings (TypeOK), provided only that the block cipher and    *)
(* POLYVAL return blocks.                                                  *)
THEOREM TypeCorrect ==
  ASSUME AesType, PolyvalType
  PROVE  Spec => []TypeOK
<1>1. Init => TypeOK
  BY InitTypeOK
<1>2. TypeOK /\ [Next]_vars => TypeOK'
  BY TypeOKStep
<1>. QED
  BY <1>1, <1>2, PTL DEF Spec
=============================================================================
