------------------------- MODULE AesGcmSivAccelProofs -------------------------
(***************************************************************************)
(* Proofs that every call computes GCM-SIV correctly under the subkeys it  *)
(* derived (SealMatchesReference, OpenMatchesReference), on either path,   *)
(* whenever the Key has one caller and every input is shorter than the     *)
(* 32-bit length modulus: the two conditions whose violation the runs      *)
(* accel_concurrent, accel_long_msg, accel_long_open and accel_long_aad    *)
(* exhibit.                                                                *)
(*                                                                         *)
(* The argument follows an accelerated seal through its steps: after      *)
(* ks_enc the stored schedule holds the call's own encryption key (no      *)
(* other caller can replace it), enc_msg encrypts all whole blocks since   *)
(* the c_uint cast truncates nothing, and crypt_last_block finishes the   *)
(* partial block with the counter of the next block.                       *)
(***************************************************************************)
EXTENDS AesGcmSivFallbackProofs

(* The conditions under which the code is correct. *)
SingleCaller == \E c0 \in Calls : Calls = {c0}

ShortInputs ==
  /\ \A m \in Msgs : Len(m) < U32
  /\ \A a \in Aads : Len(a) \div BLOCK_LEN < U32

(* What an accelerated seal in progress holds at each of its steps. *)
LocalOK(c) ==
  LET L == loc[c] IN
  /\ pc[c] # "idle" => L.m \in Msgs /\ L.a \in Aads /\ L.n \in Nonces
  /\ pc[c] = "ks_enc" =>
       L.buf = L.m /\ L.tag = PolyvalTagPre(L.auth, L.n, L.a, L.m)
  /\ pc[c] \in {"enc_msg", "last_block", "return"} =>
       asmKey = L.enc /\ L.tag = Abs!RefTag(L.auth, L.enc, L.n, L.a, L.m)
  /\ pc[c] = "enc_msg" => L.buf = L.m
  /\ pc[c] = "last_block" =>
       L.buf = CtrXor(L.m, 0, Whole(L.m), L.tag, L.enc) /\ Len(L.m) % BLOCK_LEN # 0
  /\ pc[c] = "return" => L.buf = Abs!RefCrypt(L.enc, L.tag, L.m)

(* Completed seals were of inputs the callers may give. *)
SealedInputs == \A r \in sealed : r.m \in Msgs /\ r.a \in Aads /\ r.n \in Nonces

AInv ==
  /\ TypeOK
  /\ \A c \in Calls : LocalOK(c)
  /\ SealedInputs
  /\ SealMatchesReference
  /\ OpenMatchesReference

-----------------------------------------------------------------------------
(* The counter-mode passes of the accelerated path. *)

(* A length under the c_uint modulus is not truncated: the whole-byte     *)
(* counts the code computes after `as libc::c_uint` are the true ones.     *)
LEMMA NoTruncation ==
  ASSUME NEW len \in Nat, len < U32
  PROVE  /\ (len % U32) - ((len % U32) % BLOCK_LEN) = len - (len % BLOCK_LEN)
         /\ (len - (len % BLOCK_LEN)) % U32 = len - (len % BLOCK_LEN)
BY DEF U32, BYTE, BLOCK_LEN

(* Division of a length into whole blocks and a remainder. *)
LEMMA BlockDivision ==
  ASSUME NEW x \in Nat
  PROVE  x \div BLOCK_LEN \in Nat /\ x = 4 * (x \div BLOCK_LEN) + (x % BLOCK_LEN)
         /\ x % BLOCK_LEN \in 0 .. 3
BY DEF BLOCK_LEN

(* The whole-block part of a length is a number of whole blocks. *)
LEMMA WholeDivision ==
  ASSUME NEW x \in Nat
  PROVE  /\ (x - (x % BLOCK_LEN)) \div BLOCK_LEN = x \div BLOCK_LEN
         /\ x \div BLOCK_LEN \in Nat
         /\ (x \div BLOCK_LEN) * BLOCK_LEN = x - (x % BLOCK_LEN)
<1> DEFINE q == x \div BLOCK_LEN
<1>1. q \in Nat /\ x = 4 * q + (x % BLOCK_LEN)
  BY BlockDivision
<1> HIDE DEF q
<1>2. x - (x % BLOCK_LEN) = 4 * q
  BY <1>1 DEF BLOCK_LEN
<1>3. (4 * q) \div 4 = q
  BY <1>1
<1>. QED
  BY <1>1, <1>2, <1>3 DEF BLOCK_LEN, q

(* The bulk pass over the whole blocks (enc_msg_x4/x8, aes*gcmsiv_dec)     *)
(* followed, for a partial last block, by crypt_last_block, writes from    *)
(* offset 0 the reference counter-mode image of the ciphertext found       *)
(* prefix bytes in.                                                        *)
LEMMA CtrPassesMatchReference ==
  ASSUME AesType, NEW ct \in Bytes, NEW io \in Bytes, NEW p \in Nat,
         NEW t \in Block, NEW k \in Bytes,
         p + Len(ct) <= Len(io), \A j \in 1 .. Len(ct) : io[p + j] = ct[j]
  PROVE  LET io1 == CtrXor(io, p, Whole(ct), t, k)
             io2 == IF Len(ct) % BLOCK_LEN # 0
                    THEN CryptLastBlock(t, io1, k, Len(ct), p) ELSE io1
         IN  /\ io2 \in Bytes /\ Len(io2) = Len(io)
             /\ \A j \in 1 .. Len(ct) : io2[j] = Abs!RefCrypt(k, t, ct)[j]
             /\ \A j \in 1 .. Whole(ct) : io2[j] = io1[j]
<1> DEFINE L   == Len(ct)
           W   == Whole(ct)
           q   == L \div BLOCK_LEN
           io1 == CtrXor(io, p, W, t, k)
           io2 == IF L % BLOCK_LEN # 0 THEN CryptLastBlock(t, io1, k, L, p) ELSE io1
           ks(j) == Aes(k, Abs!RefCounter(t, (j - 1) \div BLOCK_LEN))[((j - 1) % BLOCK_LEN) + 1]
<1>0. L \in Nat /\ Len(io) \in Nat
  BY LenProperties DEF Bytes
<1>1. /\ W \in 0 .. L /\ W = L - (L % BLOCK_LEN) /\ q \in Nat /\ W = 4 * q
      /\ L % BLOCK_LEN \in 0 .. 3 /\ L = W + (L % BLOCK_LEN)
  <2>1. W \in 0 .. L /\ W = L - (L % BLOCK_LEN)
    BY WholeBound DEF Whole
  <2>2. q \in Nat /\ L = 4 * q + (L % BLOCK_LEN) /\ L % BLOCK_LEN \in 0 .. 3
    BY <1>0, BlockDivision
  <2>. QED
    BY <2>1, <2>2
<1> HIDE DEF L, W, q, io1, io2
<1>2. io1 \in Bytes /\ Len(io1) = Len(io)
  <2>1. W \in Int /\ W + p <= Len(io)
    BY <1>0, <1>1 DEF L
  <2>. QED
    BY <2>1, CtrXorType DEF io1
<1>3. io2 \in Bytes /\ Len(io2) = Len(io)
  <2>1. L + p <= Len(io1)
    BY <1>2 DEF L
  <2>. QED
    BY <1>0, <1>2, <2>1, CryptLastBlockType DEF io2
<1>4. \A j \in 1 .. Len(io) :
        io1[j] = IF j <= W THEN Xor(io[j + p], KsByte(k, t, j)) ELSE io[j]
  BY DEF CtrXor, io1
<1> DEFINE off == (L - (L % BLOCK_LEN)) + p
<1>4a. CryptLastBlock(t, io1, k, L, p) =
         [i \in 1 .. Len(io1) |->
            IF off - p < i /\ i <= off - p + (L % BLOCK_LEN)
            THEN Xor(io1[i + p], Aes(k, CtrBlock(t, L \div BLOCK_LEN))[i + p - off])
            ELSE io1[i]]
  BY DEF CryptLastBlock
<1>5. ASSUME NEW j \in 1 .. L PROVE Abs!RefCrypt(k, t, ct)[j] = Xor(ct[j], ks(j))
  BY DEF Abs!RefCrypt, Abs!Xor, Abs!BLOCK_LEN, Xor, BLOCK_LEN, L
<1>5a. ASSUME NEW j \in 1 .. W PROVE io2[j] = io1[j]
  <2>1. j \in 1 .. Len(io1) /\ ~(off - p < j)
    BY <1>0, <1>1, <1>2 DEF L
  <2>. QED
    BY <2>1, <1>4a DEF io2
<1>6. ASSUME NEW j \in 1 .. L, j <= W PROVE io2[j] = Xor(ct[j], ks(j))
  <2>1. j \in 1 .. Len(io) /\ io[j + p] = ct[j]
    BY <1>0, <1>1 DEF L
  <2>2. io1[j] = Xor(ct[j], ks(j))
    BY <1>4, <2>1, <1>6, KsByteMatchesReference
  <2>3. L % BLOCK_LEN # 0 => CryptLastBlock(t, io1, k, L, p)[j] = io1[j]
    <3>1. ~(off - p < j)
      BY <1>0, <1>1, <1>6
    <3>2. j \in 1 .. Len(io1)
      BY <1>2, <2>1
    <3>. QED
      BY <3>1, <3>2, <1>4a
  <2>. QED
    BY <2>2, <2>3 DEF io2
<1>7. ASSUME NEW j \in 1 .. L, ~(j <= W) PROVE io2[j] = Xor(ct[j], ks(j))
  <2>0. j \in Nat /\ W < j /\ j <= L
    BY <1>0, <1>1, <1>7
  <2>1. L % BLOCK_LEN # 0 /\ (j - 1) \div BLOCK_LEN = q
        /\ ((j - 1) % BLOCK_LEN) + 1 = j - W
    BY <1>0, <1>1, <2>0 DEF BLOCK_LEN
  <2>2. j + p \in 1 .. Len(io) /\ ~(j + p <= W) /\ j \in 1 .. Len(io1)
    BY <1>0, <1>1, <1>2, <2>0 DEF L
  <2>3. io1[j + p] = ct[j]
    BY <1>4, <2>2, <1>7 DEF L
  <2>4. io2[j] = Xor(io1[j + p], Aes(k, CtrBlock(t, q))[j - W])
    <3>1. off - p < j /\ j <= off - p + (L % BLOCK_LEN) /\ j + p - off = j - W
      BY <1>0, <1>1, <2>0
    <3>2. CryptLastBlock(t, io1, k, L, p)[j]
            = Xor(io1[j + p], Aes(k, CtrBlock(t, L \div BLOCK_LEN))[j - W])
      BY <2>2, <3>1, <1>4a
    <3>. QED
      BY <2>1, <3>2 DEF io2, q
  <2>5. CtrBlock(t, q) = Abs!RefCounter(t, (j - 1) \div BLOCK_LEN)
    BY <1>1, <2>1, CtrMatchesReference
  <2>. QED
    BY <2>1, <2>3, <2>4, <2>5
<1>. QED
  BY <1>3, <1>5, <1>5a, <1>6, <1>7 DEF L, W, io1, io2

-----------------------------------------------------------------------------
(* What open_avx_aesni absorbs into POLYVAL. *)

(* The aad blocks, counted with (aad.len() / BLOCK_LEN) as libc::c_uint,   *)
(* and the zero-padded tail are the zero padding of the aad whenever the   *)
(* count is under the c_uint modulus.                                      *)
LEMMA AadBlocksMatchPad ==
  ASSUME NEW a \in Bytes, Len(a) \div BLOCK_LEN < U32
  PROVE  WholeBlocks(a, (Len(a) \div BLOCK_LEN) % U32)
           \o (IF Len(a) % BLOCK_LEN # 0 THEN <<TailBlock(a)>> ELSE <<>>)
         = PadBlocks(a)
<1>1. Len(a) \div BLOCK_LEN \in Nat
  BY LenProperties DEF Bytes, BLOCK_LEN
<1>2. (Len(a) \div BLOCK_LEN) % U32 = Len(a) \div BLOCK_LEN
  BY <1>1 DEF U32, BYTE
<1>. QED
  BY <1>2 DEF PadBlocks

(* Whole blocks read from two strings that agree on those bytes are equal. *)
LEMMA WholeBlocksAgree ==
  ASSUME NEW s, NEW u, NEW k \in Nat,
         \A x \in 1 .. k * BLOCK_LEN : s[x] = u[x]
  PROVE  WholeBlocks(s, k) = WholeBlocks(u, k)
<1>1. \A j \in 1 .. k, i \in 1 .. BLOCK_LEN : (j - 1) * BLOCK_LEN + i \in 1 .. k * BLOCK_LEN
  BY DEF BLOCK_LEN
<1>. QED
  BY <1>1 DEF WholeBlocks

-----------------------------------------------------------------------------
(* Every action keeps AInv. *)

LEMMA InitAInv == Init => AInv
<1> SUFFICES ASSUME Init PROVE AInv
  OBVIOUS
<1>1. TypeOK
  BY InitTypeOK
<1>. QED
  BY <1>1 DEF Init, AInv, LocalOK, SealedInputs, SealMatchesReference, OpenMatchesReference

(* With one caller, the caller of a step is every caller. *)
LEMMA OnlyCaller ==
  ASSUME SingleCaller, NEW c \in Calls
  PROVE  \A c2 \in Calls : c2 = c
BY DEF SingleCaller

LEMMA SealFallbackAInv ==
  ASSUME AesType, PolyvalType, AInv,
         NEW n \in Nonces, NEW a \in Aads, NEW m \in Msgs, SealFallback(n, a, m)
  PROVE  AInv'
<1> DEFINE tag == Aes(FbEnc(n), PolyvalTagPre(FbAuth(n), n, a, m))
           rec == [n |-> n, a |-> a, m |-> m, ct |-> CtrXor(m, 0, Len(m), tag, FbEnc(n)),
                   tag |-> tag, auth |-> FbAuth(n), enc |-> FbEnc(n)]
<1>1. TypeOK'
  BY SealFallbackTypeOK DEF AInv
<1>2. sealed' = sealed \cup {rec} /\ UNCHANGED <<asmKey, pc, loc, opened>>
  BY DEF SealFallback, FbAuth, FbEnc
<1>3. n \in Nonce /\ a \in Bytes /\ m \in Bytes
      /\ FbAuth(n) \in Bytes /\ FbEnc(n) \in Bytes
  BY InputAssumption, FallbackKeys, BlockIsBytes
<1>4. tag = Abs!RefTag(FbAuth(n), FbEnc(n), n, a, m) /\ tag \in Block
  BY <1>3, PolyvalMatchesReference, PolyvalTagPreType DEF Abs!RefTag, AesType
<1>5. rec.ct = Abs!RefCrypt(rec.enc, rec.tag, rec.m)
  BY <1>3, <1>4, SealCryptMatchesReference
<1>6. SealMatchesReference' /\ SealedInputs'
  BY <1>2, <1>4, <1>5 DEF AInv, SealMatchesReference, SealedInputs
<1>. QED
  BY <1>1, <1>2, <1>6 DEF AInv, LocalOK, OpenMatchesReference

LEMMA SealAccelKdfAInv ==
  ASSUME AesType, PolyvalType, SingleCaller, AInv, NEW c \in Calls,
         NEW n \in Nonces, NEW a \in Aads, NEW m \in Msgs, SealAccelKdf(c, n, a, m)
  PROVE  AInv'
<1>1. TypeOK'
  BY SealAccelKdfTypeOK DEF AInv
<1>2. /\ loc'[c] = [n |-> n, a |-> a, m |-> m, buf |-> m, auth |-> KdfAuth(asmKey, n),
                    enc |-> KdfEnc(asmKey, n),
                    tag |-> PolyvalTagPre(KdfAuth(asmKey, n), n, a, m)]
      /\ pc'[c] = "ks_enc"
      /\ UNCHANGED <<asmKey, sealed, opened>>
  BY DEF SealAccelKdf, AInv, TypeOK
<1>3. LocalOK(c)'
  BY <1>2 DEF LocalOK
<1>. QED
  BY <1>1, <1>2, <1>3, OnlyCaller
     DEF AInv, SealedInputs, SealMatchesReference, OpenMatchesReference

LEMMA SealAccelKsEncAInv ==
  ASSUME AesType, PolyvalType, SingleCaller, AInv, NEW c \in Calls, SealAccelKsEnc(c)
  PROVE  AInv'
<1> DEFINE L == loc[c]
<1>1. TypeOK'
  BY SealAccelKsEncTypeOK DEF AInv
<1>2. L \in Local /\ pc[c] = "ks_enc" /\ LocalOK(c)
  BY DEF AInv, TypeOK, SealAccelKsEnc
<1>3. /\ loc'[c] = [L EXCEPT !.tag = Aes(L.enc, L.tag)]
      /\ asmKey' = L.enc /\ pc'[c] = "enc_msg"
      /\ UNCHANGED <<sealed, opened>>
  BY DEF SealAccelKsEnc, AInv, TypeOK
<1>4. Aes(L.enc, L.tag) = Abs!RefTag(L.auth, L.enc, L.n, L.a, L.m)
  <2>1. L.buf = L.m /\ L.tag = PolyvalTagPre(L.auth, L.n, L.a, L.m)
    BY <1>2 DEF LocalOK
  <2>2. L.a \in Bytes /\ L.m \in Bytes
    BY <1>2 DEF Local
  <2>. QED
    BY <2>1, <2>2, PolyvalMatchesReference DEF Abs!RefTag
<1>5. LocalOK(c)'
  <2>1. loc'[c].m = L.m /\ loc'[c].a = L.a /\ loc'[c].n = L.n /\ loc'[c].buf = L.buf
        /\ loc'[c].auth = L.auth /\ loc'[c].enc = L.enc /\ loc'[c].tag = Aes(L.enc, L.tag)
    BY <1>2, <1>3 DEF Local
  <2>2. L.buf = L.m /\ L.m \in Msgs /\ L.a \in Aads /\ L.n \in Nonces
    BY <1>2 DEF LocalOK
  <2>. QED
    BY <1>3, <1>4, <2>1, <2>2 DEF LocalOK
<1>. QED
  BY <1>1, <1>3, <1>5, OnlyCaller
     DEF AInv, SealedInputs, SealMatchesReference, OpenMatchesReference

LEMMA SealAccelEncMsgAInv ==
  ASSUME AesType, PolyvalType, SingleCaller, ShortInputs, AInv, NEW c \in Calls,
         SealAccelEncMsg(c)
  PROVE  AInv'
<1> DEFINE L == loc[c]
<1>1. TypeOK'
  BY SealAccelEncMsgTypeOK DEF AInv
<1>2. L \in Local /\ pc[c] = "enc_msg" /\ LocalOK(c)
  BY DEF AInv, TypeOK, SealAccelEncMsg
<1>3. /\ L.buf = L.m /\ asmKey = L.enc /\ L.m \in Msgs /\ L.m \in Bytes
      /\ L.tag \in Block /\ L.enc \in Bytes
  BY <1>2, BlockIsBytes DEF LocalOK, Local, EncKey
<1>4. Whole(L.m) % U32 = Whole(L.m)
  <2>1. Len(L.m) \in Nat /\ Len(L.m) < U32
    BY <1>3, LenProperties DEF ShortInputs, Bytes
  <2>. QED
    BY <2>1, NoTruncation DEF Whole
<1>5. /\ loc'[c] = [L EXCEPT !.buf = CtrXor(L.m, 0, Whole(L.m), L.tag, L.enc)]
      /\ pc'[c] = IF Len(L.m) % BLOCK_LEN # 0 THEN "last_block" ELSE "return"
      /\ UNCHANGED <<asmKey, sealed, opened>>
  BY <1>3, <1>4 DEF SealAccelEncMsg, AInv, TypeOK
<1>6. Len(L.m) % BLOCK_LEN = 0 =>
        CtrXor(L.m, 0, Whole(L.m), L.tag, L.enc) = Abs!RefCrypt(L.enc, L.tag, L.m)
  <2>1. Len(L.m) % BLOCK_LEN = 0 => Whole(L.m) = Len(L.m)
    BY DEF Whole
  <2>. QED
    BY <1>3, <2>1, SealCryptMatchesReference
<1>7. LocalOK(c)'
  <2>1. /\ loc'[c].m = L.m /\ loc'[c].a = L.a /\ loc'[c].n = L.n /\ loc'[c].auth = L.auth
        /\ loc'[c].enc = L.enc /\ loc'[c].tag = L.tag
        /\ loc'[c].buf = CtrXor(L.m, 0, Whole(L.m), L.tag, L.enc)
    BY <1>2, <1>5 DEF Local
  <2>2. L.m \in Msgs /\ L.a \in Aads /\ L.n \in Nonces
        /\ L.tag = Abs!RefTag(L.auth, L.enc, L.n, L.a, L.m)
    BY <1>2 DEF LocalOK
  <2>. QED
    BY <1>3, <1>5, <1>6, <2>1, <2>2 DEF LocalOK
<1>. QED
  BY <1>1, <1>5, <1>7, OnlyCaller
     DEF AInv, SealedInputs, SealMatchesReference, OpenMatchesReference

LEMMA SealAccelLastBlockAInv ==
  ASSUME AesType, PolyvalType, SingleCaller, AInv, NEW c \in Calls, SealAccelLastBlock(c)
  PROVE  AInv'
<1> DEFINE L   == loc[c]
           buf == CtrXor(L.m, 0, Whole(L.m), L.tag, L.enc)
           out == CryptLastBlock(L.tag, buf, L.enc, Len(L.m), 0)
<1>1. TypeOK'
  BY SealAccelLastBlockTypeOK DEF AInv
<1>2. L \in Local /\ pc[c] = "last_block" /\ LocalOK(c)
  BY DEF AInv, TypeOK, SealAccelLastBlock
<1>3. /\ L.buf = buf /\ asmKey = L.enc /\ Len(L.m) % BLOCK_LEN # 0
      /\ L.m \in Bytes /\ L.tag \in Block /\ L.enc \in Bytes
  BY <1>2, BlockIsBytes DEF LocalOK, Local, EncKey
<1>4. Len(buf) = Len(L.m)
  <2>1. Whole(L.m) \in Int /\ Whole(L.m) + 0 <= Len(L.m)
    BY <1>3, WholeBound
  <2>. QED
    BY <1>3, <2>1, CtrXorType
<1>5. /\ loc'[c] = [L EXCEPT !.buf = out]
      /\ pc'[c] = "return"
      /\ UNCHANGED <<asmKey, sealed, opened>>
  BY <1>3, <1>4 DEF SealAccelLastBlock, AInv, TypeOK
<1>6. out = Abs!RefCrypt(L.enc, L.tag, L.m)
  <2>1. 0 + Len(L.m) <= Len(L.m) /\ \A j \in 1 .. Len(L.m) : L.m[0 + j] = L.m[j]
    BY <1>3, LenProperties DEF Bytes
  <2>2. out \in Bytes /\ Len(out) = Len(L.m)
        /\ \A j \in 1 .. Len(L.m) : out[j] = Abs!RefCrypt(L.enc, L.tag, L.m)[j]
    BY <1>3, <2>1, CtrPassesMatchReference
  <2>3. Abs!RefCrypt(L.enc, L.tag, L.m) \in Bytes
        /\ Len(Abs!RefCrypt(L.enc, L.tag, L.m)) = Len(L.m)
    BY <1>3, CryptInvolution
  <2>. QED
    BY <2>2, <2>3, SeqEqual DEF Bytes
<1>7. LocalOK(c)'
  <2>1. /\ loc'[c].m = L.m /\ loc'[c].a = L.a /\ loc'[c].n = L.n /\ loc'[c].auth = L.auth
        /\ loc'[c].enc = L.enc /\ loc'[c].tag = L.tag /\ loc'[c].buf = out
    BY <1>2, <1>5 DEF Local
  <2>2. L.m \in Msgs /\ L.a \in Aads /\ L.n \in Nonces
        /\ L.tag = Abs!RefTag(L.auth, L.enc, L.n, L.a, L.m)
    BY <1>2 DEF LocalOK
  <2>. QED
    BY <1>3, <1>5, <1>6, <2>1, <2>2 DEF LocalOK
<1>. QED
  BY <1>1, <1>5, <1>7, OnlyCaller
     DEF AInv, SealedInputs, SealMatchesReference, OpenMatchesReference

LEMMA SealAccelReturnAInv ==
  ASSUME SingleCaller, AInv, NEW c \in Calls, SealAccelReturn(c)
  PROVE  AInv'
<1> DEFINE L   == loc[c]
           rec == [n |-> L.n, a |-> L.a, m |-> L.m, ct |-> L.buf,
                   tag |-> L.tag, auth |-> L.auth, enc |-> L.enc]
<1>1. TypeOK'
  BY SealAccelReturnTypeOK DEF AInv
<1>2. pc[c] = "return" /\ LocalOK(c)
  BY DEF AInv, SealAccelReturn
<1>3. /\ L.buf = Abs!RefCrypt(L.enc, L.tag, L.m)
      /\ L.tag = Abs!RefTag(L.auth, L.enc, L.n, L.a, L.m)
      /\ L.m \in Msgs /\ L.a \in Aads /\ L.n \in Nonces
  BY <1>2 DEF LocalOK
<1>4. /\ sealed' = sealed \cup {rec}
      /\ pc'[c] = "idle"
      /\ UNCHANGED <<asmKey, loc, opened>>
  BY DEF SealAccelReturn, AInv, TypeOK
<1>5. SealMatchesReference' /\ SealedInputs'
  BY <1>3, <1>4 DEF AInv, SealMatchesReference, SealedInputs
<1>6. LocalOK(c)'
  BY <1>4 DEF LocalOK
<1>. QED
  BY <1>1, <1>4, <1>5, <1>6, OnlyCaller DEF AInv, OpenMatchesReference

LEMMA OpenFallbackAInv ==
  ASSUME AesType, PolyvalType, AInv,
         NEW r \in sealed, NEW p \in Nat, OpenFallback(r, p)
  PROVE  AInv'
<1> DEFINE io  == OpenBuffer(r, p)
           len == Len(io)
           tag == TrailingTag(io)
           io1 == CtrXor(SubSeq(io, 1, len - TAG_LEN), p, len - TAG_LEN - p, tag, FbEnc(r.n))
           pt  == SubSeq(io1, 1, len - TAG_LEN - p)
           rec == [n |-> r.n, a |-> r.a, m |-> r.m, ct |-> r.ct, tagIn |-> tag,
                   prefix |-> p, out |-> pt,
                   tag |-> Aes(FbEnc(r.n), PolyvalTagPre(FbAuth(r.n), r.n, r.a, pt)),
                   auth |-> FbAuth(r.n), enc |-> FbEnc(r.n)]
<1>1. TypeOK'
  BY OpenFallbackTypeOK, CallsAssumption DEF AInv
<1>2. opened' = opened \cup {rec} /\ UNCHANGED <<asmKey, pc, loc, sealed>>
  BY DEF OpenFallback, FbAuth, FbEnc
<1>3. r \in SealRec /\ p \in Nat /\ r.n \in Nonce /\ r.a \in Bytes
  BY CallsAssumption DEF AInv, TypeOK, SealRec
<1>4. /\ tag = r.tag
      /\ pt = Abs!RefCrypt(FbEnc(r.n), r.tag, r.ct)
  <2>1. FbEnc(r.n) = Abs!RefEncKey(MasterKey, r.n)
    BY <1>3, FallbackKeys
  <2>. QED
    BY <1>3, <2>1, OpenFallbackMatchesReference DEF Abs!RefOpen
<1>5. rec.tag = Abs!RefTag(rec.auth, rec.enc, rec.n, rec.a, rec.out)
  <2>1. pt \in Bytes
    <3>1. FbEnc(r.n) \in Bytes /\ r.tag \in Block /\ r.ct \in Bytes
      BY <1>3, FallbackKeys, BlockIsBytes DEF SealRec
    <3>. QED
      BY <1>4, <3>1, CryptInvolution
  <2>. QED
    BY <1>3, <2>1, PolyvalMatchesReference DEF Abs!RefTag
<1>6. rec.out = Abs!RefCrypt(rec.enc, rec.tagIn, rec.ct)
  BY <1>4
<1>7. OpenMatchesReference'
  <2> HIDE DEF rec
  <2>. QED
    BY <1>2, <1>5, <1>6 DEF AInv, OpenMatchesReference
<1>. QED
  BY <1>1, <1>2, <1>7 DEF AInv, LocalOK, SealedInputs, SealMatchesReference
LEMMA OpenAccelAInv ==
  ASSUME AesType, PolyvalType, ShortInputs, AInv,
         NEW r \in sealed, NEW p \in Nat, OpenAccel(r, p)
  PROVE  AInv'
<1> DEFINE io    == OpenBuffer(r, p)
           len   == Len(io) - TAG_LEN - p
           auth  == KdfAuth(asmKey, r.n)
           enc   == KdfEnc(asmKey, r.n)
           aad   == r.a
           accA  == WholeBlocks(aad, (Len(aad) \div BLOCK_LEN) % U32)
                    \o (IF Len(aad) % BLOCK_LEN # 0 THEN <<TailBlock(aad)>> ELSE <<>>)
           nDec  == (len % U32) - ((len % U32) % BLOCK_LEN)
           tag   == SubSeq(io, p + len + 1, Len(io))
           io1   == CtrXor(io, p, nDec, tag, enc)
           io2   == IF len % BLOCK_LEN # 0
                    THEN CryptLastBlock(tag, io1, enc, len, p) ELSE io1
           out   == SubSeq(io2, 1, len)
           accM  == WholeBlocks(io1, nDec \div BLOCK_LEN)
           accT  == IF len % BLOCK_LEN # 0 THEN <<TailBlock(out)>> ELSE <<>>
           acc   == accA \o accM \o accT \o <<LengthBlock(Len(aad), len)>>
           rec   == [n |-> r.n, a |-> aad, m |-> r.m, ct |-> r.ct, tagIn |-> tag,
                     prefix |-> p, out |-> out,
                     tag |-> Aes(enc, NonceMix(Polyval(auth, acc), r.n)),
                     auth |-> auth, enc |-> enc]
<1>1. TypeOK'
  BY OpenAccelTypeOK, CallsAssumption DEF AInv
<1>2. opened' = opened \cup {rec} /\ UNCHANGED <<asmKey, pc, loc, sealed>>
  BY DEF OpenAccel
<1> HIDE DEF io, nDec, tag, io1, io2, out, accA, accM, accT, acc, rec
<1>3. /\ r \in SealRec /\ p \in Nat /\ asmKey \in Bytes /\ aad \in Bytes
      /\ r.n \in Nonce /\ r.ct \in Bytes /\ r.tag \in Block /\ r.enc \in Bytes
      /\ r.m \in Msgs /\ r.m \in Bytes /\ r.a \in Aads
  BY CallsAssumption, BlockIsBytes DEF AInv, TypeOK, SealRec, SealedInputs
<1>4. Len(r.ct) < U32 /\ Len(r.ct) \in Nat
  <2>1. r.ct = Abs!RefCrypt(r.enc, r.tag, r.m)
    BY DEF AInv, SealMatchesReference
  <2>2. Len(r.ct) = Len(r.m)
    BY <1>3, <2>1, CryptInvolution
  <2>. QED
    BY <1>3, <2>2, LenProperties DEF ShortInputs, Bytes
<1>5. io \in Bytes /\ Len(io) = p + Len(r.ct) + TAG_LEN
  BY <1>3, OpenBufferType DEF io
<1>6. len = Len(r.ct)
  BY <1>3, <1>4, <1>5 DEF TAG_LEN, BLOCK_LEN
<1>7. tag = r.tag
  <2>1. p + len + 1 = Len(io) - TAG_LEN + 1
    BY <1>3, <1>4, <1>5, <1>6 DEF TAG_LEN, BLOCK_LEN
  <2>. QED
    BY <1>3, <2>1, OpenBufferParts DEF tag, io, TrailingTag
<1>8. nDec = Whole(r.ct)
  BY <1>4, <1>6, NoTruncation DEF Whole, nDec
<1>9. enc \in Bytes /\ auth \in Block
  BY <1>3, KdfType, BlockIsBytes
<1>10. /\ io2 \in Bytes /\ Len(io2) = Len(io)
       /\ \A j \in 1 .. Len(r.ct) : io2[j] = Abs!RefCrypt(enc, r.tag, r.ct)[j]
       /\ \A j \in 1 .. Whole(r.ct) : io2[j] = io1[j]
  <2>1. /\ p + Len(r.ct) <= Len(io)
        /\ \A j \in 1 .. Len(r.ct) : io[p + j] = r.ct[j]
    BY <1>3, <1>4, <1>5, OpenBufferParts DEF io, TAG_LEN, BLOCK_LEN
  <2>2. io1 = CtrXor(io, p, Whole(r.ct), r.tag, enc)
    BY <1>7, <1>8 DEF io1
  <2>3. io2 = IF Len(r.ct) % BLOCK_LEN # 0
              THEN CryptLastBlock(r.tag, io1, enc, Len(r.ct), p) ELSE io1
    BY <1>6, <1>7 DEF io2
  <2> DEFINE x1 == CtrXor(io, p, Whole(r.ct), r.tag, enc)
             x2 == IF Len(r.ct) % BLOCK_LEN # 0
                   THEN CryptLastBlock(r.tag, x1, enc, Len(r.ct), p) ELSE x1
  <2>4. /\ x2 \in Bytes /\ Len(x2) = Len(io)
        /\ \A j \in 1 .. Len(r.ct) : x2[j] = Abs!RefCrypt(enc, r.tag, r.ct)[j]
        /\ \A j \in 1 .. Whole(r.ct) : x2[j] = x1[j]
    <3>1. r.ct \in Bytes /\ io \in Bytes /\ p \in Nat /\ r.tag \in Block /\ enc \in Bytes
      BY <1>3, <1>5, <1>9
    <3>2. LET y1 == CtrXor(io, p, Whole(r.ct), r.tag, enc)
              y2 == IF Len(r.ct) % BLOCK_LEN # 0
                    THEN CryptLastBlock(r.tag, y1, enc, Len(r.ct), p) ELSE y1
          IN  /\ y2 \in Bytes /\ Len(y2) = Len(io)
              /\ \A j \in 1 .. Len(r.ct) : y2[j] = Abs!RefCrypt(enc, r.tag, r.ct)[j]
              /\ \A j \in 1 .. Whole(r.ct) : y2[j] = y1[j]
      BY <3>1, <2>1, CtrPassesMatchReference
    <3>. QED
      BY <3>2
  <2>. QED
    BY <2>2, <2>3, <2>4
<1>11. /\ out = Abs!RefCrypt(enc, r.tag, r.ct)
       /\ Len(out) = len
       /\ \A j \in 1 .. Whole(r.ct) : out[j] = io1[j]
  <2>1. len <= Len(io2) /\ len \in Nat
    BY <1>3, <1>4, <1>5, <1>6, <1>10 DEF TAG_LEN, BLOCK_LEN
  <2>2. /\ out \in Seq(Byte) /\ Len(out) = len
        /\ \A j \in 1 .. len : out[j] = io2[j]
    BY <1>10, <2>1, SubSeqProperties DEF out, Bytes
  <2>3. Abs!RefCrypt(enc, r.tag, r.ct) \in Seq(Byte)
        /\ Len(Abs!RefCrypt(enc, r.tag, r.ct)) = len
    BY <1>3, <1>6, <1>9, CryptInvolution DEF Bytes
  <2>4. Whole(r.ct) \in 0 .. len
    BY <1>3, <1>6, WholeBound
  <2>5. \A j \in 1 .. len : out[j] = Abs!RefCrypt(enc, r.tag, r.ct)[j]
    BY <1>6, <1>10, <2>2
  <2>6. out = Abs!RefCrypt(enc, r.tag, r.ct)
    BY <2>2, <2>3, <2>5, SeqEqual
  <2>7. \A j \in 1 .. Whole(r.ct) : out[j] = io1[j]
    BY <1>10, <2>2, <2>4
  <2>. QED
    BY <2>2, <2>6, <2>7
<1>12. out \in Bytes
  BY <1>3, <1>9, <1>11, CryptInvolution
<1>13. /\ accA = PadBlocks(aad)
       /\ accM = WholeBlocks(out, Len(out) \div BLOCK_LEN)
       /\ accT = (IF Len(out) % BLOCK_LEN = 0 THEN <<>> ELSE <<TailBlock(out)>>)
  <2>1. accA = PadBlocks(aad)
    <3>1. Len(aad) \div BLOCK_LEN < U32
      BY <1>3 DEF ShortInputs
    <3>. QED
      BY <1>3, <3>1, AadBlocksMatchPad DEF accA
  <2>2. /\ nDec \div BLOCK_LEN = Len(out) \div BLOCK_LEN
        /\ Len(out) \div BLOCK_LEN \in Nat
        /\ (Len(out) \div BLOCK_LEN) * BLOCK_LEN = Whole(r.ct)
    <3>1. Len(out) = Len(r.ct) /\ nDec = Len(r.ct) - (Len(r.ct) % BLOCK_LEN)
      BY <1>6, <1>8, <1>11 DEF Whole
    <3>2. /\ (Len(r.ct) - (Len(r.ct) % BLOCK_LEN)) \div BLOCK_LEN = Len(r.ct) \div BLOCK_LEN
          /\ Len(r.ct) \div BLOCK_LEN \in Nat
          /\ (Len(r.ct) \div BLOCK_LEN) * BLOCK_LEN = Len(r.ct) - (Len(r.ct) % BLOCK_LEN)
      BY <1>4, WholeDivision
    <3>. QED
      BY <3>1, <3>2 DEF Whole
  <2>3. accM = WholeBlocks(out, Len(out) \div BLOCK_LEN)
    BY <1>11, <2>2, WholeBlocksAgree DEF accM
  <2>. QED
    BY <1>11, <2>1, <2>3 DEF accT
<1>14. acc = PadBlocks(aad) \o PadBlocks(out) \o <<LengthBlock(Len(aad), Len(out))>>
  <2>1. accA \in Seq(Absorbed) /\ accM \in Seq(Absorbed) /\ accT \in Seq(Absorbed)
    <3>1. Len(out) \div BLOCK_LEN \in Nat
          /\ (Len(out) \div BLOCK_LEN) * BLOCK_LEN <= Len(out)
      BY <1>4, <1>6, <1>11 DEF BLOCK_LEN
    <3>2. accM \in Seq(Block) /\ accT \in Seq(Block)
      BY <1>12, <1>13, <3>1, WholeBlocksType, TailBlockType
    <3>. QED
      BY <1>3, <1>13, <3>2, PadBlocksType, AbsorbedBlocks
  <2>2. (accA \o accM) \o accT = accA \o (accM \o accT)
    BY <2>1, ConcatAssociative
  <2>3. PadBlocks(out) = accM \o accT
    BY <1>13 DEF PadBlocks
  <2>. QED
    BY <1>11, <1>13, <2>2, <2>3 DEF acc
<1>15. rec.tag = Abs!RefTag(rec.auth, rec.enc, rec.n, rec.a, rec.out)
  <2>1. rec.tag = Aes(enc, PolyvalTagPre(auth, r.n, aad, out))
    BY <1>14 DEF rec, PolyvalTagPre
  <2>2. rec.auth = auth /\ rec.enc = enc /\ rec.n = r.n /\ rec.a = aad /\ rec.out = out
    BY DEF rec
  <2>. QED
    BY <1>3, <1>12, <2>1, <2>2, PolyvalMatchesReference DEF Abs!RefTag
<1>16. rec.out = Abs!RefCrypt(rec.enc, rec.tagIn, rec.ct)
  BY <1>7, <1>11 DEF rec
<1>17. OpenMatchesReference'
  BY <1>2, <1>15, <1>16 DEF AInv, OpenMatchesReference
<1>. QED
  BY <1>1, <1>2, <1>17 DEF AInv, LocalOK, SealedInputs, SealMatchesReference

LEMMA AInvStep ==
  ASSUME AesType, PolyvalType, SingleCaller, ShortInputs
  PROVE  AInv /\ [Next]_vars => AInv'
<1> SUFFICES ASSUME AInv, [Next]_vars PROVE AInv'
  OBVIOUS
<1>1. ASSUME NEW c \in Calls, NEW n \in Nonces, NEW a \in Aads, NEW m \in Msgs,
             SealDispatch(c, n, a, m)
      PROVE  AInv'
  <2>1. CASE Path = "FALLBACK"
    BY <1>1, <2>1, SealFallbackAInv DEF SealDispatch
  <2>2. CASE Path # "FALLBACK"
    BY <1>1, <2>2, SealAccelKdfAInv DEF SealDispatch
  <2>. QED
    BY <2>1, <2>2
<1>2. ASSUME NEW r \in sealed, NEW p \in Prefixes, OpenDispatch(r, p)
      PROVE  AInv'
  <2>1. CASE Path = "FALLBACK"
    BY <1>2, <2>1, OpenFallbackAInv, CallsAssumption DEF OpenDispatch
  <2>2. CASE Path # "FALLBACK"
    BY <1>2, <2>2, OpenAccelAInv, CallsAssumption DEF OpenDispatch
  <2>. QED
    BY <2>1, <2>2
<1>3. ASSUME NEW c \in Calls, SealAccelKsEnc(c) PROVE AInv'
  BY <1>3, SealAccelKsEncAInv
<1>4. ASSUME NEW c \in Calls, SealAccelEncMsg(c) PROVE AInv'
  BY <1>4, SealAccelEncMsgAInv
<1>5. ASSUME NEW c \in Calls, SealAccelLastBlock(c) PROVE AInv'
  BY <1>5, SealAccelLastBlockAInv
<1>6. ASSUME NEW c \in Calls, SealAccelReturn(c) PROVE AInv'
  BY <1>6, SealAccelReturnAInv
<1>7. CASE UNCHANGED vars
  <2>1. TypeOK'
    BY <1>7 DEF vars, AInv, TypeOK, EncKey, PCs, Local, SealRec, OpenRec
  <2>. QED
    BY <1>7, <2>1 DEF vars, AInv, LocalOK, SealedInputs, SealMatchesReference,
                      OpenMatchesReference
<1>. QED
  BY <1>1, <1>2, <1>3, <1>4, <1>5, <1>6, <1>7 DEF Next

-----------------------------------------------------------------------------
(* Every completed seal, portable or accelerated (seal_fallback, or       *)
(* seal_aes_avxni's KDF, ks_enc, enc_msg and crypt_last_block steps),      *)
(* returned the GCM-SIV tag of its input under the subkeys it derived and  *)
(* wrote the counter-mode encryption of its message under that tag, for   *)
(* every variant, key and input set, when the Key is used by one caller    *)
(* and no input reaches the c_uint modulus.                               *)
THEOREM AccelSealCorrect ==
  ASSUME AesType, PolyvalType, SingleCaller, ShortInputs
  PROVE  Spec => []SealMatchesReference
<1>1. Init => AInv
  BY InitAInv
<1>2. AInv /\ [Next]_vars => AInv'
  BY AInvStep
<1>3. AInv => SealMatchesReference
  BY DEF AInv
<1>. QED
  BY <1>1, <1>2, <1>3, PTL DEF Spec

(* Every completed open, portable (open_fallback) or accelerated          *)
(* (open_avx_aesni), wrote from offset 0 the decryption of the ciphertext  *)
(* found after the prefix and returned the tag over that plaintext, under  *)
(* the same conditions.                                                    *)
THEOREM AccelOpenCorrect ==
  ASSUME AesType, PolyvalType, SingleCaller, ShortInputs
  PROVE  Spec => []OpenMatchesReference
<1>1. Init => AInv
  BY InitAInv
<1>2. AInv /\ [Next]_vars => AInv'
  BY AInvStep
<1>3. AInv => OpenMatchesReference
  BY DEF AInv
<1>. QED
  BY <1>1, <1>2, <1>3, PTL DEF Spec

=============================================================================
