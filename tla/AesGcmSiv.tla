------------------------------ MODULE AesGcmSiv ------------------------------
(***************************************************************************)
(* The seal/open layer of src/src/aead/aes_gcm_siv.rs.                     *)
(*                                                                         *)
(* One Key (built by init) is shared by concurrent callers.  Each call     *)
(* takes the path chosen by detect_implementation:                         *)
(*  - FALLBACK (seal_fallback, open_fallback) reads only the immutable raw *)
(*    key and its own buffer, so each call is one atomic step;             *)
(*  - AVX_AESNI (seal_aes_avxni, open_avx_aesni) works from the expanded   *)
(*    key schedule stored in the Key (asm_key.aes_asm_key).  A seal passes *)
(*    that stored schedule to aes*gcmsiv_aes_ks_enc_x1, which writes the   *)
(*    expansion of the per-message encryption key into it, and then       *)
(*    encrypts with whatever the stored schedule holds.  A seal is         *)
(*    therefore split into one step per access to the shared schedule.     *)
(*    An open keeps its expanded key in a local, reads the shared schedule *)
(*    once (its KDF) and is one step.                                      *)
(*                                                                         *)
(* The variable asmKey is the raw key whose expansion the stored schedule  *)
(* holds.  sealed and opened are the histories of completed calls, with    *)
(* the subkeys each call derived kept as ghost fields.                     *)
(***************************************************************************)
EXTENDS GcmSivBlocks

CONSTANTS
  Path,      \* result of gcm_siv::detect_implementation on this host
  Calls,     \* caller threads sharing the Key
  Prefixes,  \* in_prefix_len values the callers of open use
  MaxOps     \* bound on the number of seal and open calls

ASSUME PathAssumption == Path \in {"FALLBACK", "AVX_AESNI"}

ASSUME CallsAssumption == Calls # {} /\ Prefixes \subseteq Nat /\ MaxOps \in Nat

(* aead::max_input_len(BLOCK_LEN, 2): the enclosing AEAD layer refuses    *)
(* longer plaintexts.                                                      *)
AES_GCM_MAX_INPUT_LEN == (U32 - 2) * BLOCK_LEN

ASSUME MsgLenAssumption == \A m \in Msgs : Len(m) <= AES_GCM_MAX_INPUT_LEN

VARIABLES
  asmKey,  \* raw key whose expansion Key.aes_asm_key holds (shared)
  pc,      \* per call: where an accelerated seal is
  loc,     \* per call: locals of an accelerated seal in progress
  sealed,  \* completed seals
  opened,  \* completed opens
  ops      \* number of calls started

vars == <<asmKey, pc, loc, sealed, opened, ops>>

PCs == {"idle", "ks_enc", "enc_msg", "last_block", "return"}

(* A raw AES key of the variant's size, as Encryption_Key holds one. *)
EncKey == [1 .. KeyLen(Variant) -> Byte]

Local == [n : Nonce, a : Bytes, m : Bytes, buf : Bytes,
          auth : Block, enc : EncKey, tag : Block]

SealRec == [n : Nonce, a : Bytes, m : Bytes, ct : Bytes, tag : Block,
            auth : Block, enc : EncKey]

OpenRec == [n : Nonce, a : Bytes, m : Bytes, ct : Bytes, tagIn : Block,
            prefix : Nat, out : Bytes, tag : Block,
            auth : Block, enc : EncKey]

-----------------------------------------------------------------------------
(* Helpers translated from the code, or from the specification where the  *)
(* code lives in gcm_siv.rs, outside this file.                            *)

(* Mutant: the two key sizes exchanged. *)
get_encryption_key_size_swapped(v) == IF v = "AES_128" THEN 2 * BLOCK_LEN ELSE BLOCK_LEN

get_encryption_key_size(v) == IF v = "AES_128" THEN BLOCK_LEN ELSE 2 * BLOCK_LEN

(* gcm_siv KDF: key-material byte i is byte ((i-1) % HALF) + 1 of the      *)
(* encryption, under raw key k, of block (counter (i-1) \div HALF, nonce). *)
KdfStream(k, n, len) ==
  [i \in 1 .. len |->
     Aes(k, <<((i - 1) \div HALF) % BYTE, ((i - 1) \div HALF) \div BYTE>> \o n)
        [((i - 1) % HALF) + 1]]

KdfAuth(k, n) == KdfStream(k, n, BLOCK_LEN)

KdfEnc(k, n) ==
  [i \in 1 .. KeyLen(Variant) |->
     KdfStream(k, n, BLOCK_LEN + KeyLen(Variant))[BLOCK_LEN + i]]

(* Mutant: the encryption key taken from the start of the key material,  *)
(* overlapping the authentication key.                                     *)
KdfEncArrayFromZero(k, n) ==
  [i \in 1 .. 2 * BLOCK_LEN |->
     IF i <= KeyLen(Variant) THEN KdfStream(k, n, KeyLen(Variant))[i] ELSE 0]

(* The portable KDF fills the 32-byte enc_key array, zero beyond the key. *)
KdfEncArray(k, n) ==
  [i \in 1 .. 2 * BLOCK_LEN |->
     IF i <= KeyLen(Variant) THEN KdfEnc(k, n)[i] ELSE 0]

Whole(s) == Len(s) - (Len(s) % BLOCK_LEN)

(* The first k whole blocks of s, as aesgcmsiv_polyval_horner reads them. *)
WholeBlocks(s, k) ==
  [j \in 1 .. k |-> [i \in 1 .. BLOCK_LEN |-> s[(j - 1) * BLOCK_LEN + i]]]

(* Mutant: the copy into the scratch block stops one byte short. *)
TailBlockDropLast(s) ==
  [i \in 1 .. BLOCK_LEN |-> IF Whole(s) + i < Len(s) THEN s[Whole(s) + i] ELSE 0]

(* The last partial block of s copied into a zeroed scratch block. *)
TailBlock(s) ==
  [i \in 1 .. BLOCK_LEN |-> IF Whole(s) + i <= Len(s) THEN s[Whole(s) + i] ELSE 0]

PadBlocks(s) ==
  WholeBlocks(s, Len(s) \div BLOCK_LEN)
  \o (IF Len(s) % BLOCK_LEN = 0 THEN <<>> ELSE <<TailBlock(s)>>)

LengthBlock(aadLen, msgLen) == [aadBits |-> aadLen * 8, msgBits |-> msgLen * 8]

(* Nonce xored into the POLYVAL value, then the top bit cleared. *)
NonceMix(s, n) ==
  [i \in 1 .. BLOCK_LEN |->
     IF i <= NONCE_LEN THEN Xor(s[i], n[i])
     ELSE IF i = BLOCK_LEN THEN ClearMsb(s[i])
     ELSE s[i]]

(* gcm_siv_polyval / gcm_siv_asm_polyval: the tag before its encryption.  *)
PolyvalTagPre(auth, n, a, m) ==
  NonceMix(Polyval(auth, PadBlocks(a) \o PadBlocks(m)
                         \o <<LengthBlock(Len(a), Len(m))>>), n)

(* Mutant: the counter block without bit 0x80 forced. *)
CtrBlockNoMsb(tag, j) ==
  LET v == (CtrValue(tag) + j) % U32
  IN  [tag EXCEPT ![1] = v % BYTE, ![2] = v \div BYTE]

(* crypt_last_block's counter: tag with bit 0x80 of the last byte set and *)
(* j wrapping-added to its little-endian u32.                              *)
CtrBlock(tag, j) ==
  LET c == [tag EXCEPT ![BLOCK_LEN] = SetMsb(@)]
      v == (CtrValue(c) + j) % U32
  IN  [c EXCEPT ![1] = v % BYTE, ![2] = v \div BYTE]

(* Keystream byte for message byte i. *)
KsByte(k, tag, i) == Aes(k, CtrBlock(tag, (i - 1) \div BLOCK_LEN))[((i - 1) % BLOCK_LEN) + 1]

(* Mutant: the counter-mode pass reads at the output offset, ignoring the *)
(* prefix.                                                                 *)
CtrXorNoPrefix(io, prefix, nbytes, tag, k) ==
  [j \in 1 .. Len(io) |->
     IF j <= nbytes THEN Xor(io[j], KsByte(k, tag, j)) ELSE io[j]]

(* Counter-mode pass over the first nbytes bytes of the message that      *)
(* starts prefix bytes into io, written from the start of io (gcm_siv_crypt,*)
(* aes*gcmsiv_enc_msg_x4/x8 and aes*gcmsiv_dec).                           *)
CtrXor(io, prefix, nbytes, tag, k) ==
  [j \in 1 .. Len(io) |->
     IF j <= nbytes THEN Xor(io[j + prefix], KsByte(k, tag, j)) ELSE io[j]]

(* Mutant: crypt_last_block reading the partial block at the output      *)
(* offset instead of the input offset.                                     *)
CryptLastBlockNoPrefix(tag, io, k, len, prefix) ==
  LET ks  == Aes(k, CtrBlock(tag, len \div BLOCK_LEN))
      off == (len - (len % BLOCK_LEN)) + prefix
      rem == len % BLOCK_LEN
  IN  [j \in 1 .. Len(io) |->
         IF off - prefix < j /\ j <= off - prefix + rem
         THEN Xor(io[j], ks[j + prefix - off])
         ELSE io[j]]

(* crypt_last_block: the loop writes io[i - prefix] from io[i] for i from *)
(* off upwards.  Every write lands below every later read (prefix >= 0),   *)
(* so the loop equals this simultaneous update.                            *)
CryptLastBlock(tag, io, k, len, prefix) ==
  LET ks  == Aes(k, CtrBlock(tag, len \div BLOCK_LEN))
      off == (len - (len % BLOCK_LEN)) + prefix
      rem == len % BLOCK_LEN
  IN  [j \in 1 .. Len(io) |->
         IF off - prefix < j /\ j <= off - prefix + rem
         THEN Xor(io[j + prefix], ks[j + prefix - off])
         ELSE io[j]]

(* The buffer given to open: prefix bytes, ciphertext, tag. *)
OpenBuffer(r, p) == [i \in 1 .. p |-> 0] \o r.ct \o r.tag

(* open_fallback: the last TAG_LEN bytes of in_out, read as a block. *)
TrailingTag(io) == SubSeq(io, Len(io) - TAG_LEN + 1, Len(io))

-----------------------------------------------------------------------------
(* init_128 / init_256 / init: a Key whose stored schedule expands the    *)
(* raw key.                                                                *)
Init ==
  /\ asmKey = MasterKey
  /\ pc = [c \in Calls |-> "idle"]
  /\ loc = [c \in Calls |->
              [n |-> [i \in 1 .. NONCE_LEN |-> 0], a |-> <<>>, m |-> <<>>,
               buf |-> <<>>, auth |-> [i \in 1 .. BLOCK_LEN |-> 0],
               enc |-> [i \in 1 .. KeyLen(Variant) |-> 0],
               tag |-> [i \in 1 .. BLOCK_LEN |-> 0]]]
  /\ sealed = {}
  /\ opened = {}
  /\ ops = 0

(* seal_fallback: subkeys from the raw key, tag over the plaintext, then  *)
(* counter mode seeded by the encrypted tag.                               *)
SealFallback(n, a, m) ==
  /\ ops < MaxOps
  /\ LET auth == KdfAuth(MasterKey, n)
         enc  == SubSeq(KdfEncArray(MasterKey, n), 1, get_encryption_key_size(Variant))
         tag  == Aes(enc, PolyvalTagPre(auth, n, a, m))
     IN  sealed' = sealed \cup
           {[n |-> n, a |-> a, m |-> m, ct |-> CtrXor(m, 0, Len(m), tag, enc),
             tag |-> tag, auth |-> auth, enc |-> enc]}
  /\ ops' = ops + 1
  /\ UNCHANGED <<asmKey, pc, loc, opened>>

(* seal_aes_avxni up to whole_in_out_len: KDF from the stored schedule,   *)
(* the tag before encryption.                                              *)
SealAccelKdf(c, n, a, m) ==
  /\ pc[c] = "idle"
  /\ ops < MaxOps
  /\ LET auth == KdfAuth(asmKey, n)
         enc  == KdfEnc(asmKey, n)
     IN  loc' = [loc EXCEPT ![c] =
                   [n |-> n, a |-> a, m |-> m, buf |-> m, auth |-> auth,
                    enc |-> enc, tag |-> PolyvalTagPre(auth, n, a, m)]]
  /\ pc' = [pc EXCEPT ![c] = "ks_enc"]
  /\ ops' = ops + 1
  /\ UNCHANGED <<asmKey, sealed, opened>>

(* aes*gcmsiv_aes_ks_enc_x1(&out_tag, &mut out_tag, aes_asm_key, &enc_key):*)
(* expands enc_key into the Key's stored schedule and encrypts the tag.    *)
SealAccelKsEnc(c) ==
  /\ pc[c] = "ks_enc"
  /\ asmKey' = loc[c].enc
  /\ loc' = [loc EXCEPT ![c].tag = Aes(loc[c].enc, @)]
  /\ pc' = [pc EXCEPT ![c] = "enc_msg"]
  /\ UNCHANGED <<sealed, opened, ops>>

(* aes*gcmsiv_enc_msg_x4/x8 over whole_in_out_len as libc::c_uint bytes,  *)
(* with the stored schedule; then the partial-block test.                  *)
SealAccelEncMsg(c) ==
  /\ pc[c] = "enc_msg"
  /\ LET buf == loc[c].buf
     IN  /\ loc' = [loc EXCEPT ![c].buf =
                      CtrXor(buf, 0, Whole(buf) % U32, loc[c].tag, asmKey)]
         /\ pc' = [pc EXCEPT ![c] =
                     IF Len(buf) % BLOCK_LEN # 0 THEN "last_block" ELSE "return"]
  /\ UNCHANGED <<asmKey, sealed, opened, ops>>

(* crypt_last_block(&out_tag.tag, in_out, aes_asm_key, variant, len, 0). *)
SealAccelLastBlock(c) ==
  /\ pc[c] = "last_block"
  /\ loc' = [loc EXCEPT ![c].buf =
               CryptLastBlock(loc[c].tag, @, asmKey, Len(@), 0)]
  /\ pc' = [pc EXCEPT ![c] = "return"]
  /\ UNCHANGED <<asmKey, sealed, opened, ops>>

(* return Tag(out_tag): the buffer holds the ciphertext. *)
SealAccelReturn(c) ==
  /\ pc[c] = "return"
  /\ sealed' = sealed \cup
       {[n |-> loc[c].n, a |-> loc[c].a, m |-> loc[c].m, ct |-> loc[c].buf,
         tag |-> loc[c].tag, auth |-> loc[c].auth, enc |-> loc[c].enc]}
  /\ pc' = [pc EXCEPT ![c] = "idle"]
  /\ UNCHANGED <<asmKey, loc, opened, ops>>

(* open_fallback on the ciphertext and tag of seal r behind p prefix bytes.*)
OpenFallback(r, p) ==
  /\ ops < MaxOps
  /\ LET io   == OpenBuffer(r, p)
         len  == Len(io)
         tag  == TrailingTag(io)
         auth == KdfAuth(MasterKey, r.n)
         enc  == SubSeq(KdfEncArray(MasterKey, r.n), 1, get_encryption_key_size(Variant))
         io1  == CtrXor(SubSeq(io, 1, len - TAG_LEN), p, len - TAG_LEN - p, tag, enc)
         pt   == SubSeq(io1, 1, len - TAG_LEN - p)
     IN  opened' = opened \cup
           {[n |-> r.n, a |-> r.a, m |-> r.m, ct |-> r.ct, tagIn |-> tag,
             prefix |-> p, out |-> pt,
             tag |-> Aes(enc, PolyvalTagPre(auth, r.n, r.a, pt)),
             auth |-> auth, enc |-> enc]}
  /\ ops' = ops + 1
  /\ UNCHANGED <<asmKey, pc, loc, sealed>>

(* open_avx_aesni: KDF from the stored schedule into a local expanded key;*)
(* POLYVAL over the aad blocks ((len / 16) as libc::c_uint of them) and    *)
(* its zero-padded tail; aes*gcmsiv_dec over (len as libc::c_uint) bytes,  *)
(* absorbing each plaintext block; the partial block by crypt_last_block   *)
(* with the tag that follows the ciphertext and its plaintext absorbed;    *)
(* the length block; nonce and top bit; encryption.                        *)
OpenAccel(r, p) ==
  /\ ops < MaxOps
  /\ LET io    == OpenBuffer(r, p)
         len   == Len(io) - TAG_LEN - p
         auth  == KdfAuth(asmKey, r.n)
         enc   == KdfEnc(asmKey, r.n)
         a     == r.a
         accA  == WholeBlocks(a, (Len(a) \div BLOCK_LEN) % U32)
                  \o (IF Len(a) % BLOCK_LEN # 0 THEN <<TailBlock(a)>> ELSE <<>>)
         nDec  == (len % U32) - ((len % U32) % BLOCK_LEN)
         tag   == SubSeq(io, p + len + 1, Len(io))
         io1   == CtrXor(io, p, nDec, tag, enc)
         io2   == IF len % BLOCK_LEN # 0
                  THEN CryptLastBlock(tag, io1, enc, len, p) ELSE io1
         acc   == accA \o WholeBlocks(io1, nDec \div BLOCK_LEN)
                  \o (IF len % BLOCK_LEN # 0
                      THEN <<TailBlock(SubSeq(io2, 1, len))>> ELSE <<>>)
                  \o <<LengthBlock(Len(a), len)>>
     IN  opened' = opened \cup
           {[n |-> r.n, a |-> a, m |-> r.m, ct |-> r.ct, tagIn |-> tag,
             prefix |-> p, out |-> SubSeq(io2, 1, len),
             tag |-> Aes(enc, NonceMix(Polyval(auth, acc), r.n)),
             auth |-> auth, enc |-> enc]}
  /\ ops' = ops + 1
  /\ UNCHANGED <<asmKey, pc, loc, sealed>>

(* aes_gcm_siv_seal / aes_gcm_siv_open: dispatch on the implementation. *)
SealDispatch(c, n, a, m) ==
  IF Path = "FALLBACK" THEN SealFallback(n, a, m) ELSE SealAccelKdf(c, n, a, m)

OpenDispatch(r, p) ==
  IF Path = "FALLBACK" THEN OpenFallback(r, p) ELSE OpenAccel(r, p)

Next ==
  \/ \E c \in Calls, n \in Nonces, a \in Aads, m \in Msgs : SealDispatch(c, n, a, m)
  \/ \E r \in sealed, p \in Prefixes : OpenDispatch(r, p)
  \/ \E c \in Calls :
       \/ SealAccelKsEnc(c)
       \/ SealAccelEncMsg(c)
       \/ SealAccelLastBlock(c)
       \/ SealAccelReturn(c)

Spec == Init /\ [][Next]_vars

-----------------------------------------------------------------------------
(* Type correctness: the stored schedule always expands a key of the      *)
(* variant's size, and every call derives an authentication key of one    *)
(* block, an encryption key of the variant's size (get_encryption_key_size *)
(* slices the 32-byte KDF output to it) and a one-block tag.               *)
TypeOK ==
  /\ asmKey \in EncKey
  /\ pc \in [Calls -> PCs]
  /\ loc \in [Calls -> Local]
  /\ sealed \subseteq SealRec
  /\ opened \subseteq OpenRec
  /\ ops \in 0 .. MaxOps

Abs == INSTANCE AeadSpec WITH
         sealedA <- {[n |-> r.n, a |-> r.a, m |-> r.m, ct |-> r.ct, tag |-> r.tag]
                      : r \in sealed},
         openedA <- {[n |-> r.n, a |-> r.a, ct |-> r.ct, tagIn |-> r.tagIn,
                      out |-> r.out, tag |-> r.tag] : r \in opened}

(* Every open of a sealed ciphertext, through the same Key object, writes *)
(* the sealed plaintext at offset 0 and returns the sealed tag, whatever   *)
(* the prefix and whatever calls came before (spec.md section 8.1).        *)
RoundTrip ==
  \A r \in opened : r.out = r.m /\ r.tag = r.tagIn

(* Every completed seal returned the GCM-SIV tag and ciphertext under the *)
(* subkeys that seal derived: its tag is computed over its plaintext and   *)
(* every byte is encrypted once with the keystream of that tag and of that *)
(* encryption key, whatever other calls did to the Key meanwhile.          *)
SealMatchesReference ==
  \A r \in sealed :
    /\ r.tag = Abs!RefTag(r.auth, r.enc, r.n, r.a, r.m)
    /\ r.ct = Abs!RefCrypt(r.enc, r.tag, r.m)

(* Every completed open wrote, from offset 0, the counter-mode decryption *)
(* of the ciphertext found after the prefix under the given tag, and      *)
(* returned the tag over that plaintext, under the subkeys it derived.     *)
OpenMatchesReference ==
  \A r \in opened :
    /\ r.out = Abs!RefCrypt(r.enc, r.tagIn, r.ct)
    /\ r.tag = Abs!RefTag(r.auth, r.enc, r.n, r.a, r.out)

(* The keystream of a seal is seeded by the tag before its final         *)
(* encryption, the POLYVAL value after nonce mixing and the top-bit clear  *)
(* (spec.md section 4.4), as seal_fallback's gcm_siv_crypt and            *)
(* seal_aes_avxni's enc_msg calls would have it.                           *)
CounterSeededByPreTag ==
  \A r \in sealed :
    r.ct = Abs!RefCrypt(r.enc, Abs!RefS(r.auth, r.n, r.a, r.m), r.m)

(* The operations behave as the abstract AEAD of AeadSpec under the       *)
(* long-term key: the Key object is a pure, immutable function.            *)
AeadRefinement == Abs!SpecA
=============================================================================
