---------------------- MODULE TestDataAlignmentsProofs ----------------------
(***************************************************************************)
(* Proof that test_data_alignments passes for every nonce, aad and message *)
(* of the model's sets, on either path, when its inputs are shorter than   *)
(* the 32-bit length modulus: its four assert_eq! hold in every state of   *)
(* TestSpec.  The test runs on one thread, so the Key has one caller.      *)
(*                                                                         *)
(* The argument: the seal runs on the first Key, whose stored schedule    *)
(* expands the raw key, so its KDF yields the reference subkeys and, by   *)
(* AInv, the reference tag and ciphertext.  The second init restores the  *)
(* stored schedule that the seal's ks_enc overwrote, so the open derives  *)
(* the same subkeys and undoes the seal.                                   *)
(***************************************************************************)
EXTENDS TestDataAlignments, AesGcmSivAccelProofs

(* A seal in progress or completed derived its subkeys from the raw key. *)
MasterKeyed(x) ==
  /\ x.auth = Abs!RefAuthKey(MasterKey, x.n)
  /\ x.enc = Abs!RefEncKey(MasterKey, x.n)

(* How far the test body has run, and what that says of the Key. *)
TestPhase ==
  /\ step \in {"seal", "sealing", "open", "done"}
  /\ step = "seal" => sealed = {} /\ asmKey = MasterKey
  /\ step \in {"seal", "sealing"} => opened = {}
  /\ step = "sealing" /\ sealed # {} => AllIdle
  /\ step \in {"seal", "open", "done"} => AllIdle
  /\ step = "open" => asmKey = MasterKey

Keyed ==
  /\ \A c \in Calls : pc[c] # "idle" => MasterKeyed(loc[c])
  /\ \A r \in sealed : MasterKeyed(r)

TInv == AInv /\ TestPhase /\ Keyed /\ TestAssertions

-----------------------------------------------------------------------------
(* The accelerated KDF's encryption key is the reference one. *)
LEMMA KdfEncMatchesReference ==
  ASSUME NEW k, NEW n
  PROVE  KdfEnc(k, n) = Abs!RefEncKey(k, n)
<1>1. KeyLen(Variant) \in Nat /\ Abs!KeyLen(Variant) = KeyLen(Variant)
  BY KeyLenFacts DEF BLOCK_LEN, Abs!KeyLen, KeyLen, Abs!BLOCK_LEN
<1>2. \A i \in 1 .. KeyLen(Variant) :
        KdfEnc(k, n)[i] = Abs!RefKdfByte(k, n, BLOCK_LEN + i)
  BY <1>1 DEF KdfEnc, KdfStream, Abs!RefKdfByte, Abs!RefKdfInput,
              Abs!HALF, Abs!BYTE, Abs!BLOCK_LEN, BLOCK_LEN, HALF, BYTE
<1>. QED
  BY <1>1, <1>2 DEF KdfEnc, Abs!RefEncKey, Abs!BLOCK_LEN, BLOCK_LEN

(* A completed seal with the reference subkeys of the raw key returned    *)
(* the known answer.                                                       *)
LEMMA SealedAsserted ==
  ASSUME NEW S,
         \A r \in S : /\ r.tag = Abs!RefTag(r.auth, r.enc, r.n, r.a, r.m)
                     /\ r.ct = Abs!RefCrypt(r.enc, r.tag, r.m),
         \A r \in S : MasterKeyed(r)
  PROVE  \A r \in S :
           r.tag = Expected(r.n, r.a, r.m).tag /\ r.ct = Expected(r.n, r.a, r.m).ct
BY DEF MasterKeyed, Expected, Abs!RefSeal

(* An open at prefix 0 on the first Key's raw-key schedule reads the      *)
(* sealed tag behind the ciphertext and derives the raw key's subkeys.     *)
LEMMA TestOpenRecord ==
  ASSUME AesType, TypeOK, asmKey = MasterKey, NEW r \in sealed, OpenDispatch(r, 0)
  PROVE  \E o : /\ opened' = opened \cup {o}
                /\ o.n = r.n /\ o.a = r.a /\ o.m = r.m /\ o.ct = r.ct /\ o.tagIn = r.tag
                /\ MasterKeyed(o)
<1>1. r \in SealRec /\ r.n \in Nonce
  BY DEF TypeOK, SealRec
<1> DEFINE io == OpenBuffer(r, 0)
<1>2. TrailingTag(io) = r.tag
  BY <1>1, OpenBufferParts
<1>3. CASE Path = "FALLBACK"
  <2> DEFINE len == Len(io)
             io1 == CtrXor(SubSeq(io, 1, len - TAG_LEN), 0, len - TAG_LEN - 0,
                           TrailingTag(io), FbEnc(r.n))
             pt  == SubSeq(io1, 1, len - TAG_LEN - 0)
             o   == [n |-> r.n, a |-> r.a, m |-> r.m, ct |-> r.ct, tagIn |-> TrailingTag(io),
                     prefix |-> 0, out |-> pt,
                     tag |-> Aes(FbEnc(r.n), PolyvalTagPre(FbAuth(r.n), r.n, r.a, pt)),
                     auth |-> FbAuth(r.n), enc |-> FbEnc(r.n)]
  <2>1. opened' = opened \cup {o}
    BY <1>3 DEF OpenDispatch, OpenFallback, FbAuth, FbEnc
  <2>2. MasterKeyed(o)
    BY <1>1, FallbackKeys DEF MasterKeyed
  <2>. QED
    BY <1>2, <2>1, <2>2
<1>4. CASE Path # "FALLBACK"
  <2> DEFINE len   == Len(io) - TAG_LEN - 0
             auth  == KdfAuth(asmKey, r.n)
             enc   == KdfEnc(asmKey, r.n)
             aad   == r.a
             accA  == WholeBlocks(aad, (Len(aad) \div BLOCK_LEN) % U32)
                      \o (IF Len(aad) % BLOCK_LEN # 0 THEN <<TailBlock(aad)>> ELSE <<>>)
             nDec  == (len % U32) - ((len % U32) % BLOCK_LEN)
             tag   == SubSeq(io, 0 + len + 1, Len(io))
             io1   == CtrXor(io, 0, nDec, tag, enc)
             io2   == IF len % BLOCK_LEN # 0
                      THEN CryptLastBlock(tag, io1, enc, len, 0) ELSE io1
             acc   == accA \o WholeBlocks(io1, nDec \div BLOCK_LEN)
                      \o (IF len % BLOCK_LEN # 0
                          THEN <<TailBlock(SubSeq(io2, 1, len))>> ELSE <<>>)
                      \o <<LengthBlock(Len(aad), len)>>
             o     == [n |-> r.n, a |-> aad, m |-> r.m, ct |-> r.ct, tagIn |-> tag,
                       prefix |-> 0, out |-> SubSeq(io2, 1, len),
                       tag |-> Aes(enc, NonceMix(Polyval(auth, acc), r.n)),
                       auth |-> auth, enc |-> enc]
  <2>1. opened' = opened \cup {o}
    BY <1>4 DEF OpenDispatch, OpenAccel
  <2> HIDE DEF io1, io2, acc, accA
  <2>2. tag = r.tag
    <3>1. io \in Bytes /\ Len(io) = 0 + Len(r.ct) + TAG_LEN /\ Len(r.ct) \in Nat
      BY <1>1, OpenBufferType, LenProperties DEF SealRec, Bytes
    <3>2. 0 + len + 1 = Len(io) - TAG_LEN + 1
      BY <3>1 DEF TAG_LEN, BLOCK_LEN
    <3>. QED
      BY <1>2, <3>2 DEF TrailingTag
  <2>3. MasterKeyed(o)
    BY KdfMatchesReference, KdfEncMatchesReference DEF MasterKeyed
  <2>. QED
    BY <2>1, <2>2, <2>3
<1>. QED
  BY <1>3, <1>4

(* The record an open reads is the sealed record when its ciphertext is   *)
(* the sealed ciphertext.                                                  *)
LEMMA SameRecord ==
  ASSUME NEW r \in SealRec
  PROVE  [r EXCEPT !.ct = r.ct] = r
BY DEF SealRec

LEMMA TInvInit == TestInit => TInv
<1> SUFFICES ASSUME TestInit PROVE TInv
  OBVIOUS
<1>1. AInv
  BY InitAInv DEF TestInit
<1>. QED
  BY <1>1 DEF TestInit, Init, TInv, TestPhase, AllIdle, Keyed, TestAssertions


-----------------------------------------------------------------------------
(* Every step of the test keeps TInv. *)

(* The seals' part of the assertions follows from AInv and Keyed. *)
LEMMA SealsAsserted ==
  ASSUME AInv', Keyed'
  PROVE  (\A r \in sealed :
            r.tag = Expected(r.n, r.a, r.m).tag /\ r.ct = Expected(r.n, r.a, r.m).ct)'
<1>1. \A r \in sealed' : /\ r.tag = Abs!RefTag(r.auth, r.enc, r.n, r.a, r.m)
                         /\ r.ct = Abs!RefCrypt(r.enc, r.tag, r.m)
  BY DEF AInv, SealMatchesReference
<1>2. \A r \in sealed' : MasterKeyed(r)
  BY DEF Keyed
<1>. QED
  BY <1>1, <1>2, SealedAsserted

LEMMA TestSealTInv ==
  ASSUME AesType, PolyvalType, SingleCaller, ShortInputs, TInv,
         NEW n \in Nonces, NEW a \in Aads, NEW m \in Msgs, TestSeal(n, a, m)
  PROVE  TInv'
<1>1. PICK c \in Calls : SealDispatch(c, n, a, m)
  BY DEF TestSeal
<1>2. step = "seal" /\ step' = "sealing"
  BY DEF TestSeal
<1>3. AInv'
  <2>1. Next
    BY <1>1 DEF Next
  <2>. QED
    BY <2>1, AInvStep DEF TInv
<1>4. sealed = {} /\ asmKey = MasterKey /\ AllIdle /\ opened = {}
  BY <1>2 DEF TInv, TestPhase
<1>5. n \in Nonce /\ loc \in [Calls -> Local]
  BY InputAssumption DEF TInv, AInv, TypeOK
<1>6. /\ opened' = opened
      /\ \A c2 \in Calls : pc'[c2] # "idle" => MasterKeyed(loc'[c2])
      /\ \A r \in sealed' : MasterKeyed(r)
      /\ sealed' # {} => AllIdle'
  <2>1. CASE Path = "FALLBACK"
    <3> DEFINE auth == KdfAuth(MasterKey, n)
               enc  == SubSeq(KdfEncArray(MasterKey, n), 1, get_encryption_key_size(Variant))
               tag  == Aes(enc, PolyvalTagPre(auth, n, a, m))
               rec  == [n |-> n, a |-> a, m |-> m, ct |-> CtrXor(m, 0, Len(m), tag, enc),
                        tag |-> tag, auth |-> auth, enc |-> enc]
    <3>2. sealed' = sealed \cup {rec} /\ UNCHANGED <<pc, loc, opened>>
      BY <1>1, <2>1 DEF SealDispatch, SealFallback
    <3>3. MasterKeyed(rec)
      BY KdfMatchesReference DEF MasterKeyed
    <3>. QED
      BY <1>4, <3>2, <3>3 DEF AllIdle
  <2>2. CASE Path # "FALLBACK"
    <3> DEFINE auth == KdfAuth(asmKey, n)
               enc  == KdfEnc(asmKey, n)
               L    == [n |-> n, a |-> a, m |-> m, buf |-> m, auth |-> auth,
                        enc |-> enc, tag |-> PolyvalTagPre(auth, n, a, m)]
    <3>3. /\ loc' = [loc EXCEPT ![c] = L]
          /\ pc' = [pc EXCEPT ![c] = "ks_enc"]
          /\ UNCHANGED <<sealed, opened>>
      BY <1>1, <2>2 DEF SealDispatch, SealAccelKdf
    <3>4. MasterKeyed(loc'[c])
      BY <1>4, <1>5, <3>3, KdfMatchesReference, KdfEncMatchesReference DEF MasterKeyed
    <3>. QED
      BY <1>4, <3>3, <3>4, OnlyCaller
  <2>. QED
    BY <2>1, <2>2
<1>7. TestPhase'
  BY <1>2, <1>4, <1>6 DEF TestPhase
<1>8. Keyed'
  BY <1>6 DEF Keyed
<1>. QED
  BY <1>3, <1>4, <1>6, <1>7, <1>8, SealsAsserted DEF TInv, TestAssertions


(* ks_enc, enc_msg and crypt_last_block change only the tag and the       *)
(* buffer of the call's locals, never its nonce or subkeys.                *)
LEMMA LocalKeysKept ==
  ASSUME NEW c \in Calls, loc \in [Calls -> Local], NEW v,
         \/ loc' = [loc EXCEPT ![c].tag = v]
         \/ loc' = [loc EXCEPT ![c].buf = v]
  PROVE  /\ loc'[c].n = loc[c].n /\ loc'[c].auth = loc[c].auth
         /\ loc'[c].enc = loc[c].enc
BY DEF Local

LEMMA TestSealStepTInv ==
  ASSUME AesType, PolyvalType, SingleCaller, ShortInputs, TInv, TestSealStep
  PROVE  TInv'
<1>1. PICK c \in Calls : \/ SealAccelKsEnc(c) \/ SealAccelEncMsg(c)
                         \/ SealAccelLastBlock(c) \/ SealAccelReturn(c)
  BY DEF TestSealStep
<1>2. step = "sealing" /\ step' = "sealing"
  BY DEF TestSealStep
<1>3. AInv'
  <2>1. Next
    BY <1>1 DEF Next
  <2>. QED
    BY <2>1, AInvStep DEF TInv
<1>4. loc \in [Calls -> Local] /\ opened = {}
  BY <1>2 DEF TInv, AInv, TypeOK, TestPhase
<1>5. pc[c] # "idle" /\ MasterKeyed(loc[c]) /\ sealed = {}
  <2>1. pc[c] # "idle"
    BY <1>1 DEF SealAccelKsEnc, SealAccelEncMsg, SealAccelLastBlock, SealAccelReturn
  <2>2. sealed = {}
    BY <1>2, <2>1 DEF TInv, TestPhase, AllIdle
  <2>. QED
    BY <2>1, <2>2 DEF TInv, Keyed
<1>6. /\ opened' = opened
      /\ \A c2 \in Calls : pc'[c2] # "idle" => MasterKeyed(loc'[c2])
      /\ \A r \in sealed' : MasterKeyed(r)
      /\ sealed' # {} => AllIdle'
  <2>1. CASE SealAccelReturn(c)
    <3> DEFINE rec == [n |-> loc[c].n, a |-> loc[c].a, m |-> loc[c].m, ct |-> loc[c].buf,
                       tag |-> loc[c].tag, auth |-> loc[c].auth, enc |-> loc[c].enc]
    <3>1. sealed' = sealed \cup {rec} /\ pc' = [pc EXCEPT ![c] = "idle"]
          /\ UNCHANGED <<loc, opened>>
      BY <2>1 DEF SealAccelReturn
    <3>2. MasterKeyed(rec)
      BY <1>5 DEF MasterKeyed
    <3>3. AllIdle'
      BY <1>4, <3>1, OnlyCaller DEF AllIdle, TInv, AInv, TypeOK
    <3>. QED
      BY <1>5, <3>1, <3>2, <3>3 DEF AllIdle
  <2>2. CASE SealAccelKsEnc(c) \/ SealAccelEncMsg(c) \/ SealAccelLastBlock(c)
    <3>1. /\ \E v : \/ loc' = [loc EXCEPT ![c].tag = v]
                    \/ loc' = [loc EXCEPT ![c].buf = v]
          /\ UNCHANGED <<sealed, opened>>
      BY <2>2 DEF SealAccelKsEnc, SealAccelEncMsg, SealAccelLastBlock
    <3>2. MasterKeyed(loc'[c])
      BY <1>4, <1>5, <3>1, LocalKeysKept DEF MasterKeyed
    <3>. QED
      BY <1>5, <3>1, <3>2, OnlyCaller
  <2>. QED
    BY <1>1, <2>1, <2>2
<1>7. TestPhase'
  BY <1>2, <1>4, <1>6 DEF TestPhase
<1>8. Keyed'
  BY <1>6 DEF Keyed
<1>. QED
  BY <1>3, <1>4, <1>6, <1>7, <1>8, SealsAsserted DEF TInv, TestAssertions


LEMMA TestReinitTInv ==
  ASSUME TInv, TestReinit
  PROVE  TInv'
<1>1. /\ step = "sealing" /\ sealed # {} /\ step' = "open" /\ asmKey' = MasterKey
      /\ UNCHANGED <<pc, loc, sealed, opened, ops>>
  BY DEF TestReinit
<1>2. AllIdle /\ opened = {}
  BY <1>1 DEF TInv, TestPhase
<1>3. TypeOK'
  <2>1. MasterKey \in EncKey
    BY MasterKeyAssumption DEF EncKey
  <2>. QED
    BY <1>1, <2>1 DEF TInv, AInv, TypeOK
<1>4. \A c \in Calls : LocalOK(c)'
  BY <1>1, <1>2 DEF AllIdle, LocalOK
<1>5. AInv'
  BY <1>1, <1>3, <1>4 DEF TInv, AInv, SealedInputs, SealMatchesReference,
                          OpenMatchesReference
<1>6. TestPhase'
  BY <1>1, <1>2 DEF TestPhase, AllIdle
<1>. QED
  BY <1>1, <1>5, <1>6 DEF TInv, Keyed, TestAssertions

LEMMA TestOpenTInv ==
  ASSUME AesType, PolyvalType, ShortInputs, TInv, TestOpen
  PROVE  TInv'
<1>1. PICK r \in sealed : OpenDispatch([r EXCEPT !.ct = Expected(r.n, r.a, r.m).ct], 0)
  BY DEF TestOpen
<1>2. step = "open" /\ step' = "done"
  BY DEF TestOpen
<1>3. /\ TypeOK /\ r \in SealRec /\ asmKey = MasterKey /\ AllIdle
      /\ r.ct = Expected(r.n, r.a, r.m).ct /\ r.tag = Expected(r.n, r.a, r.m).tag
  BY <1>2 DEF TInv, AInv, TypeOK, TestPhase, TestAssertions
<1>4. OpenDispatch(r, 0)
  BY <1>1, <1>3, SameRecord
<1>5. AInv'
  <2>1. CASE Path = "FALLBACK"
    BY <1>4, <2>1, OpenFallbackAInv DEF OpenDispatch, TInv
  <2>2. CASE Path # "FALLBACK"
    BY <1>4, <2>2, OpenAccelAInv DEF OpenDispatch, TInv
  <2>. QED
    BY <2>1, <2>2
<1>6. UNCHANGED <<asmKey, pc, loc, sealed>>
  BY <1>4 DEF OpenDispatch, OpenFallback, OpenAccel
<1>7. PICK o : /\ opened' = opened \cup {o}
               /\ o.n = r.n /\ o.a = r.a /\ o.m = r.m /\ o.ct = r.ct /\ o.tagIn = r.tag
               /\ MasterKeyed(o)
  BY <1>3, <1>4, TestOpenRecord
<1>8. o.out = o.m /\ o.tag = Expected(o.n, o.a, o.m).tag
  <2>1. /\ o.out = Abs!RefCrypt(o.enc, o.tagIn, o.ct)
        /\ o.tag = Abs!RefTag(o.auth, o.enc, o.n, o.a, o.out)
    BY <1>5, <1>7 DEF AInv, OpenMatchesReference
  <2>2. /\ r.ct = Abs!RefCrypt(r.enc, r.tag, r.m)
        /\ r.tag = Abs!RefTag(r.auth, r.enc, r.n, r.a, r.m)
    BY DEF TInv, AInv, SealMatchesReference
  <2>3. o.enc = r.enc /\ o.auth = r.auth
    BY <1>7 DEF TInv, Keyed, MasterKeyed
  <2>4. Abs!RefCrypt(r.enc, r.tag, Abs!RefCrypt(r.enc, r.tag, r.m)) = r.m
    <3>1. r.m \in Bytes /\ r.tag \in Block /\ r.enc \in Bytes
      BY <1>3, BlockIsBytes DEF SealRec
    <3>. QED
      BY <3>1, CryptInvolution
  <2>5. o.out = r.m
    BY <1>7, <2>1, <2>2, <2>3, <2>4
  <2>. QED
    BY <1>3, <1>7, <2>1, <2>2, <2>3, <2>5
<1>9. TestPhase'
  BY <1>2, <1>3, <1>6 DEF TestPhase, AllIdle
<1>10. TestAssertions'
  BY <1>6, <1>7, <1>8 DEF TInv, TestAssertions
<1>. QED
  BY <1>5, <1>6, <1>9, <1>10 DEF TInv, Keyed


LEMMA TInvStep ==
  ASSUME AesType, PolyvalType, SingleCaller, ShortInputs
  PROVE  TInv /\ [TestNext]_tvars => TInv'
<1> SUFFICES ASSUME TInv, [TestNext]_tvars PROVE TInv'
  OBVIOUS
<1>1. ASSUME NEW n \in Nonces, NEW a \in Aads, NEW m \in Msgs, TestSeal(n, a, m)
      PROVE  TInv'
  BY <1>1, TestSealTInv
<1>2. ASSUME TestSealStep PROVE TInv'
  BY <1>2, TestSealStepTInv
<1>3. ASSUME TestReinit PROVE TInv'
  BY <1>3, TestReinitTInv
<1>4. ASSUME TestOpen PROVE TInv'
  BY <1>4, TestOpenTInv
<1>5. ASSUME UNCHANGED tvars PROVE TInv'
  <2>1. TypeOK'
    BY <1>5 DEF tvars, vars, TInv, AInv, TypeOK, EncKey, PCs, Local, SealRec, OpenRec
  <2>. QED
    BY <1>5, <2>1 DEF tvars, vars, TInv, AInv, LocalOK, SealedInputs, SealMatchesReference,
                      OpenMatchesReference, TestPhase, AllIdle, Keyed, TestAssertions
<1>. QED
  BY <1>1, <1>2, <1>3, <1>4, <1>5 DEF TestNext

-----------------------------------------------------------------------------
(* test_data_alignments passes for every nonce, aad and message of the    *)
(* model's sets and for either implementation: in every state of the test *)
(* body the seal has returned the known-answer tag and left the known      *)
(* ciphertext, and the open on the re-initialised Key has returned the     *)
(* same tag and left the plaintext, provided the test's one thread is the  *)
(* Key's only caller and its inputs are shorter than the 32-bit length     *)
(* modulus.                                                                *)
THEOREM TestDataAlignmentsPass ==
  ASSUME AesType, PolyvalType, SingleCaller, ShortInputs
  PROVE  TestSpec => []TestAssertions
<1>1. TestInit => TInv
  BY TInvInit
<1>2. TInv /\ [TestNext]_tvars => TInv'
  BY TInvStep
<1>3. TInv => TestAssertions
  BY DEF TInv
<1>. QED
  BY <1>1, <1>2, <1>3, PTL DEF TestSpec

=============================================================================
