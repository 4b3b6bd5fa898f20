------------------------------ MODULE AeadSpec ------------------------------
(***************************************************************************)
(* What AES-GCM-SIV promises its callers, stated from the specification    *)
(* (draft-irtf-cfrg-gcmsiv, spec.md sections 4.2-4.7) and independently of *)
(* the code: every seal returns the GCM-SIV ciphertext and tag of its      *)
(* inputs under the long-term key, and every open returns the counter-mode *)
(* decryption of its input and the tag recomputed over that plaintext.     *)
(*                                                                         *)
(* The state is the history of completed operations.  The detailed model   *)
(* AesGcmSiv implements this specification under a refinement mapping      *)
(* that projects its own history onto these records.                       *)
(***************************************************************************)
EXTENDS GcmSivBlocks

VARIABLES
  sealedA,  \* completed seals: inputs, ciphertext and tag
  openedA   \* completed opens: inputs, plaintext written and tag returned

varsA == <<sealedA, openedA>>

(* The KDF input block j: little-endian counter, then the nonce.          *)
RefKdfInput(j, n) == <<j % BYTE, j \div BYTE>> \o n

(* Byte i of the key material: the low half of each encrypted KDF block,  *)
(* in order.  The first block's worth is the authentication key, the     *)
(* rest the encryption key.                                               *)
RefKdfByte(k, n, i) ==
  Aes(k, RefKdfInput((i - 1) \div HALF, n))[((i - 1) % HALF) + 1]

RefAuthKey(k, n) == [i \in 1 .. BLOCK_LEN |-> RefKdfByte(k, n, i)]
RefEncKey(k, n) ==
  [i \in 1 .. KeyLen(Variant) |-> RefKdfByte(k, n, BLOCK_LEN + i)]

(* Zero-padding of a byte string to whole blocks. *)
RefPad(s) ==
  [j \in 1 .. ((Len(s) + BLOCK_LEN - 1) \div BLOCK_LEN) |->
     [i \in 1 .. BLOCK_LEN |->
        IF (j - 1) * BLOCK_LEN + i <= Len(s)
        THEN s[(j - 1) * BLOCK_LEN + i] ELSE 0]]

(* The POLYVAL value over aad, message and length block, with the nonce   *)
(* xored into its first bytes and the top bit of its last byte cleared.   *)
RefS(auth, n, a, m) ==
  LET s == Polyval(auth, RefPad(a) \o RefPad(m)
                         \o <<[aadBits |-> 8 * Len(a), msgBits |-> 8 * Len(m)]>>)
  IN  [i \in 1 .. BLOCK_LEN |->
         IF i <= NONCE_LEN THEN Xor(s[i], n[i])
         ELSE IF i = BLOCK_LEN THEN ClearMsb(s[i])
         ELSE s[i]]

RefTag(auth, enc, n, a, m) == Aes(enc, RefS(auth, n, a, m))

(* Counter block j of the keystream seeded by tag t: top bit of the last  *)
(* byte set, j added to the 32-bit little-endian counter with wrap.        *)
RefCounter(t, j) ==
  LET c == (CtrValue(t) + j) % U32
  IN  [i \in 1 .. BLOCK_LEN |->
         IF i = 1 THEN c % BYTE
         ELSE IF i = 2 THEN c \div BYTE
         ELSE IF i = BLOCK_LEN THEN SetMsb(t[i])
         ELSE t[i]]

RefCrypt(enc, t, s) ==
  [i \in 1 .. Len(s) |->
     Xor(s[i], Aes(enc, RefCounter(t, (i - 1) \div BLOCK_LEN))
                  [((i - 1) % BLOCK_LEN) + 1])]

RefSeal(n, a, m) ==
  LET auth == RefAuthKey(MasterKey, n)
      enc  == RefEncKey(MasterKey, n)
      t    == RefTag(auth, enc, n, a, m)
  IN  [ct |-> RefCrypt(enc, t, m), tag |-> t]

RefOpen(n, a, ct, t) ==
  LET auth == RefAuthKey(MasterKey, n)
      enc  == RefEncKey(MasterKey, n)
      p    == RefCrypt(enc, t, ct)
  IN  [pt |-> p, tag |-> RefTag(auth, enc, n, a, p)]

InitA ==
  /\ sealedA = {}
  /\ openedA = {}

SealA(n, a, m) ==
  LET s == RefSeal(n, a, m)
  IN  /\ sealedA' = sealedA \cup {[n |-> n, a |-> a, m |-> m, ct |-> s.ct, tag |-> s.tag]}
      /\ UNCHANGED openedA

(* An open of the ciphertext and tag of a completed seal. *)
OpenA(r) ==
  LET o == RefOpen(r.n, r.a, r.ct, r.tag)
  IN  /\ r \in sealedA
      /\ openedA' = openedA \cup
           {[n |-> r.n, a |-> r.a, ct |-> r.ct, tagIn |-> r.tag,
             out |-> o.pt, tag |-> o.tag]}
      /\ UNCHANGED sealedA

NextA ==
  \/ \E n \in Nonces, a \in Aads, m \in Msgs : SealA(n, a, m)
  \/ \E r \in sealedA : OpenA(r)

SpecA == InitA /\ [][NextA]_varsA
=============================================================================
