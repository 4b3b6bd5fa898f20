---------------------------- MODULE GcmSivBlocks ----------------------------
(***************************************************************************)
(* Data geometry shared by the AES-GCM-SIV modules.                        *)
(*                                                                         *)
(* The code works on 8-bit bytes, 16-byte blocks, a 4-byte little-endian   *)
(* block counter (u32) and 12-byte nonces.  The model scales every width   *)
(* down and keeps the layout: a byte has 2 bits, a block has 4 bytes, the  *)
(* counter occupies the first 2 bytes of a block (so "u32" arithmetic is   *)
(* arithmetic modulo 16) and the nonce has the 2 remaining bytes.  The top *)
(* bit of the last byte of a block plays the role of bit 0x80 of byte 15.  *)
(*                                                                         *)
(* The block cipher and the POLYVAL universal hash are external            *)
(* collaborators of the code (aes, gcm_siv modules) and are constants:     *)
(*   Aes(k, x)       encrypts block x under raw key k;                     *)
(*   Polyval(h, bs)  is the POLYVAL value after absorbing the sequence bs  *)
(*                   of blocks, in order, from the zero accumulator, under *)
(*                   authentication key h.  Horner streaming is exact in   *)
(*                   this representation: absorbing xs and then ys from   *)
(*                   the running value is absorbing xs \o ys.             *)
(***************************************************************************)
EXTENDS Naturals, Sequences

CONSTANTS
  Aes(_, _),   \* single-block encryption of the block cipher provider
  Polyval(_, _),  \* POLYVAL over a sequence of absorbed blocks
  Variant,     \* "AES_128" or "AES_256"
  MasterKey,   \* the raw long-term key bytes given to init
  Nonces,      \* nonces the callers use
  Aads,        \* associated data the callers use
  Msgs         \* plaintexts the callers seal

BYTE == 4            \* number of byte values (2^8 scaled to 2^2)
BLOCK_LEN == 4       \* bytes per block (16 scaled to 4)
TAG_LEN == BLOCK_LEN \* the tag is one block
CTR_LEN == 2         \* little-endian counter bytes at the front of a block
NONCE_LEN == BLOCK_LEN - CTR_LEN
HALF == BLOCK_LEN \div 2   \* the "low 8 bytes" of a block
U32 == BYTE * BYTE   \* modulus of the 32-bit counter and of libc::c_uint

Byte == 0 .. BYTE - 1
Bytes == Seq(Byte)
Block == [1 .. BLOCK_LEN -> Byte]
Nonce == [1 .. NONCE_LEN -> Byte]

(* The length block of POLYVAL: two little-endian u64 bit counts.  A u64   *)
(* never overflows for the lengths the code accepts, so the fields are     *)
(* kept as numbers.                                                        *)
LenBlock == [aadBits : Nat, msgBits : Nat]
Absorbed == Block \cup LenBlock

(* Bitwise exclusive or of two 2-bit bytes. *)
Xor(a, b) == ((a + b) % 2) + 2 * (((a \div 2) + (b \div 2)) % 2)

(* x | 0x80 and x & 0x7f on the last byte of a block. *)
SetMsb(x) == (x % 2) + 2
ClearMsb(x) == x % 2

(* The value of the little-endian counter in the first CTR_LEN bytes. *)
CtrValue(blk) == blk[1] + BYTE * blk[2]

KeyLen(v) == IF v = "AES_128" THEN BLOCK_LEN ELSE 2 * BLOCK_LEN

ASSUME VariantAssumption == Variant \in {"AES_128", "AES_256"}

ASSUME MasterKeyAssumption == MasterKey \in [1 .. KeyLen(Variant) -> Byte]

ASSUME InputAssumption ==
  /\ Nonces \subseteq Nonce
  /\ \A a \in Aads : a \in Bytes
  /\ \A m \in Msgs : m \in Bytes

(* The hypotheses on the external primitives: they return blocks. *)
AesType == \A k \in Bytes, x \in Block : Aes(k, x) \in Block
PolyvalType == \A h \in Bytes, bs \in Seq(Absorbed) : Polyval(h, bs) \in Block
=============================================================================
