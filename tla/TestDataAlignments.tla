------------------------- MODULE TestDataAlignments -------------------------
(***************************************************************************)
(* The unit test test_data_alignments of aes_gcm_siv.rs, run over every    *)
(* nonce, aad and message of the model's sets instead of its one vector.  *)
(*                                                                         *)
(* The test builds a Key with init, seals through aes_gcm_siv_seal and     *)
(* checks the ciphertext and tag against the known answer.  It then        *)
(* builds a second Key from the same bytes (the first is shadowed and no   *)
(* longer used), opens the known ciphertext followed by the returned tag   *)
(* at prefix 0, and checks the recomputed tag and the plaintext.  The      *)
(* known answers are the GCM-SIV values of AeadSpec.  The slices taken at  *)
(* odd offsets of larger buffers, which are what the test's name refers    *)
(* to, change no value and are left out.                                   *)
(***************************************************************************)
EXTENDS MCAesGcmSiv

VARIABLE step  \* how far the test body has run

tvars == <<vars, step>>

(* The known-answer ciphertext and tag of the test's vector. *)
Expected(n, a, m) == Abs!RefSeal(n, a, m)

(* let key = init(..): the first Key, then the call of aes_gcm_siv_seal. *)
TestInit == Init /\ step = "seal"

TestSeal(n, a, m) ==
  /\ step = "seal"
  /\ \E c \in Calls : SealDispatch(c, n, a, m)
  /\ step' = "sealing"

(* The rest of an accelerated seal, until it returns its tag. *)
TestSealStep ==
  /\ step = "sealing"
  /\ \E c \in Calls :
       \/ SealAccelKsEnc(c)
       \/ SealAccelEncMsg(c)
       \/ SealAccelLastBlock(c)
       \/ SealAccelReturn(c)
  /\ UNCHANGED step

(* let key = init(..) again: a new Key, built from the same bytes. *)
TestReinit ==
  /\ step = "sealing"
  /\ sealed # {}
  /\ asmKey' = MasterKey
  /\ step' = "open"
  /\ UNCHANGED <<pc, loc, sealed, opened, ops>>

(* The open buffer holds the known ciphertext and the tag seal returned. *)
TestOpen ==
  /\ step = "open"
  /\ \E r \in sealed :
       OpenDispatch([r EXCEPT !.ct = Expected(r.n, r.a, r.m).ct], 0)
  /\ step' = "done"

TestNext ==
  \/ \E n \in Nonces, a \in Aads, m \in Msgs : TestSeal(n, a, m)
  \/ TestSealStep
  \/ TestReinit
  \/ TestOpen

TestSpec == TestInit /\ [][TestNext]_tvars

(* The test's four assert_eq!: the seal returns the known-answer tag and   *)
(* leaves the known ciphertext in the buffer; the open on the fresh Key    *)
(* returns the same tag and leaves the plaintext at offset 0.              *)
TestAssertions ==
  /\ \A r \in sealed :
       r.tag = Expected(r.n, r.a, r.m).tag /\ r.ct = Expected(r.n, r.a, r.m).ct
  /\ \A r \in opened :
       r.tag = Expected(r.n, r.a, r.m).tag /\ r.out = r.m
=============================================================================
