# TLA+ models of the AES-GCM-SIV seal/open layer

This directory holds a formal model of `src/src/aead/aes_gcm_siv.rs`, the
AES-GCM-SIV layer of this fork of *ring*. It contains TLA+ modules, TLC
configurations that model-check them on small instances, and TLAPS proofs, for
every instance, of type correctness and of the correctness of the portable path.

## The system

`aes_gcm_siv.rs` provides two `aead::Algorithm`s, `AES_128_GCM_SIV` and
`AES_256_GCM_SIV`. Each has three entry points:

| entry point | code | what it does |
|---|---|---|
| `init_128` / `init_256` / `init` | l. 61-79 | builds a `gcm_siv::Key`: the raw key, the variant and, on hosts with AES-NI/AVX, an expanded AES schedule `aes_asm_key` |
| `aes_gcm_siv_seal` | l. 255-271 | dispatches on `gcm_siv::detect_implementation` to `seal_fallback` (l. 89-129) or `seal_aes_avxni` (l. 131-253) |
| `aes_gcm_siv_open` | l. 655-673 | dispatches to `open_fallback` (l. 360-424) or `open_avx_aesni` (l. 426-653) |

`crypt_last_block` (l. 306-357) encrypts or decrypts a trailing partial block on
the accelerated paths. The KDF, POLYVAL, counter mode and key schedule live in
`gcm_siv.rs` and in assembly, neither of which is under `src/`. AES is an
external collaborator.

One `Key` is shared by any number of threads (spec.md section 5). Each call works
on its own buffer. The **portable path** reads only the raw key, so a call never
sees another call. The **accelerated path** reads the stored schedule in its KDF.
`seal_aes_avxni` also passes that stored schedule as the *output* of
`aes*gcmsiv_aes_ks_enc_x1` (l. 174, 219), so it rewrites the shared schedule with
the expansion of its per-message key, and then encrypts the message with whatever
the schedule holds (l. 181, 245). That shared write is the main interaction
between calls, and the model is built around it.

## Modules

| module | contents |
|---|---|
| `GcmSivBlocks` | Scaled data geometry: 2-bit bytes, 4-byte blocks, a 2-byte little-endian counter (so u32 arithmetic is arithmetic mod 16 = `U32`, which is also the `libc::c_uint` modulus), a 2-byte nonce. `Xor`, `SetMsb` (`|= 0x80`) and `ClearMsb` (`&= 0x7f`). The external primitives `Aes(k, x)` and `Polyval(h, blocks)` are constant operators. |
| `AeadSpec` | The abstract specification: a history of seals and opens, each equal to the GCM-SIV reference computation (spec.md 4.2-4.7 and RFC 8452) under the long-term key. It is written independently of the code's operators. |
| `AesGcmSiv` | The implementation model, with one action per operation or shared-state step (below), the properties, and the refinement mapping to `AeadSpec`. |
| `MCAesGcmSiv` | Stand-ins for AES and POLYVAL, keys, nonces, aad and messages for TLC. |
| `AesGcmSivProofs` | TLAPS lemmas and the theorem `TypeCorrect`. |
| `AesGcmSivFallbackProofs` | TLAPS proofs that the portable path round-trips (`FallbackRoundTrip`) and implements `AeadSpec` (`FallbackRefinement`). |
| `AesGcmSivAccelProofs` | TLAPS proofs that every call on either path is correct under its own subkeys (`AccelSealCorrect`, `AccelOpenCorrect`), for one caller and inputs under the `c_uint` modulus. |
| `TestDataAlignments` | The unit test `test_data_alignments` (l. 684-741) as a behaviour of the model. |
| `TestDataAlignmentsProofs` | TLAPS proof that the unit test passes for every input (`TestDataAlignmentsPass`). |

### State and actions of `AesGcmSiv`

- `asmKey` is the raw key whose expansion `Key.aes_asm_key` currently holds. It is shared.
- `pc[c]` and `loc[c]` hold each caller's position in an accelerated seal and its locals (subkeys, tag, buffer).
- `sealed` and `opened` are histories of completed calls. They record the inputs and outputs, plus the subkeys each call derived as ghost fields.
- `ops` counts calls and is bounded by `MaxOps`.

| action | code |
|---|---|
| `Init` | `init`: the stored schedule expands the raw key |
| `SealFallback` | the whole of `seal_fallback` as one step: it reads nothing shared |
| `SealAccelKdf` | `seal_aes_avxni` up to `whole_in_out_len`: KDF from the stored schedule, pre-encryption tag |
| `SealAccelKsEnc` | `aes*gcmsiv_aes_ks_enc_x1`: writes the encryption key's schedule into the Key and encrypts the tag |
| `SealAccelEncMsg` | `enc_msg_x4/x8` over `whole_in_out_len as c_uint` bytes with the stored schedule |
| `SealAccelLastBlock` | `crypt_last_block(.., aes_asm_key, .., len, 0)` |
| `SealAccelReturn` | `return Tag(..)` |
| `OpenFallback` | the whole of `open_fallback`, with the tag read from the buffer's end and the prefix |
| `OpenAccel` | the whole of `open_avx_aesni`: its only shared read is its KDF, and it keeps the expanded key in a local |
| `SealDispatch` / `OpenDispatch` | dispatch on the constant `Path` |

Each conversion in the code is modelled by what it does:

- `as libc::c_uint` is `% U32`.
- `wrapping_add` on the u32 counter is `% U32`.
- `counter[15] |= 0x80` is `SetMsb`.
- The in-place loop of `crypt_last_block` is a simultaneous update. This is exact because every write lands below every later read, since `in_prefix_len >= 0`.

## Properties and runs

- `TypeOK`: the stored key has the variant's size. Completed calls have one-block tags, one-block authentication keys and encryption keys of the variant's size.
- `RoundTrip` (spec.md 8.1, 8.6): every open of a sealed ciphertext through the same Key writes the plaintext at offset 0 and returns the sealed tag, with or without a prefix.
- `SealMatchesReference` / `OpenMatchesReference`: each call's output is the reference computation under the subkeys *that call* derived. This separates errors in a call's own arithmetic from errors caused by shared state.
- `AeadRefinement`: `AeadSpec!SpecA` under the mapping that projects the histories, i.e. the Key is a pure function of the long-term key.
- `CounterSeededByPreTag`: spec.md 4.4's description of the keystream seed.
- `TestAssertions` (module `TestDataAlignments`): the four `assert_eq!` of the unit test.

### The unit test

`TestDataAlignments` adds a variable `step` for the test body's position and runs
it as written: `init`, `aes_gcm_siv_seal` (on the accelerated path, step by step),
a second `init` from the same bytes (l. 722), then `aes_gcm_siv_open` at prefix 0
on the known ciphertext followed by the returned tag. The known answers are
`AeadSpec`'s reference values. The run passes for every input of the model, and
it shows why the test never caught the schedule overwrite of l. 174: the open
runs on a fresh Key. `accel_key_reuse` makes the same calls on one Key and fails.

| run (cfg) | expect | what it shows |
|---|---|---|
| `fallback` | pass | the portable path round-trips and refines `AeadSpec` (AES-256, messages of 0/3/4/6/17 bytes, prefixes 0 and 5, 3 calls) |
| `accel_single` | pass | each accelerated call is correct under its own subkeys: whole and partial blocks, counter wrap (reached: a seal whose tag counter plus its block count passes 16), prefix on open |
| `test_alignments` | pass | `test_data_alignments` passes on the accelerated path for every nonce, aad and short message, because it builds a second Key before opening |
| `accel_key_reuse` | violation of `RoundTrip` | a seal rewrites the Key's schedule, so a later open on the same Key fails |
| `accel_concurrent` | violation of `SealMatchesReference` | two interleaved seals: one message is encrypted under the other's key |
| `accel_long_msg` | violation of `SealMatchesReference` | a message of 2^32 whole bytes or more is only partly encrypted (c_uint cast, l. 182) |
| `accel_long_open` | violation of `OpenMatchesReference` | the same truncation in `aes*gcmsiv_dec` (l. 543) |
| `accel_long_aad` | violation of `OpenMatchesReference` | the aad block count is truncated (l. 491) |
| `fallback_pretag_seed` | violation of `CounterSeededByPreTag` | the code seeds the keystream with the *encrypted* tag, as RFC 8452 and the known-answer test require, and spec.md 4.4 is wrong |

PROJECT.json lists the findings and the source lines behind each violation.

**Bounds.** Scaling widths keeps every boundary the code has:

- a block boundary every 4 bytes;
- the counter wrap at 16;
- the `c_uint` wrap at 16, so a 17-byte message is "at least 2^32 whole bytes" and a 66-byte aad is "2^32 whole blocks";
- `max_input_len` at 56 bytes, above the `c_uint` wrap just as 2^36 is above 2^32.

The message set covers empty, partial-only, one whole block, and whole-plus-partial.
A prefix of 5 is longer than a block, so a wrong read offset shows. Two callers and
two or three calls are enough for every interleaving of two seals and for seal-then-open.

**Stand-ins.** `MCAes` and `MCPolyval` are keyed bijections on 8-bit values built
from affine maps and nibble swaps. Without the swaps, the affine maps leave the
low bits of the output independent of the high bits of the key. The KDF keeps
only the low half of each block, so different keys would then derive equal
subkeys and hide the schedule overwrite.

**Fairness and deadlock.** There is no liveness property and no fairness.
Every operation runs to completion without waiting (spec.md section 5), so there
is nothing to wait for. Runs set `CHECK_DEADLOCK FALSE` because the only states
without successors are those where all `MaxOps` calls have completed.

**Mutants.** Each property of a passing run is broken by a plausible mistake in
the code it is about. Each mutant is defined in `AesGcmSiv` just before the
definition it replaces:

- the key sizes swapped;
- the decryption ignoring the prefix;
- the encryption key taken from the start of the KDF output;
- the counter without bit 0x80;
- `crypt_last_block` reading at the output offset;
- the scratch copy of a partial block stopping one byte short (for `TestAssertions`).

## What is proved

`AesGcmSivProofs.TypeCorrect`: `ASSUME AesType, PolyvalType PROVE Spec => []TypeOK`.
It holds for every variant, key, set of nonces, aad, messages and prefixes, any
number of callers and any `MaxOps`. The only hypotheses are the ASSUMEs of the
constants and that `Aes` and `Polyval` return blocks. `TypeOK` is inductive as it
stands, with one lemma per action.

The lemmas show that each buffer pass (`CtrXor`, `CryptLastBlock`) keeps the
buffer a byte string of the same length whenever every byte it reads lies inside
the buffer. The action proofs then discharge exactly those bounds:

- `Whole(buf) % U32 <= Len(buf)` for the encryption;
- the `c_uint`-truncated counts `nDec` and `(len / 16) % U32` for the opens;
- the open buffer layout `prefix ++ ct ++ tag` for the tag slices.

This proof is the machine-checked part of the argument that the truncation bugs
are wrong results, not out-of-bounds accesses: the truncated counts always stay
inside the buffer.

`AesGcmSivFallbackProofs` proves, under `AesType`, `PolyvalType` and
`Path = "FALLBACK"`:

- `FallbackRoundTrip`: `Spec => []RoundTrip`;
- `FallbackRefinement`: `Spec => AeadRefinement`, i.e. the portable path
  implements `AeadSpec` under the mapping `Abs`.

Both theorems hold for every variant, key, input set, prefix set, number of
callers and `MaxOps`.

The argument has three parts.

1. Each helper of the portable path equals the reference operator of `AeadSpec`
   that states it from the specification: the KDF slice (`KdfMatchesReference`),
   the counter block (`CtrMatchesReference`), the zero padding
   (`PadMatchesReference`), the POLYVAL input and nonce mixing
   (`PolyvalMatchesReference`) and the counter-mode pass
   (`SealCryptMatchesReference`).
2. So `seal_fallback` yields the reference ciphertext and tag
   (`SealFallbackMatchesReference`). On a buffer `prefix ++ ct ++ tag`,
   `open_fallback` reads the tag back, writes the reference decryption from
   offset 0 and recomputes the reference tag (`OpenBufferParts`,
   `OpenFallbackMatchesReference`). Xor with the same keystream twice is the
   identity (`CryptInvolution`).
3. `RoundTrip` is not inductive on its own. An open round-trips only because the
   record it reads holds the reference values, and only because no accelerated
   seal is half-way (those steps also add to `sealed`). The inductive invariant
   is `FInv == TypeOK /\ AllIdle /\ SealedCorrect /\ RoundTrip`. TLC checks it on
   the `fallback` instance (2441 states). The refinement step uses the same
   invariant: `SealFallback` maps to `SealA`, `OpenFallback` to `OpenA` of the
   projected record, and the accelerated steps are disabled.

### The accelerated path, under its two conditions

The accelerated path is wrong in general (see the violation runs), but each
violation needs one of two things: a second caller on the same Key
(`accel_concurrent`), or an input of at least 2^32 whole bytes or blocks
(`accel_long_msg`, `accel_long_open`, `accel_long_aad`). `AesGcmSivAccelProofs`
names them as two conditions on the constants:

- `SingleCaller`: `Calls` has one element;
- `ShortInputs`: every message is shorter than `U32`, and every aad has fewer than
  `U32` whole blocks.

Under `AesType`, `PolyvalType`, `SingleCaller` and `ShortInputs` it proves:

- `AccelSealCorrect`: `Spec => []SealMatchesReference`;
- `AccelOpenCorrect`: `Spec => []OpenMatchesReference`.

Both hold on either path. The `accel_single` instance satisfies both conditions,
so the theorems are not vacuous there.

The invariants are not inductive on their own: an accelerated seal is
correct only if each of its steps found the right intermediate value. The
inductive invariant `AInv` adds `LocalOK(c)`, what a seal in progress holds at
each `pc`:

- in any call, the inputs are in the sets;
- at `ks_enc`, the buffer is the message and the tag is the POLYVAL value before
  encryption;
- from `enc_msg` on, the stored schedule is the seal's own encryption key and the
  tag is the reference tag;
- at `enc_msg`, the buffer is still the message;
- at `crypt_last_block`, the whole blocks are already encrypted and a partial
  block remains;
- at `return`, the buffer is the reference ciphertext.

`AInv` also adds `SealedInputs` (completed seals were of inputs in the sets), so
that `ShortInputs` applies to the records an open reads. TLC checks `AInv` as an
invariant of the `accel_single` (24345 states) and `fallback` (2441 states)
instances.

The key lemmas:

- `NoTruncation`: below the modulus, the `c_uint` casts change nothing.
- `CtrPassesMatchReference`: the bulk pass followed by `crypt_last_block`
  writes the reference counter-mode image. For the partial block, this uses the
  counter of the next block.
- `AadBlocksMatchPad` and `WholeBlocksAgree`: what `open_avx_aesni` absorbs is
  the reference padding of the aad and of the plaintext it wrote.

`SingleCaller` is used in exactly one place: no other seal can run `ks_enc`
between a seal's `ks_enc` and its `enc_msg`.

### The unit test

`TestDataAlignmentsProofs.TestDataAlignmentsPass` proves
`TestSpec => []TestAssertions` under the same four hypotheses. The test runs on
one thread, so `SingleCaller` is what the test does. It holds on either path and
for every nonce, aad and message set.

The inductive invariant `TInv` has four parts:

- `AInv`;
- `TestPhase`, what each position of the test body implies: the seal starts on
  the raw-key schedule, and after the second `init` the schedule is the raw key
  again, with no seal in progress;
- `Keyed`: every seal, in progress or done, derived its subkeys from the raw key;
- the assertions themselves.

The open step uses `TestOpenRecord`: an open at prefix 0 on the raw-key schedule
reads the sealed tag and derives the raw key's subkeys. `CryptInvolution` then
gives back the plaintext. The open lemmas of the two paths are stated for every
prefix in `Nat`, not only those in `Prefixes`, because the test opens at prefix 0
whatever `Prefixes` is.

### Only model-checked

- Everything about the concrete stand-ins `MCAes` and `MCPolyval`. TLAPS cannot
  reason about what the recursive definitions in `MCAesGcmSiv` compute (induction
  over data is beyond the installed provers). The proofs never need them: they
  hold for any `Aes` and `Polyval` that return blocks.
- The violations, which are runs and not theorems.
- Two seals interleaving on one Key. This is the case that matters for the shared
  stored schedule (l. 174), and it is wrong: `accel_concurrent` shows it. With one
  caller, that the stored schedule holds a seal's own key follows from the
  `ks_enc` step alone. The project therefore states no separate property of it.
- `CounterSeededByPreTag`, which states what spec.md says and is false.

Liveness would be out of the provers' reach too, but the model has no liveness
property.

## Not modelled

- Zeroing of subkeys and scratch memory. The code does not zero the subkeys at
  all, against spec.md 4.6 and 5 (see the hazards), but memory residue is not an
  output.
- The `MaybeUninit` undefined behaviour at l. 445. `aes*gcmsiv_aes_ks` writes
  the schedule before anything reads it, so every build reads the written
  value, and the model has no uninitialised memory.
- The `expect` panic at l. 137. `Path` is a constant of the host, and `init`
  always stores the schedule, because `Key::new` lives outside `src/`.
- The usize underflow on short buffers. Opens only see buffers built from
  completed seals, because the AEAD layer outside `src/` checks the length.
- The implementations in `gcm_siv.rs` and the assembly, which are modelled from
  spec.md as this file uses them.
