# A verification of sodium-jni

TLA+ models of sodium-jni, a Java and Android binding of libsodium, together with the parts of
libsodium (vendored in `libsodium/`) whose behaviour depends on state: threads, forks, buffers,
counters and protocols. Modules named `MC*` and the `.cfg` files are instances for TLC, modules
named `*_proofs` hold proofs for TLAPS. `L/` below stands for `libsodium/src/libsodium/`.

## 1. Inventory

| component | state | operations | talks to |
|---|---|---|---|
| **core** `L/sodium/core.c` | `initialized`, `locked`, the mutex, `_misuse_handler` | `sodium_init`, `sodium_set_misuse_handler`, `sodium_crit_enter`, `sodium_crit_leave`, `sodium_misuse` | calls the random generator, the heap's `_sodium_alloc_init` and the dispatchers while it holds the section; called by everything that detects misuse |
| **NaCl binding** `NaCl.java` | the class's initialization state, whether the library is loaded | `NaCl.sodium()` | loads the library, calls `sodium_init` |
| **JNI boundary** `jni/sodium.i` | none of its own; copies of arrays during a call | one native method per C function | Java's heap on one side, C on the other |
| **secret stream** `secretstream_xchacha20poly1305.c` | key, nonce, counter of each side | `init_push`, `push`, `init_pull`, `pull`, `rekey` | the two sides talk through the application's transport |
| **randombytes, system generator** `randombytes.c`, `randombytes_sysrandom.c` | the pointer `implementation`; descriptor and flags in `stream` | `randombytes_stir`, `_buf`, `_close`, `_set_implementation` | shares the process's descriptor table with the application |
| **internal generator** `randombytes_internal_random.c` | one `stream` per thread, one `global` per process | `stir`, `buf`, `random`, `close` | the kernel; `fork` duplicates its state |
| **guarded heap** `L/sodium/utils.c` | page protections, a header and a canary per block | `sodium_malloc`, `sodium_allocarray`, `sodium_free`, `sodium_mprotect_*` | the kernel's mappings |
| **hash streams** `blake2b-ref.c`, `hash_sha256_cp.c`, `hash_sha512_cp.c` | buffer, counter, chaining value, flags | `init`, `update`, `final` | the compression function |
| **Java API** `crypto/`, `keys/`, `encoders/` | `Hash.buffer`; keys that never change | wrappers, one native method each | the JNI boundary |
| **utilities and codecs** `utils.c`, `codecs.c`, `randombytes_uniform` | none | comparison, padding, numbers of many bytes, hexadecimal and base64 | used by all |
| **stream ciphers** `crypto_stream/`, `crypto_core/` | none; counters inside a call | ChaCha20 and Salsa20 by portable and by vector code | boxes, AEADs, scrypt, secret stream |
| **Poly1305** `crypto_onetimeauth/` | accumulator, powers of the key, left-over bytes | `init`, `update`, `final`, in limbs or by vectors | boxes, AEADs |
| **boxes and AEADs** `crypto_secretbox/`, `crypto_box/`, `crypto_aead/` | none; buffers of the caller that may overlap | seal, open, attached and detached | ciphers, Poly1305, X25519, AES |
| **keyed hashes** HMAC, HKDF, `crypto_kdf`, `crypto_kx`, SipHash, `crypto_verify` | two hash states in an HMAC | derive, exchange, compare | the hashes |
| **password hashing** `crypto_pwhash/` | the memory that is filled; strings in which hashes are kept | hash, make a string, verify it | BLAKE2b, HMAC, Salsa20, the allocator |
| **curves and signatures** `crypto_core/ed25519/`, `crypto_scalarmult/`, `crypto_sign/` | none | group and scalar arithmetic, X25519, Ed25519, ristretto255 | SHA-512 |
| runtime dispatch `runtime.c`, example application | CPU features | | |

What is hard, and what makes each part correct:

* **core**: any thread may call in any order, `sodium_init` may fail halfway, and `sodium_misuse`,
  which may be called anywhere, gives up a section it may not hold. Correct if initialization
  happens once, under mutual exclusion, nobody is told that the library is ready before it is, and
  no call is stuck.
* **NaCl binding**: class initialization is a lock, loading may fail, and the result of
  `sodium_init` is dropped. Correct if an instance is only handed out over a prepared library and
  every caller gets an answer.
* **JNI boundary**: the virtual machine copies an array or does not, as it likes, and copies are
  written back later than the C function wrote them, also those of parameters that are only read.
  Correct if callers that keep to a discipline cannot see any of it.
* **secret stream**: lost, repeated, reordered and damaged messages, a counter that wraps, the tag
  that is decrypted before it is authenticated. Correct if the reader gets a prefix of what was
  written and no nonce is used twice.
* **generators**: first use without a lock, close against use, descriptor numbers that are handed
  out again, forks. Correct if what is handed out comes from a random source and is handed out once.
* **guarded heap**: sums that wrap near `SIZE_MAX`, boundaries at whole pages, state found again
  from a bare pointer, `mprotect` that fails unnoticed. Correct if blocks are whole, overruns fault,
  underruns are noticed at the free, and nothing leaks.
* **hash streams**: pieces of any length against blocks, a last block that has to be kept back, a
  counter in two words, padding that may need a block of its own. Correct if the digest is that of
  the bytes, however they were cut.
* **Hash.java**: a result kept in a field while it is made. Correct if calls that do not overlap
  return their own digests.
* **codecs, padding, numbers**: comparisons without branches that must not borrow beyond a byte,
  ends in the middle of a group, boundaries at whole blocks. Correct if conversions come back and
  nothing else is read.
* **ciphers, Poly1305, AES modes**: many implementations of one function, which take blocks in groups
  of eight, four, two, with counters that carry inside a group and reductions put off to its end.
  Correct if all agree with the definition at all lengths.
* **boxes and AEADs**: input and output overlap, keys and lengths are absorbed in one order, nothing
  may be given out before it is verified. Correct if the reader gets the text and others nothing.
* **password hashing**: index arithmetic on a memory that is half filled, costs whose products
  overflow, allocations that fail, strings parsed by hand. Correct if the memory is the RFC's, a
  string verifies its password only, and nothing stays allocated.
* **curves**: four representations of a point, two recodings of a scalar, encodings that are not
  canonical, points of small order, reductions in limbs. Correct if all of it is one group.

## 2. Modules

| module | models | extends or uses |
|---|---|---|
| `SodiumCore` | core.c, pthread build | |
| `NaClBinding` | NaCl.java with the library below it | `SodiumCore` |
| `NaClBinding_proofs` | theorems about both | `NaClBinding` |
| `StreamFifo` | abstract: a reliable channel per stream | |
| `SecretStream` | the secret stream over any transport | refines `StreamFifo` |
| `SecretStream_proofs` | theorems about it | `SecretStream` |
| `SysRandom` | randombytes.c over randombytes_sysrandom.c | |
| `InternalRandom` | randombytes_internal_random.c, `getrandom()` build | |
| `SysRandom_proofs`, `InternalRandom_proofs` | theorems about them | each its module |
| `AtomicCalls` | abstract: a C function on the arrays themselves, at one instant | |
| `JniBoundary` | the typemaps of sodium.i | refines `AtomicCalls` |
| `HashObject` | Hash.java, shared by threads | |
| `JniBoundary_proofs` | theorems about both | `JniBoundary`, `HashObject` |
| `GuardedHeap` | `sodium_malloc` and its relatives | |
| `GuardedHeap_proofs` | theorems about it | `GuardedHeap` |
| `Blake2bStream`, `Sha2Stream` | BLAKE2b, SHA-256 and SHA-512 streaming | |
| `HashStreams_proofs` | theorems about both | `Blake2bStream`, `Sha2Stream` |
| `Words` | word operations, by their tables for nibbles and bytes | |
| `Numbers` | the functions of utils.c that keep nothing, `randombytes_uniform` | `Words` |
| `Codecs` | codecs.c | `Numbers` |
| `Calls` | a call that is chosen, computed and answered; those of `Numbers` and `Codecs`, and what they promise | `Codecs` |
| `Numbers_proofs` | theorems about them | `Calls` |
| `Loops` | loops that TLC evaluates step by step (recursive operators) | `Words` |
| `StreamCiphers` | ChaCha20 and Salsa20, all implementations in C | `Loops` |
| `Poly1305` | both portable codes and the vector code | `Loops` |
| `Boxes` | secret key, public key and sealed boxes, AEADs of ChaCha20 | `StreamCiphers` |
| `AesModes` | AES256-GCM on x86 and ARM, AEGIS, AES by tables | `Loops` |
| `KeyedHashes` | HMAC, HKDF, subkeys, session keys, verify, SipHash | `Boxes` |
| `Argon2`, `PwHash` | Argon2: its memory and its compression; what is around it | `Codecs` |
| `Scrypt` | scrypt: mixing, memory, costs, strings | `PwHash`, `StreamCiphers` |
| `Algorithms` | a call of any of these, its result, and what that should be | `Calls` and all of them |
| `Edwards` | edwards25519: points, encodings, multiplications | |
| `CurveApi` | the functions of the API, Ed25519, ristretto255 | `Edwards` |
| `Limbs` | arithmetic in limbs; powers by fixed sequences of multiplications | |
| `Curve` | walks in the group and calls, against a group defined apart | all of these |

Operators commented as `Mutant` are variants of a definition with a plausible bug. They are not
part of any specification; each shows that some property would notice that bug.

### SodiumCore

A thread's control point is `pc[t]`; each action is one access to a shared variable: `EnterLock`,
`EnterAssert` and `EnterMark` are the three statements of `sodium_crit_enter`, `LeaveCheck`,
`LeaveClear` and `LeaveUnlock` those of `sodium_crit_leave`; `InitAgain`, `InitBody`, one `Prepare`
per subsystem and `MarkInitialized` are the body of `sodium_init`; `StoreHandler` is
`sodium_set_misuse_handler`; `FetchHandler`, `HandlerCalls` and `MisuseEnds` are `sodium_misuse`.
The mutex is a default pthread mutex: unlocking it does not ask who holds it, which matters since
`sodium_misuse` unlocks for whoever is inside, and does not fail, so that core.c:138 returns 0;
locking it twice on one thread waits for ever. Assertions are on, as `configure.ac` never defines
`NDEBUG`. A misuse handler runs inside the section, on the thread for which `inHandler` holds. It
may exit, return, misuse the library again, or call `sodium_init` or `sodium_set_misuse_handler`,
which return to it if they return (`Caller`). As the thread holds the mutex they do not, unless
another misuse unlocks it: that state is `HandlerWaits`, which `CallsEnd` names as the one exception
to its promise, and it is reported in section 4.

### NaClBinding

Extends `SodiumCore` with the Java virtual machine's protocol for initializing a class (one thread
runs it, others wait, a failure makes the class erroneous for ever) and with `NaCl.sodium()`. The
native `sodium_init` is not a step of this module but a call of `SodiumCore`'s.

### SecretStream

Cryptography is symbolic: the state of a side is what went into its key and nonce, and a message
verifies under an equal state only. A reader with another key is one on a stream nobody writes.
`Advance` is the common tail of push and pull; `Reject` and `RejectDamaged` are the early returns of
pull. The XOR of the mac into the nonce is in the state, and `NonceIsFresh` ignores it, which asks
more of the counter than is needed. A message of over `MESSAGEBYTES_MAX` bytes is a misuse, which
no Java array can reach.

### SysRandom

One action per access to what threads share. `FirstUse`, `Install` and `Dispatch*` are
`randombytes_init_if_needed`; `StirDone` to `Mark` are `stir`; `Use*` and `Read` are `buf`;
`CloseFd`, `Forget`, `Unmark` are `close`. `OtherOpen` and `OtherClose` are the rest of the
application, which shares the numbers of descriptors. `SetImplementation` may come between any two
steps of a thread, as the code does nothing to prevent it; `own` remembers of a draw whether it began
after that and with no thread at `Install`, where the pointer is overwritten without being read again.

### InternalRandom

A key is the seed it was made from and what was done to it since, so that two equal keys are two
generators that will hand out the same words; a fork makes such a pair. Draws and rekeying touch
only a thread's own stream and are one step, `StirReset` to `StirSeed` are the accesses of `stir` to
`global`. `history` records the four things the properties tell apart.

### JniBoundary

`Get`, `Run` and `Release` are what SWIG generates from the typemaps: `GetByteArrayElements` on
each parameter, the call, `ReleaseByteArrayElements` with mode 0 on each. The virtual machine
chooses for each array whether to pin or to copy. `Disciplined` is what callers owe: an array that
one call writes is in no other place of any call. The out-of-memory result of
`GetByteArrayElements`, NULL, is not modelled.

### HashObject

`Make`, `Load`, `Write` and `HandOut` are the statements of a method of `Hash`: an assignment to the
field, two reads of it with a native method in between, each of which may happen between those of
another thread. A read sees the last write; Java would also allow an earlier one of a call that
overlaps, which the property allows too. The methods that take an `Encoder` encode what they return.
`pwhash_scryptsalsa208sha256` is left out: it reads the field a third time, for its length, and does
not look at the result -1 of the native method.

### GuardedHeap

Memory is `prot`, `header` and `canaries` over a small address space; lengths and sums are taken
modulo `WordSize`. `MallocAt` makes the calls of `_sodium_malloc` in their order, each `mprotect` of
which may fail unnoticed; `FreeDone`, `FreeOutOfBounds` and `FreeFaults` are the three ends of
`sodium_free`. `Write` and `AccessFaults` are the application, which strays by up to a page: further
away there may be another block, and no layout could help. `MmapAt` is the kernel, which never maps
page 0 (so the `sodium_misuse` of `_unprotected_ptr_from_user_ptr` cannot be reached with a pointer
of the heap's) and refuses to map nothing. That refusal matters: `_sodium_malloc` lets sizes pass
for which the sum of the pages is exactly 2^64, that is 0.

### Blake2bStream, Sha2Stream

A byte of input is its position, the compression function a record of what it was applied to, so
that a digest *is* the sequence of blocks, counters and flags that produced it and can be compared
with the one the definition of the hash asks for. `Blake2bStream` splits the loop of
`blake2b_update` into `Fill` and `Keep`. A caller does not use a SHA-2 state between `final` and the
next `init`.

### Algorithms, Curve and the modules below them

These components keep no state between calls. A call with its inputs is an initial state, its result
the next one; the properties compare the result with a definition written apart from the code
(`Ref*` operators, the group given by its logarithms, numbers modulo several primes), or with that
of another implementation. What is kept of the code is its structure: loops and their bounds, groups
of blocks, tables of powers, what is absorbed in which order, early returns, and which buffer is read
or written when. What is not kept is the width of words and the contents of tables:

| module | sizes in the instance | in the source |
|---|---|---|
| `StreamCiphers`, `Boxes` | words of 8 bits, 4 rounds, other rotations | 32 bits, 20 or 8 rounds |
| `Boxes` | a memory of addresses, buffers anywhere in it | pointers compared as `uintptr_t` |
| `Poly1305` | limbs of 6 bits modulo 2^30-5, limbs of 10 and 8 bits modulo 2^28-5 | 26 bits; 44 and 42 bits; 2^130-5 |
| `AesModes` | blocks of four and of two nibbles, a round any table | 16 bytes, AES |
| `AesModes`, AES by tables | bytes, any S-box | bytes |
| `KeyedHashes` | any hash; SipHash on words of 16 bits | SHA-256, SHA-512, BLAKE2b; 64 bits |
| `Argon2` | the memory: blocks of 8 words of 16 bits, any permutation; the compression: 128 words of 8 bits | 128 words of 64 bits |
| `PwHash`, `Scrypt` | limits and products of 8 and 10 bits | 32 and 64 bits |
| `Codecs`, `Numbers` | `unsigned int` and `size_t` of 16 bits, bytes as they are | 32 and 64 bits |
| `Numbers` | buffers of up to 256 bytes to pad (`MemoryMax`), numbers of any length | buffers of up to 2^56 bytes |
| `Numbers`, `randombytes_uniform` | random words and bounds of 8 bits | 32 bits |
| `Edwards` and the modules on it | modulo 109 = 2^7-19, 104 = 8 * 13 points, scalars of 16 bits | 2^255-19, 8 * L points, 256 bits |
| `Limbs` | limbs of 6, of 5 and 6, and of 11 bits | 21, 25 and 26, and 51 bits |
| `Limbs`, the chains | the exponents of the source, modulo several numbers | modulo 2^255-19 and L |

Each size is the least at which every path of the code is taken: every remainder of a group of
blocks, every carry and both results of every final subtraction. A prime with the residue 5 modulo 8
and a cofactor of 8 give the small curve the square roots, the torsion and the twist of the large one.
What this cannot show is that products fit in 64 bits at the real widths, and that the constants of
the source (round constants, tables of base points) are right; vectors test both well.

`Algorithms` and `Curve` hold the calls and the properties, `MCAlgorithms` and `MCCurve` the inputs.
A property is the conjunction of named parts, one for each component or operation, whose
comments say what is promised; `Curve` also walks through the group one addition at a time.

## 3. Runs

| run | states | what it asks |
|---|---|---|
| `binding` | 113,877 | three threads load the class, initialize and set handlers; one may fail to lock or misuse the library: `MutualExclusion`, `InitOnce`, `NoSpuriousFailure` until a misuse, `InitCompletes` and `InstanceIsUsable` also after it; `CallsEnd` under fairness |
| `core_assert` | violation | the assertion `locked == 0` (core.c:121) fails in a third thread when a misuse unlocks a section another thread is leaving |
| `stream` | 248,291 | `NonceIsFresh`, `NextIsAcceptable`, `FinalIsGenuine`, and `IsFifo`: `SecretStream` implements `StreamFifo` |
| `generators` | 3,160,749 | `SysRandom`: `DrawsAreRandom`, `NoSpuriousMisuse`, `NoLeak`, `InstalledIsUsed`, `ClosesItsOwn`; `InternalRandom`: `OnlyChildrenAreRefused`, `SeededUnlessRaced`, `RepeatsAreExplained` |
| `internal_seed` | violation | `Seeded`: two overlapping first uses leave one stream with a key of zeros |
| `jni_boundary` | 196,933 | `IsAtomic`: `JniBoundary` implements `AtomicCalls`; `HashObject`: `ResultsAreOwnUnlessShared` |
| `heap` | 128,393 | `BlockIsWhole`, `OverrunFaults`, `DamageIsNoticed`, `NothingLeaks` |
| `hashes` | 2,043 | `DigestIsOfInput` of BLAKE2b and `DigestIsOfPadded` of SHA-2, with one and two counter words |
| `curve` | 127,096 | `EveryMultipleIsRight`, `KeysAndSignaturesAgree`, `EncodedPointsAreRight`, `FieldsAreExact` |
| `curve_subgroup` | violation | `OnlyMainSubgroupConverts`: a point of order 2L is converted |
| `algorithms` | 30,678 | `AesModesAreRight`, `CiphersAreRight` (streams are blocks in order, Poly1305 is a polynomial), `BoxesOpenForTheirReader`, `CodecsAreRight`, `NumbersAreRight`, `PasswordHashesAreRight`, `DerivedKeysAreRight` |
| `base64_chars` | violation | `ComparisonsAreRight` of characters as the decoder passes them |

The runs `binding`, `stream` and `jni_boundary` also check a type invariant; those of the
generators, the heap and the hash streams are proved (section 5) and not checked. Two components that
have nothing to do with each other may share a run, in which a behaviour is of one or of the other:
the two generators, the two hash streams, the boundary and `Hash`.

**Bounds.** Three threads in `binding` and `core_assert`, since the worst interference needs three:
one in the section, one that misuses, one that enters next; two calls each, so that every function
meets every other one before and after initialization. Two threads elsewhere, where hazards are
between pairs; the internal generator has four calls over two processes of two threads, the least
with which a word can be repeated for the subtlest reason (one draw, a fork, a draw by a second
thread of the child, and one more draw on each side). `stream`: a counter of three values and four
messages wrap it twice; two headers mix up streams. `heap`: two blocks in nine pages of four bytes,
so that blocks adjoin, pages are reused and sizes fall on both sides of a page and of the limits at
`SIZE_MAX`. `hashes`: inputs of some blocks, through every remainder and through a carry of the
counter; the low word of SHA-2's counter is no longer than a block, so that carries occur at each.
`algorithms`: lengths through the groups of blocks and their remainders, buffers at distances from
one to the other side of each other, costs on both sides of each limit, allocations that fail one by
one. `curve`: every encoding of a point, every scalar for the recodings, and for multiplications
those whose digits are at their ends; limbs with the extreme values at each place, and mixed ones.

**Fairness.** Only `binding` checks liveness. `BindingFair` asks weak fairness of each thread's steps
inside a call and nothing about whether threads call: the operating system runs a thread that can
run; a mutex that is free is got in the end by one of the threads that wait for it, and as calls are
finite in number, by all. Misuse handlers return or exit, unless they wait for the mutex that their
thread holds; one that leaves by `longjmp` is not modelled. No liveness is claimed of the other modules: their
code has no waiting.

**Exceptions that properties name.** Where the code keeps a promise under a condition only, the
property says which: `CallsEnd` holds unless a misuse handler waits for its own mutex,
`InstalledIsUsed` unless a first use had found no generator before one was installed, `NoLeak` holds unless two threads stirred at once or one closed the generator
in use, `ClosesItsOwn` unless two threads closed at once, `SeededUnlessRaced` unless two threads
initialized at once, `ResultsAreOwnUnlessShared` for calls that do not overlap, `RepeatsAreExplained` lists the ways in which a forked child gets
its parent's words. These conditions are histories, not assumptions: the runs do contain the
behaviours in which they occur.

## 4. Findings

* `core_assert`: `sodium_crit_enter` asserts that the flag is clear once the mutex is held. A thread
  that misuses the library while another is between clearing the flag and unlocking makes it fail.
* `internal_seed`: a stream of the internal generator can be marked as initialized without a seed:
  `randombytes_internal_random_init` first clears `getrandom_available`, and a thread that
  initializes a second time does so while another is about to look at it. On a kernel without
  `getrandom()` the same happens without a race. The generator is not the default one.
* `curve_subgroup`: `ge25519_is_on_main_subgroup` looks at X only, so a point of order 2L passes and
  `crypto_sign_ed25519_pk_to_curve25519` converts it; the ChangeLog (lines 215-216) says that such
  points are rejected.
* `base64_chars`: the decoder of base64 gives its comparisons a `char`; where `char` is signed a byte
  from 128 is a number that `EQ` finds equal to everything, and is read as 63. The comment at
  codecs.c:104 says that the comparisons work over 0..255.

Observed while modelling, each in the model as the code has it, and no run of its own:

* `sodium_misuse` calls the handler while it holds the mutex (core.c:194-197), and leaves it to the
  handler not to call `sodium_init` or `sodium_set_misuse_handler`: either waits at core.c:120 for the
  mutex that its own thread holds, and so does every other thread that comes to the section. Nothing
  that is written in the repository forbids such a handler; ChangeLog:201-208 only says of it that it
  does not return. A handler that misuses the library again does not wait, as `sodium_misuse` leaves
  the section first. In `binding` the states with `HandlerWaits` are reached, and without that
  disjunct TLC finds `CallsEnd` violated by them.
* `randombytes_set_implementation` loses against a first use that is between its test
  (randombytes.c:40) and its store (line 41): the default generator replaces the one just installed,
  for good. `InstalledIsUsed` holds of every draw that begins when no thread is there.
* ChangeLog:164-166 says that `crypto_sign_edwards25519sha512batch_open` rejects keys that are not
  canonical; obsolete.c:94 does not look at that.
* `crypto_scalarmult_ed25519` refuses the result after it has written it to `q`.
* `sodium_hex2bin` and `sodium_base642bin` without a pointer for the end return -1 on input that goes
  on, and leave the length in `bin_len`; a NUL inside the input is ignored whenever `ignore` is given,
  as `strchr` finds the terminator.
* `crypto_box_seal` writes the ephemeral key even if the box then fails; `aes256gcm`'s
  `encrypt_afternm` sets the length even when it returns -1.
* The limit of `chacha20_ietf_xor_ic` on the initial counter is computed by a subtraction that wraps
  for messages of over 2^38 bytes.
* `crypto_pwhash` and its scrypt sibling clear the output before they look at anything else: a
  password that overlaps it is lost.
* The comment at argon2-encoding.c:77 has the version optional and numbers of `unsigned long`; the
  parser asks for `$v=19` and for 32 bits. The one at line 231 has 0 for a destination that is too
  short; the code returns `ARGON2_ENCODING_FAIL`.
* With one of its two output pointers NULL `crypto_kx_*_session_keys` leaves the second half of the
  hash in the other, whichever side calls.
* HKDF's `extract_final` clears as many bytes of its state as a pointer has.
* `SodiumConstants.AEAD_CHACHA20_POLY1305_ABYTES` is 8 and the C constant is 16; nothing in the
  repository uses the former.

## 5. Proofs

All constants are arbitrary. The only assumptions are the named `ASSUME`s of the modules and, for a
module that is instantiated beside another (`InternalRandom`, `Sha2Stream`, `HashObject`), what it
requires of its constants (`InternalParameters`, `Sha2Parameters`, `HashParameters`), a hypothesis of
its theorems that `ASSUME`s of the MC modules show to hold of the instances. Every theorem below is
about the specification that a run checks, and almost every one follows from an inductive invariant
that says more than the property:

* **SodiumCore** (in `NaClBinding_proofs`). `TypeCorrect`; `InitCompletesTheorem`;
  `MutualExclusionTheorem`; `InitOnceTheorem`; `NoSpuriousFailureTheorem`. Two inductive invariants. `CoreInv` survives misuse: the control points
  agree with the function a thread is in, and from each stage of the initialization on, what comes
  before it is prepared (subsystems are only ever added, which is why a section that was given away
  does not hurt `InitCompletes`). `SectionInv` holds until a misuse: who is past the lock is the
  holder of the mutex, the flag follows the control point, and a second body of `sodium_init` would
  have met `initialized = 1`. `MisuseIsFinal`: a misuse never returns, not even past the calls that its
  handler makes, so `NoMisuse` cannot become true again.
* **NaClBinding.** `BindingKeepsCore`: each of its steps is one of `SodiumCore` or leaves it alone, so
  that its results hold here too, without being proved again. `BindingTypeCorrect`.
  `InstanceIsUsableTheorem`, from `BindingInv`: where a thread is in the library, by where it is in
  `NaCl.sodium()` (`Places`), and that a thread back from `sodium_init`, whatever its result, finds all
  stages prepared or is one that may fail to lock (`InitEnds`); the property alone says nothing of a
  thread that is about to get the instance.
* **SecretStream.** `TypeCorrect`; `NonceIsFreshTheorem`, from `NonceInv`: every nonce used under
  the current key has a smaller counter; `StreamIsFifo`, that it implements `StreamFifo`, from
  `ChannelInv`: the state a message carries determines its place in its stream, since the states
  absorb what came before; `FinalIsGenuineTheorem`, from `PrefixInv`; `NextIsAcceptableTheorem`, from
  `LinkInv`: the states of the messages of a stream follow each other from its first state to the
  writer's, and the reader, if it has not rekeyed by itself, is at the one after its last message.
* **SysRandom.** `RandomTypeCorrect`, `DrawsAreRandomTheorem`, `NoSpuriousMisuseTheorem`,
  `NoLeakTheorem`, and the action property `ClosesItsOwnTheorem`, from `RandomInv`;
  `InstalledIsUsedTheorem` from `OwnInv`, by which an installed generator stays once no first use is
  past its test. `RandomInv` has a layer for each thing that may have gone wrong before: what holds `Always`;
  `OneAtATime`, unless two threads closed at once (the descriptor of `stream` is a device's as long as
  nobody is between closing and forgetting it); `Undisturbed`, as long as closes were quiet (who is
  past the stirring has a generator that is ready); `Alone`, if no two threads stirred at once either
  (every device that is open has an owner). None of the layers is inductive without those before it.
* **InternalRandom.** `InternalTypeCorrect`, `OnlyChildrenAreRefusedTheorem`,
  `SeededUnlessRacedTheorem`, `RepeatsAreExplainedTheorem`, from `StreamsInv`. `Threading` and
  `Recorded` hold always; `Probed` and `Related` if nobody raced on the global state and the kernel
  has `getrandom()`: one thread at a time is in the part that probes, and a child has its own pid only
  if another of its threads has stirred. `Unrepeated` holds until one of the explanations occurs: a
  stream that is its thread's own has a longer key than every word that was handed out from its
  seed, and no word is of a seed to come. That keys only grow, and that unequal seeds make unequal
  keys, are its lemmas.
* **JniBoundary.** `TypeCorrect`; `BoundaryIsAtomic`, that it implements `AtomicCalls`. The mapping
  is `Settled`, the arrays as they will be once every pending copy is written back, so that the whole
  effect of a call happens at `Run`, and `Progress`. The inductive invariant is `Separate` (what a
  call writes is nobody else's) and `CopiesTrue` (a copy not yet overwritten by C equals the array).
* **HashObject.** `ResultsAreOwnTheorem`, from `ObjectInv`: to have met is mutual and a call in
  progress has met every later one (`Meetings`), so that an array which a call takes from the field is
  its own or of one it met, and nobody else writes to it (`Owned`).
* **GuardedHeap.** `HeapTypeCorrect`, `BlockIsWholeTheorem`, `OverrunFaultsTheorem`,
  `DamageIsNoticedTheorem`, `NothingLeaksTheorem`, from `HeapInv`: each block is `Placed` where
  `_sodium_malloc` puts it, behind a header that still has its length, blocks are `Apart`, mapped pages
  are `Owned`, and canaries are `Marked`. The lemmas before it are about pages: rounding up a size
  that does not wrap, and the base that is found again from a pointer. The sums are those of the code,
  modulo `WordSize`; that they do not wrap where a block results is part of the proof.
* **Hash streams.** `Blake2bTypeCorrect` and the action property `DigestIsOfInputTheorem`, from
  `Blake2bInv`; `Sha2TypeCorrect` and `DigestIsOfPaddedTheorem`, from `Sha2Inv`. Both invariants say
  that what was compressed and the bytes at the front of the buffer are together the input taken
  (`Streaming`, `Hashing`), and that the counter is their number in words, for any size of a block and
  a word. The lemmas before them are about quotients and remainders, a sum with carry, and a sequence
  written over another. The padding of SHA-2 with one and with two blocks is two steps of the proof.

* **Numbers** and **Codecs.** `NumbersStayRight`, that every call's answer is right
  (`NumbersAreRight`), and its four parts, `ArithmeticStaysRight`, `PaddingStaysRight`,
  `UniformStaysUniform` and `HexStaysRight`; `CodecsStayRight` (`CodecsAreRight`), and its part
  `Base64StaysOneToOne`. Here
  the state is simple (`Answered`: what was left is the result of the call) and the work is in the loops, for
  numbers, buffers and texts of any length. A loop of the code is a recursive function over its turns: `LoopExists` shows
  that such a function exists and hence computes what its definition says, `TurnInduction` that what a
  turn keeps holds of every turn. Both come from the well-founded order of the natural numbers, which
  the library states without an operator as a parameter.
  * *Word operations* are tables of nibbles, from which `&` and `^` of bytes and of words follow by
    their halves (`And4Bits`, `And8Nibbles`, `And16Bytes`).
  * *Comparisons*: `sodium_compare` from the highest byte down has found the order of what it has seen
    (`CompareTurnFacts`); `sodium_memcmp` and `sodium_is_zero` join differences, and one that is not 0
    stays.
  * *Arithmetic*: `Carried` says that there are carries with which each byte is a sum (`Place`). The
    portable loops keep a sum in a wide accumulator, the assembly chains words with a flag; both leave
    such carries (`LoopedCarries`, `ChainedCarries`, `BorrowedTakes`), and with them the result is
    the sum of the definition, since a carry is what the highest byte that decides it says.
  * *Padding*: a block with no bit in common with the number before it is a power of two, for which
    the mask is the remainder (`And4Remainder` by its cases, `And8Remainder` and `And16Remainder` by
    halves). The mask of `sodium_pad`'s loop is right after every turn. The invariant of
    `sodium_unpad`'s is `Seen`: what was joined is 0 exactly if all bytes up to this turn were, and
    either a mark with only zeros after it was found and its place is kept, or there was none yet.
  * *Uniformity*: among the words that are not rejected those with one remainder are as many as there
    are whole runs of the bound (`Residues`, a bijection), and `RejectedIsRest` that the minimum which
    `randombytes_uniform` computes by negation is what is left over.

  * *Hexadecimal*: `ValueOfCharacter` finds what the arithmetic without branches makes of each byte. The
    invariant of `sodium_hex2bin`'s loop is `Reading`: what was read is pairs of digits that fit, and
    perhaps one more digit, which `half` holds; the bytes are those of the digits by their number; and
    it stopped, if it did, at a digit without room or at a character that is none and not to be
    ignored there. `HexRestReads` takes from it that nothing longer could have been read, also when the
    last digit is given back, and `HexTextReadsBack` that what `sodium_bin2hex` writes is read again.
  * *Base64*: `CharacterOfNumber` and `NumberOfCharacter` find what the comparisons without branches
    make of each number and each byte. `Writing` is the invariant of `sodium_bin2base64`'s loop: what
    was written is that of the bytes so far, and the low bits of `acc` are those of the last byte that
    wait. `Decoding` is that of `sodium_base642bin`'s: the bytes are those of the characters kept
    (`DecTaken`), the low bits of `acc` are those of the last one (`BitsOver`), and it stopped, if it
    did, at a character without room or at one that is neither of the alphabet nor to be ignored
    (`DecStopped`). `PaddingSkipped` says how far `_sodium_base642bin_skip_padding` goes. Two arguments
    meet in `Base642binReads`: what is read is an encoding (`FinalReads`, by `BytesHaveSixes`), since
    no bits but zeros are left over, and an encoding that fits is read to its end
    (`FinalReadsEncoded`, by `SixesHaveBytes`), since no character stops it. `CodecsStayRight` assumes that
    no `char` is negative: without that its second half is false, as `base64_chars` shows.

  What the theorems take from the caller is `InputsAreBytes`: bytes, equal lengths, offsets inside the
  buffer and a buffer of no more than 256 bytes, beyond which `sodium_pad`'s mask, the top byte of a
  `size_t`, would not tell two places of a block apart. With 64 bits that is 2^56 bytes. Texts and
  what they are read into have any length. For hexadecimal `ignore` is any set; for base64 it has
  neither `=` nor a character of the variant's alphabet: a text without what is ignored would then lack
  characters that the code reads.

Only model-checked: all liveness (`CallsEnd`), which the prover does not do, and the other properties
of `Algorithms` and `Curve`. Those components use the recursive operators of `Loops`, of which tlapm
proves nothing. The small curve and the chains of `Limbs` are besides fixed instances, for which TLC
goes through every case. Induction over data is possible where a loop is written as a recursive
function, as in `Numbers`.

## 6. Not modelled

* Runtime dispatch: CPU features and pointers to implementations, set once inside the critical
  section. `SodiumCore` has it as one `Prepare` each; the implementations that it chooses among are
  compared with each other in `Algorithms`.
* Assembly: `salsa20-xmm6`, and X25519 of `sandy2x`. They have no control flow that the portable
  code has not, and their registers are not worth a model.
* The limbs of the SSE2 code of Poly1305, in which a lane is a number here, and carries of the
  constant-time field arithmetic at their real widths.
* Random points and strings hashed to points, the keys that are only random bytes, the functions that
  return constants, `sodium_memzero`, `sodium_stackzero` and `sodium_mlock`, whose effect no call
  can read.
* Native arrays of Java passed for two parameters of a call at once; lengths and strings, which SWIG
  converts by itself; the Java classes other than `Hash`, which keep nothing; generated code.
* Builds other than Linux and Android: Windows' critical section and generator, `arc4random`,
  `getentropy`, RDRAND, ED25519_COMPAT and ED25519_NONDETERMINISTIC. They are alternatives of code
  that is modelled.
* Side channels: what an algorithm takes in time or in memory accesses.
* The example application, build scripts and tests.

## 7. Plan

Done, in this order: core and binding; secret stream; system generator; JNI boundary; hash streams;
guarded heap; internal generator; `Hash`; codecs and numbers; stream ciphers, Poly1305, boxes and
AEADs; AES modes; keyed hashes; Argon2 and scrypt; curves and signatures. Every invariant and action
property that a run checks of a state machine is proved, and so is what `Numbers` and `Codecs` compute. Next:

1. The abstract specifications that the other state machines deserve, as `StreamFifo` and `AtomicCalls`
   are for two of them: a heap that hands out disjoint blocks, a hash that takes bytes one at a time, a
   source of words that are fresh. The invariants of section 5 are what their proofs need.
2. `Poly1305` for every length and key: its limbs need the argument of `Numbers` about carries, and
   its loops to become recursive functions, as those of `Codecs` are.
