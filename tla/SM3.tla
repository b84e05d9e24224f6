--------------------------------- MODULE SM3 ---------------------------------
(***************************************************************************)
(* Hashing (TSS/src/hash). What SM3 compresses is left out, where it gets  *)
(* the blocks from is not: a hash value is the term of the bytes that were *)
(* absorbed, padding included. All bytes are triples <<name, number, of>>: *)
(* a known value, a byte of some input, a byte of a hash, an exclusive or. *)
(***************************************************************************)
EXTENDS Bits, Sequences, SequencesExt

SPX_SM3_BLOCK_BYTES == 64
SPX_SM3_OUTPUT_BYTES == 32
SPX_SM3_ADDR_BYTES == 22

Octet(value) == <<"octet", value, <<>>>>
Input(name, length) == [k \in 1..length |-> <<name, k, <<>>>>]
Xor(a, b) == <<"xor", 0, <<a, b>>>>
Times(octet, n) == [k \in 1..n |-> Octet(octet)]
Digest(absorbed) == [k \in 1..SPX_SM3_OUTPUT_BYTES |-> <<"sm3", k, absorbed>>]

\* Byte of a big-endian number, shifted to the right.
ByteOf(number, right) == Shift(number, right) % 256

------------------------------------------------------------------------------
(* SM3.c: a state is what it has absorbed, in whole blocks, and the count.    *)

sm3_inc_init == [absorbed |-> <<>>, bytes |-> 0]

Whole(length) == SPX_SM3_BLOCK_BYTES * (length \div SPX_SM3_BLOCK_BYTES)

crypto_hashblocks_sm3(state, in) == [state EXCEPT !.absorbed = @ \o SubSeq(in, 1, Whole(Len(in)))]

\* Fault: the bytes are not counted.
sm3_inc_blocks_uncounted(state, in, inblocks) ==
    crypto_hashblocks_sm3(state, SubSeq(in, 1, SPX_SM3_BLOCK_BYTES * inblocks))

sm3_inc_blocks(state, in, inblocks) ==
    [crypto_hashblocks_sm3(state, SubSeq(in, 1, SPX_SM3_BLOCK_BYTES * inblocks))
        EXCEPT !.bytes = @ + SPX_SM3_BLOCK_BYTES * inblocks]

\* Fault: 56 bytes leave no room for the bit that ends the message.
PaddedSizeTight(rest) == IF rest <= 56 THEN 64 ELSE 128

\* One block or two, for the rest, the bit that ends it and the length.
PaddedSize(rest) == IF rest < 56 THEN 64 ELSE 128

\* The length in bits, from the count of bytes: bytes >> 53 to bytes >> 5, bytes << 3.
BitLength(bytes) == [k \in 1..8 |-> Octet(IF k = 8 THEN (bytes * 8) % 256 ELSE ByteOf(bytes, 61 - 8 * k))]

sm3_inc_finalize(state, in) ==
    LET rest == SubSeq(in, Whole(Len(in)) + 1, Len(in))
        size == PaddedSize(Len(rest))
        padded == [k \in 1..size |->
                      IF k > size - 8 THEN BitLength(state.bytes + Len(in))[k - (size - 8)]
                      ELSE IF k <= Len(rest) THEN rest[k]
                      ELSE Octet(IF k = Len(rest) + 1 THEN 128 ELSE 0)]
    IN  Digest(crypto_hashblocks_sm3(crypto_hashblocks_sm3(state, in), padded).absorbed)

sm3(in) == sm3_inc_finalize(sm3_inc_init, in)

u32_to_bytes(i) == [k \in 1..4 |-> Octet(ByteOf(i, 32 - 8 * k))]

\* Whole blocks, then a part of one.
mgf1_SM3(outlen, in) ==
    LET Chunk(i) == sm3(in \o u32_to_bytes(i))
        whole == outlen \div SPX_SM3_OUTPUT_BYTES
    IN  FlattenSeq([i \in 1..whole |-> Chunk(i - 1)])
        \o SubSeq(Chunk(whole), 1, outlen - whole * SPX_SM3_OUTPUT_BYTES)

\* The state after a block that holds the public seed.
seed_state(n) ==
    sm3_inc_blocks(sm3_inc_init, Input("pub_seed", n) \o Times(0, SPX_SM3_BLOCK_BYTES - n), 1)

------------------------------------------------------------------------------
(* thash and prf_addr: n is SPX_N.                                           *)

initialize_hash_function(n) == seed_state(n)

SeededHash(n, in) == SubSeq(sm3_inc_finalize(initialize_hash_function(n), in), 1, n)

PrfAddr(n) == SeededHash(n, Input("addr", SPX_SM3_ADDR_BYTES) \o Input("sk_seed", n))

ThashSimple(n, inblocks) == SeededHash(n, Input("addr", SPX_SM3_ADDR_BYTES) \o Input("in", inblocks * n))

ThashRobust(n, inblocks) ==
    LET bitmask == mgf1_SM3(inblocks * n, Input("pub_seed", n) \o Input("addr", SPX_SM3_ADDR_BYTES))
    IN  SeededHash(n, Input("addr", SPX_SM3_ADDR_BYTES)
                      \o [k \in 1..(inblocks * n) |-> Xor(<<"in", k, <<>>>>, bitmask[k])])

------------------------------------------------------------------------------
(* The two hashes of a message m: both put what fills whole blocks in front   *)
(* of it, so that the message need not be moved.                             *)

FillsBlocks(length, inblocks) == length >= inblocks * SPX_SM3_BLOCK_BYTES

AbsorbAfter(state, prefix, inblocks, m) ==
    IF FillsBlocks(Len(prefix) + Len(m), inblocks)
    THEN LET taken == inblocks * SPX_SM3_BLOCK_BYTES - Len(prefix)
         IN  sm3_inc_finalize(sm3_inc_blocks(state, prefix \o SubSeq(m, 1, taken), inblocks),
                              SubSeq(m, taken + 1, Len(m)))
    ELSE sm3_inc_finalize(state, prefix \o m)

\* The key of one of the two hashes, a whole block.
KeyBlock(n, pad) ==
    [k \in 1..n |-> Xor(Octet(pad), <<"sk_prf", k, <<>>>>)] \o Times(pad, SPX_SM3_BLOCK_BYTES - n)

gen_message_random(n, m) ==
    LET inner == AbsorbAfter(sm3_inc_blocks(sm3_inc_init, KeyBlock(n, 54), 1), Input("optrand", n), 1, m)
    IN  SubSeq(sm3(KeyBlock(n, 92) \o inner), 1, n)

SPX_INBLOCKS(n) == (3 * n + SPX_SM3_BLOCK_BYTES - 1) \div SPX_SM3_BLOCK_BYTES

\* Whole bytes for so many bits.
BytesFor(bits) == (bits + 7) \div 8

\* The lowest bits of a big-endian number, each as <<byte, bit>>, the lowest first.
LowBits(number, bits) ==
    [k \in 1..bits |-> <<number[Len(number) - (k - 1) \div 8], (k - 1) % 8>>]

\* message_to_indices reads FORS's bytes from the lowest bit of the first one.
BitsOf(bytes, bits) == [k \in 1..bits |-> <<bytes[(k - 1) \div 8 + 1], (k - 1) % 8>>]

\* p: the parameters SPX_N, SPX_FULL_HEIGHT, SPX_D, SPX_FORS_HEIGHT, SPX_FORS_TREES.
SPX_TREE_HEIGHT_OF(p) == p.fullHeight \div p.d
SPX_TREE_BITS(p) == SPX_TREE_HEIGHT_OF(p) * (p.d - 1)
SPX_FORS_MSG_BYTES(p) == BytesFor(p.forsHeight * p.forsTrees)
SPX_DGST_BYTES(p) ==
    SPX_FORS_MSG_BYTES(p) + BytesFor(SPX_TREE_BITS(p)) + BytesFor(SPX_TREE_HEIGHT_OF(p))

\* The digest's bytes and what they are for: all the bits of the FORS indices, the
\* low bits of the tree and of the leaf.
SplitDigest(p, buf) ==
    LET tree == SPX_FORS_MSG_BYTES(p)
        leaf == tree + BytesFor(SPX_TREE_BITS(p))
    IN  [mhash |-> BitsOf(SubSeq(buf, 1, tree), p.forsHeight * p.forsTrees),
         tree  |-> LowBits(SubSeq(buf, tree + 1, leaf), SPX_TREE_BITS(p)),
         leaf  |-> LowBits(SubSeq(buf, leaf + 1, Len(buf)), SPX_TREE_HEIGHT_OF(p))]

hash_message(p, pk, m) ==
    LET seed == AbsorbAfter(sm3_inc_init, Input("R", p.n) \o pk, SPX_INBLOCKS(p.n), m)
    IN  mgf1_SM3(SPX_DGST_BYTES(p), Input("R", p.n) \o SubSeq(pk, 1, p.n) \o seed)

------------------------------------------------------------------------------
(* What the code has to agree with: SM3 of a whole message with its padding,  *)
(* HMAC and MGF1 as their standards define them.                             *)

Padded(message) ==
    LET zeros == CHOOSE k \in 0..63 : (Len(message) + 1 + k + 8) % 64 = 0
    IN  message \o <<Octet(128)>> \o Times(0, zeros)
        \o [k \in 1..8 |-> Octet(ByteOf(8 * Len(message), 64 - 8 * k))]

SM3Of(message) == Digest(Padded(message))

HmacOf(key, message) ==
    LET Key(pad) == [k \in 1..64 |-> IF k <= Len(key) THEN Xor(Octet(pad), key[k]) ELSE Octet(pad)]
    IN  SM3Of(Key(92) \o SM3Of(Key(54) \o message))

Mgf1Of(outlen, seed) ==
    LET Counter(i) == [k \in 1..4 |-> Octet(ByteOf(i, 32 - 8 * k))]
        Blocks == [i \in 0..(outlen \div 32) |-> SM3Of(seed \o Counter(i))]
    IN  [k \in 1..outlen |-> Blocks[(k - 1) \div 32][((k - 1) % 32) + 1]]
==============================================================================
