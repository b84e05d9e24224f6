--------------------------------- MODULE Wots --------------------------------
(***************************************************************************)
(* One-time signatures (TSS/src/signature/wots.c, wotsx1.c) and the trees  *)
(* over their keys (merkle.c). A message is a sequence of bytes, cut into  *)
(* digits that say how far along its chain each signature value lies.      *)
(***************************************************************************)
EXTENDS TreeHash

CONSTANTS
    SPX_N,              \* bytes of a message
    SPX_WOTS_LOGW,      \* bits of a digit, a divisor of 8
    SPX_WOTS_LEN2,      \* digits of the checksum
    SPX_TREE_HEIGHT

SPX_WOTS_W == TwoTo(SPX_WOTS_LOGW)
SPX_WOTS_LEN1 == (8 * SPX_N) \div SPX_WOTS_LOGW
SPX_WOTS_LEN == SPX_WOTS_LEN1 + SPX_WOTS_LEN2

ASSUME WotsAssumption ==
    /\ SPX_N \in Nat \ {0} /\ SPX_WOTS_LOGW \in {1, 2, 4, 8} /\ SPX_TREE_HEIGHT \in Nat \ {0}
    /\ SPX_WOTS_LEN2 \in Nat
    /\ SPX_WOTS_LEN1 * (SPX_WOTS_W - 1) < TwoTo(SPX_WOTS_LOGW * SPX_WOTS_LEN2)

Chains == 0..(SPX_WOTS_LEN - 1)
Bytes == [1..SPX_N -> 0..255]

\* base_w: the first out_len digits, the high bits of a byte first.
base_w(out_len, input) ==
    [k \in 0..(out_len - 1) |->
        LET bit == k * SPX_WOTS_LOGW
        IN  Shift(input[(bit \div 8) + 1], 8 - SPX_WOTS_LOGW - (bit % 8)) % SPX_WOTS_W]

\* ull_to_bytes: big endian.
ull_to_bytes(outlen, x) == [k \in 1..outlen |-> Shift(x, 8 * (outlen - k)) % 256]

\* What the digits leave of their chains.
Left(digits) ==
    LET csum[k \in 0..SPX_WOTS_LEN1] == IF k = 0 THEN 0 ELSE csum[k - 1] + SPX_WOTS_W - 1 - digits[k - 1]
    IN  csum[SPX_WOTS_LEN1]

\* Fault: the bits that are missing to whole bytes are the highest ones.
wots_checksum_unaligned(digits) ==
    base_w(SPX_WOTS_LEN2, ull_to_bytes((SPX_WOTS_LEN2 * SPX_WOTS_LOGW + 7) \div 8, Left(digits)))

\* wots_checksum: the empty bits are the lowest.
wots_checksum(digits) ==
    LET empty == (8 - ((SPX_WOTS_LEN2 * SPX_WOTS_LOGW) % 8)) % 8
    IN  base_w(SPX_WOTS_LEN2, ull_to_bytes((SPX_WOTS_LEN2 * SPX_WOTS_LOGW + 7) \div 8,
                                            Left(digits) * TwoTo(empty)))

chain_lengths(msg) ==
    LET digits == base_w(SPX_WOTS_LEN1, msg)
        checksum == wots_checksum(digits)
    IN  [k \in Chains |-> IF k < SPX_WOTS_LEN1 THEN digits[k] ELSE checksum[k - SPX_WOTS_LEN1]]

\* gen_chain.
gen_chain(in, start, steps, addr) ==
    LET out[k \in 0..steps] ==
            IF k = 0 THEN in
            ELSE IF start + k > SPX_WOTS_W THEN out[k - 1]
            ELSE thash(<<out[k - 1]>>, set_hash_addr(addr, start + k - 1))
    IN  out[steps]

\* The values of one chain of a key pair, computed by wots_gen_leafx1: the first
\* is the secret, each other the hash of the one before.
Chain(seed, leaf_addr, keypair, k) ==
    LET addr == set_hash_addr(set_chain_addr(set_keypair_addr(leaf_addr, keypair), k), 0)
        value[j \in 0..(SPX_WOTS_W - 1)] ==
            IF j = 0 THEN prf_addr(seed, set_type(addr, "WOTSPRF"))
            ELSE thash(<<value[j - 1]>>, set_hash_addr(set_type(addr, "WOTS"), j - 1))
    IN  value

\* merkle_sign: signs msg with key pair idx_leaf of the tree that wots_addr is in.
merkle_sign(seed, msg, wots_addr, tree_addr, idx_leaf) ==
    LET steps == chain_lengths(msg)
        leaf_addr == copy_subtree_addr(ZeroAddr, wots_addr)
        pk_addr == set_type(copy_subtree_addr(ZeroAddr, wots_addr), "WOTSPK")
        leaves == [idx \in 0..(TwoTo(SPX_TREE_HEIGHT) - 1) |->
                      thash([k \in Chains |-> Chain(seed, leaf_addr, idx, k)[SPX_WOTS_W - 1]],
                            set_keypair_addr(pk_addr, idx))]
        hashed == treehashx1(idx_leaf, 0, SPX_TREE_HEIGHT, leaves, set_type(tree_addr, "HASHTREE"))
    IN  [sig  |-> [k \in Chains |-> Chain(seed, leaf_addr, idx_leaf, k)[steps[k]]],
         auth |-> hashed.auth, root |-> hashed.root, tree_addr |-> hashed.addr]

\* wots_pk_from_sig: the ends of the chains, and addr as it is left behind.
wots_pk_from_sig(sig, msg, addr) ==
    LET lengths == chain_lengths(msg)
        hashed == \E k \in Chains : lengths[k] < SPX_WOTS_W - 1
        left == set_chain_addr(addr, SPX_WOTS_LEN - 1)
    IN  [pk   |-> [k \in Chains |-> gen_chain(sig[k], lengths[k], SPX_WOTS_W - 1 - lengths[k],
                                              set_chain_addr(addr, k))],
         addr |-> IF hashed THEN set_hash_addr(left, SPX_WOTS_W - 2) ELSE left]
==============================================================================
