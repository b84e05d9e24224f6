------------------------------- MODULE Session -------------------------------
(***************************************************************************)
(* The start of a signature and of its verification: everyone hashes the   *)
(* message by itself (TSS_sign.c, tss_sign_FORS, tss_gen_ttp_addr and      *)
(* tss_crypto_sign_verify) and takes the FORS indices, the tree and the    *)
(* leaf from the digest. Which ones come out is left open: an input of the *)
(* model says it.                                                          *)
(***************************************************************************)
EXTENDS SM3, FiniteSets

CONSTANTS
    Inputs          \* what a session may be about, see below

VARIABLES
    input,          \* p, mlen: the hashes' parameters and the length of the message;
                    \* bits, tree, leaf: what the digest selects; t: the number of signers
                    \* besides the TTP, or 0 for one who has the whole key (ref/src);
                    \* bytes: the bytes that each layer signs
    phase           \* what is done next, see Signature

\* The layers have trees of one height and a value is no longer than a block: the build
\* refuses other parameters (params-sphincs-SM3-128f.h:64, SM3.h:10, both with #error).
ASSUME SessionAssumption ==
    \A given \in Inputs :
        /\ given.mlen \in Nat
        /\ given.p.n \in 1..SPX_SM3_BLOCK_BYTES
        /\ given.p.d \in Nat \ {0}
        /\ SPX_TREE_HEIGHT_OF(given.p) \in Nat
        /\ given.p.fullHeight = given.p.d * SPX_TREE_HEIGHT_OF(given.p)
        /\ given.p.forsHeight \in Nat
        /\ given.p.forsTrees \in Nat

Alone == input.t = 0

\* The digest, as each participant has it.
HashMessage ==
    /\ phase = "hash"
    /\ phase' = "fors"
    /\ UNCHANGED input

------------------------------------------------------------------------------
Message == Input("m", input.mlen)
PublicKey == Input("pk", 2 * input.p.n)

\* Whatever its length, all of the message is hashed, once and padded as SM3
\* wants it: the randomizer is its HMAC and the digest the MGF1 of its hash with the
\* public key, though both put a part of the message aside to fill whole blocks
\* (hash_SM3.c:76-88, 136-151) and count blocks apart from bytes (SM3.c:192-243).
\* No bit of the digest serves two purposes (hash_SM3.c:160-176).
MessageHashed ==
    phase = "hash" =>
        LET p == input.p
            parts == SplitDigest(p, [k \in 1..SPX_DGST_BYTES(p) |-> k])
            used == parts.mhash \o parts.tree \o parts.leaf
        IN  /\ gen_message_random(p.n, Message) =
                   SubSeq(HmacOf(Input("sk_prf", p.n), Input("optrand", p.n) \o Message), 1, p.n)
            /\ hash_message(p, PublicKey, Message) =
                   Mgf1Of(SPX_DGST_BYTES(p),
                          Input("R", p.n) \o SubSeq(PublicKey, 1, p.n)
                          \o SM3Of(Input("R", p.n) \o PublicKey \o Message))
            /\ Cardinality({used[k] : k \in DOMAIN used}) = p.forsHeight * p.forsTrees + p.fullHeight

\* A node's hash and a secret, which go on from the state in which the seed is
\* absorbed already, are those of the whole input: seed block, address and data,
\* masked in the robust variant (thash_SM3_simple.c:13-27, thash_SM3_robust.c:13-36).
NodesHashed ==
    (phase = "hash" /\ input.mlen = 0) =>
        LET n == input.p.n
            seed == Input("pub_seed", n)
            block == seed \o Times(0, 64 - n)
            addr == Input("addr", 22)
        IN  /\ PrfAddr(n) = SubSeq(SM3Of(block \o addr \o Input("sk_seed", n)), 1, n)
            /\ \A blocks \in {1, 2, input.p.forsTrees, 2 * n + 3} :
                   LET in == Input("in", blocks * n)
                       mask == Mgf1Of(blocks * n, seed \o addr)
                   IN  /\ ThashSimple(n, blocks) = SubSeq(SM3Of(block \o addr \o in), 1, n)
                       /\ ThashRobust(n, blocks) =
                              SubSeq(SM3Of(block \o addr \o [k \in DOMAIN in |-> Xor(in[k], mask[k])]), 1, n)
==============================================================================
