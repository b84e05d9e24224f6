------------------------------ MODULE Hypertree ------------------------------
(***************************************************************************)
(* The hypertree's part of a signature, made by t signers and the TTP      *)
(* (TSS/src/signature/TSS_sign.c) or by one who has the whole key          *)
(* (ref/src/signature/sign.c), and checked by a verifier. Each signer      *)
(* finds the tree and the key pair of its layers from the digest by        *)
(* itself, the TTP does so for the top, and the verifier walks through all *)
(* of them; they share nothing but the digest. All participants' keys come *)
(* from seeds of their own. Numbers of layers are those of the networked   *)
(* build, which for t = SPX_D - 1 are those of the threaded one.           *)
(***************************************************************************)
EXTENDS Wots, Session

CONSTANTS SPX_D     \* the number of layers

ASSUME HypertreeAssumption ==
    /\ SPX_D \in Nat /\ SPX_D >= 2 /\ SPX_D <= Byte
    /\ \A given \in Inputs :
           /\ given.tree \in 0..(TwoTo(SPX_TREE_HEIGHT * (SPX_D - 1)) - 1)
           /\ given.leaf \in 0..(TwoTo(SPX_TREE_HEIGHT) - 1)
           /\ given.t \in 0..(SPX_D - 1) /\ given.bytes \in [1..SPX_D -> Bytes]

Layers == 0..(SPX_D - 1)
JointSeed == SPX_D              \* of the whole key; the signers' seeds are their indices
NoSignature == <<>>

VARIABLES
    index,      \* whose turn it is to sign
    c,          \* the layer: of the signer's own while signing, of all of them after
    pos,        \* where in the hypertree the participant at work is
    roots,      \* the FORS key and the roots of the layers signed, with their bytes
    sig,        \* the layers' part of the signed message
    root        \* the verifier's root

hypertreeVars == <<index, c, pos, roots, sig, root>>

------------------------------------------------------------------------------
(* Positions: tree, idx_leaf, wots_addr and tree_addr of one participant.    *)

\* hash_message has selected tree and leaf; the addresses are those of layer 0.
At(d) == [tree |-> d.tree, leaf |-> d.leaf,
          wots |-> set_keypair_addr(set_tree_addr(ZeroAddr, d.tree), d.leaf),
          treeAddr |-> set_type(ZeroAddr, "HASHTREE")]

SetLayer(p, layer) ==
    LET tree_addr == set_tree_addr(set_layer_addr(p.treeAddr, layer), p.tree)
    IN  [p EXCEPT !.treeAddr = tree_addr,
                  !.wots = set_keypair_addr(copy_subtree_addr(@, tree_addr), p.leaf)]

\* Update the indices for the next layer.
Ascend(p) ==
    [p EXCEPT !.leaf = p.tree % TwoTo(SPX_TREE_HEIGHT), !.tree = Shift(p.tree, SPX_TREE_HEIGHT)]

\* tss_gen_addr: past the first idx layers.
tss_gen_addr(idx, p) ==
    LET at[k \in 0..idx] == IF k = 0 THEN p ELSE Ascend(SetLayer(at[k - 1], k - 1))
    IN  at[idx]

\* Fault: the last layer is left, too.
tss_gen_ttp_addr_left(p) == SetLayer(tss_gen_addr(SPX_D, p), SPX_D - 1)

\* tss_gen_ttp_addr: the last layer has its addresses set and is not left.
tss_gen_ttp_addr(p) == SetLayer(tss_gen_addr(SPX_D - 1, p), SPX_D - 1)

\* What each signer signs: spx_wots_avg layers, the last one all that remain.
SPX_WOTS_AVG == (SPX_D - 1) \div input.t

\* Fault: what the division leaves over is not signed.
LevelsEqual(idx) == SPX_WOTS_AVG

Levels(idx) == IF idx = input.t - 1 THEN SPX_WOTS_AVG + ((SPX_D - 1) % input.t) ELSE SPX_WOTS_AVG

\* merkle_gen_root: the public root, with no leaf to sign (leaf_idx is ~0).
PublicRoot ==
    merkle_sign(JointSeed, [k \in 1..SPX_N |-> 0], set_layer_addr(ZeroAddr, SPX_D - 1),
                set_layer_addr(ZeroAddr, SPX_D - 1), TwoTo(16) - 1).root

\* The bytes of a value, and the bytes of any value that nobody has signed.
BytesOf(value) ==
    IF \E k \in DOMAIN roots : roots[k].value = value
    THEN roots[CHOOSE k \in DOMAIN roots : roots[k].value = value].bytes
    ELSE [k \in 1..SPX_N |-> 255]

\* The value to be signed next is the k-th one.
Signed(value, k) == [value |-> value, bytes |-> IF k <= SPX_D THEN input.bytes[k] ELSE <<>>]

------------------------------------------------------------------------------
HypertreeInit ==
    /\ index = 0 /\ c = 0
    /\ pos = At(input)
    /\ roots = <<>> /\ root = <<>>
    /\ sig = [layer \in Layers |-> NoSignature]

\* Where in the signed message a signer puts the layer.
Place == index * SPX_WOTS_AVG + c

\* A signer's position, from the digest: hash_message and tss_gen_addr.
FindAddress ==
    /\ phase = "start" /\ ~Alone
    /\ pos' = tss_gen_addr(index * SPX_WOTS_AVG, At(input))
    /\ phase' = "sign" /\ c' = 0
    /\ UNCHANGED <<input, index, roots, sig, root>>

\* One layer: the root below is signed, the layer's root comes next.
SignAt(seed, layer, place) ==
    LET at == SetLayer(pos, layer)
        signed == merkle_sign(seed, roots[Len(roots)].bytes, at.wots, at.treeAddr, at.leaf)
    IN  /\ pos' = Ascend([at EXCEPT !.treeAddr = signed.tree_addr])
        /\ sig' = [sig EXCEPT ![place] = [wots |-> signed.sig, auth |-> signed.auth]]
        /\ roots' = Append(roots, Signed(signed.root, Len(roots) + 1))
        /\ c' = c + 1

\* One cycle of tss_sign_WOTS.
SignLayer ==
    /\ phase = "sign" /\ c < Levels(index)
    /\ SignAt(index, c + index * SPX_WOTS_AVG, Place)
    /\ UNCHANGED <<input, phase, index, root>>

\* The root goes to the next signer, at last to the TTP.
PassRoot ==
    /\ phase = "sign" /\ c = Levels(index)
    /\ IF index < input.t - 1 THEN phase' = "start" /\ index' = index + 1
       ELSE phase' = "ttp" /\ UNCHANGED index
    /\ UNCHANGED <<input, c, pos, roots, sig, root>>

\* tss_gen_ttp_addr and tss_sign_WOTS_ttp; then a verifier starts.
SignTop ==
    /\ phase = "ttp"
    /\ LET at == tss_gen_ttp_addr(At(input))
           signed == merkle_sign(JointSeed, roots[Len(roots)].bytes, at.wots, at.treeAddr, at.leaf)
       IN  sig' = [sig EXCEPT ![SPX_D - 1] = [wots |-> signed.sig, auth |-> signed.auth]]
    /\ phase' = "forsPk" /\ c' = 0 /\ pos' = At(input)
    /\ UNCHANGED <<input, index, roots, root>>

\* One layer of crypto_sign_signature, and its end.
SignLayerAlone ==
    /\ phase = "start" /\ Alone /\ c < SPX_D
    /\ SignAt(JointSeed, c, c)
    /\ UNCHANGED <<input, phase, index, root>>

EndAlone ==
    /\ phase = "start" /\ Alone /\ c = SPX_D
    /\ phase' = "forsPk" /\ c' = 0 /\ pos' = At(input)
    /\ UNCHANGED <<input, index, roots, sig, root>>

\* One layer of tss_crypto_sign_verify.
VerifyLayer ==
    /\ phase = "verify" /\ c < SPX_D
    /\ LET at == SetLayer(pos, c)
           key == wots_pk_from_sig(sig[c].wots, BytesOf(root), at.wots)
           leaf == thash(key.pk, copy_keypair_addr(set_type(ZeroAddr, "WOTSPK"), key.addr))
           computed == compute_root(leaf, at.leaf, 0, sig[c].auth, SPX_TREE_HEIGHT, at.treeAddr)
       IN  /\ root' = computed.root
           /\ pos' = Ascend([at EXCEPT !.wots = key.addr, !.treeAddr = computed.addr])
    /\ c' = c + 1
    /\ UNCHANGED <<input, phase, index, roots, sig>>

\* The comparison with the root of the public key.
Accepted == root = PublicRoot
Compare ==
    /\ phase = "verify" /\ c = SPX_D
    /\ phase' = "done"
    /\ UNCHANGED <<input, index, c, pos, roots, sig, root>>

------------------------------------------------------------------------------
\* A signature that t signers and the TTP have made, or one signer alone, verifies,
\* whichever way the layers are divided (TSS_sign.c:89-224 against 230-312,
\* ref sign.c:95-159). That signers, TTP and verifier find the same FORS key pair
\* and the same trees takes five loops over the digest's bits that agree, and
\* addresses that are reused with what the last hash left in them.
SignatureVerifies == phase = "done" => Accepted

\* When the TTP's turn comes all the layers below the top are signed, once each
\* and over the root of the one below: the signers' shares do not overlap each
\* other or the TTP's, and leave nothing out (sign_round.c:12-16, 80-81).
AllLayersSigned ==
    phase = "ttp" => /\ \A layer \in 0..(SPX_D - 2) : sig[layer] # NoSignature
                     /\ Len(roots) = SPX_D

\* The values a signature shows of its chains are a signature of no other
\* message: an other message needs an earlier value of some chain, thanks to the
\* checksum (wots.c:67-92).
SignsNothingElse ==
    phase = "done" =>
        \A k \in 1..SPX_D : \A other \in Bytes \ {roots[k].bytes} :
            \E j \in Chains : chain_lengths(other)[j] < chain_lengths(roots[k].bytes)[j]
==============================================================================
