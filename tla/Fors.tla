--------------------------------- MODULE Fors --------------------------------
(***************************************************************************)
(* Few-time signatures (TSS/src/signature/fors.c): fors_sign opens one     *)
(* leaf in each of SPX_FORS_TREES trees, fors_pk_from_sig computes the     *)
(* public key again from what was opened. One step for each tree. All the  *)
(* addresses are for the key pair fors_addr; the trees share one range of  *)
(* indices, in which tree i starts at i * 2^SPX_FORS_HEIGHT.               *)
(***************************************************************************)
EXTENDS TreeHash, Session

CONSTANTS SPX_FORS_TREES, SPX_FORS_HEIGHT

ASSUME ForsAssumption ==
    /\ SPX_FORS_TREES \in Nat \ {0} /\ SPX_FORS_HEIGHT \in Nat \ {0} /\ SPX_FORS_HEIGHT < Byte
    /\ \A given \in Inputs : given.bits \in [0..(SPX_FORS_TREES * SPX_FORS_HEIGHT - 1) -> {0, 1}]

Trees == 0..(SPX_FORS_TREES - 1)
Heights == 0..(SPX_FORS_HEIGHT - 1)
ForsSeed == "fors_seed"

VARIABLES
    i,              \* the tree whose turn it is
    treeAddr,       \* fors_tree_addr
    opened,         \* per tree, the secret and the authentication path
    treeRoots,      \* the roots computed so far, by signer or verifier
    pk,             \* what fors_sign returned
    pkFromSig       \* what fors_pk_from_sig returned

forsVars == <<i, treeAddr, opened, treeRoots, pk, pkFromSig>>

\* What tss_sign_FORS and tss_crypto_sign_verify pass: layer 0, the tree and key
\* pair that the digest says.
ForsAddr == set_keypair_addr(set_tree_addr(ZeroAddr, input.tree), input.leaf)

ForsInit ==
    /\ i = 0 /\ opened = <<>> /\ treeRoots = <<>> /\ pk = <<>> /\ pkFromSig = <<>>
    /\ treeAddr = copy_keypair_addr(ZeroAddr, ForsAddr)

\* message_to_indices: SPX_FORS_HEIGHT bits for each tree, the lowest first.
Index(tree) ==
    LET indices[j \in 0..SPX_FORS_HEIGHT] ==
            IF j = 0 THEN 0
            ELSE indices[j - 1] + input.bits[tree * SPX_FORS_HEIGHT + (j - 1)] * TwoTo(j - 1)
    IN  indices[SPX_FORS_HEIGHT]

Offset(tree) == tree * TwoTo(SPX_FORS_HEIGHT)

\* The address of the selected leaf.
LeafAddr(addr, tree) == set_tree_index(set_tree_height(addr, 0), Index(tree) + Offset(tree))

\* fors_gen_leafx1: at each index, the hash of the secret there.
Leaves ==
    [index \in 0..(SPX_FORS_TREES * TwoTo(SPX_FORS_HEIGHT) - 1) |->
        LET addr == set_tree_index(copy_keypair_addr(ZeroAddr, ForsAddr), index)
        IN  thash(<<prf_addr(ForsSeed, set_type(addr, "FORSPRF"))>>, set_type(addr, "FORSTREE"))]

PkAddr == set_type(copy_keypair_addr(ZeroAddr, ForsAddr), "FORSPK")

\* One tree of fors_sign.
SignTree ==
    /\ phase = "fors" /\ i < SPX_FORS_TREES
    /\ LET addr == LeafAddr(treeAddr, i)
           hashed == treehashx1(Index(i), Offset(i), SPX_FORS_HEIGHT, Leaves, set_type(addr, "FORSTREE"))
       IN  /\ opened' = Append(opened, [sk |-> prf_addr(ForsSeed, set_type(addr, "FORSPRF")), auth |-> hashed.auth])
           /\ treeRoots' = Append(treeRoots, hashed.root)
           /\ treeAddr' = hashed.addr
    /\ i' = i + 1
    /\ UNCHANGED <<input, phase, pk, pkFromSig>>

\* Its end; a verifier starts with addresses of its own.
SignEnd ==
    /\ phase = "fors" /\ i = SPX_FORS_TREES
    /\ pk' = thash(treeRoots, PkAddr)
    /\ phase' = "start" /\ i' = 0 /\ treeRoots' = <<>>
    /\ treeAddr' = set_type(copy_keypair_addr(ZeroAddr, ForsAddr), "FORSTREE")
    /\ UNCHANGED <<input, opened, pkFromSig>>

\* One tree of fors_pk_from_sig.
VerifyTree ==
    /\ phase = "forsPk" /\ i < SPX_FORS_TREES
    /\ LET addr == LeafAddr(treeAddr, i)
           shown == opened[i + 1]
           computed == compute_root(thash(<<shown.sk>>, addr), Index(i), Offset(i), shown.auth,
                                    SPX_FORS_HEIGHT, addr)
       IN  /\ treeRoots' = Append(treeRoots, computed.root)
           /\ treeAddr' = computed.addr
    /\ i' = i + 1
    /\ UNCHANGED <<input, phase, opened, pk, pkFromSig>>

VerifyEnd ==
    /\ phase = "forsPk" /\ i = SPX_FORS_TREES
    /\ pkFromSig' = thash(treeRoots, PkAddr)
    /\ phase' = "verify"
    /\ UNCHANGED <<input, i, treeAddr, opened, treeRoots, pk>>

------------------------------------------------------------------------------
\* For each tree the signature opens the selected leaf and, at every height, the
\* node beside its path (utilsx1.c:62-70), so it shows no other secret and
\* nothing that an other secret follows from.
OpensSelectedLeaf ==
    \A t \in Trees : (phase = "fors" /\ t < Len(opened)) =>
        LET Node(h, j) == TreeNode(h, j, Offset(t), Leaves,
                                   set_type(copy_keypair_addr(ZeroAddr, ForsAddr), "FORSTREE"))
            shown == opened[t + 1]
        IN  /\ Node(0, Index(t))[3] = <<shown.sk>>
            /\ \A h \in Heights : \E j \in {Shift(Index(t), h) + 1, Shift(Index(t), h) - 1} :
                   Shift(j, 1) = Shift(Index(t), h + 1) /\ shown.auth[h] = Node(h, j)

\* The addresses at which these values were computed, and the values that they
\* were computed from, down to the secrets.
Addresses(values) ==
    LET part[n \in 0..(SPX_FORS_HEIGHT + 1)] ==
            IF n = 0 THEN values
            ELSE UNION {{value[3][k] : k \in DOMAIN value[3]} : value \in part[n - 1]}
    IN  {value[2] : value \in UNION {part[n] : n \in 0..(SPX_FORS_HEIGHT + 1)}}

\* All the hashes under a public key are computed at different addresses: an
\* address is a kind, a height and an index that count through all the trees
\* (fors.c:92, utilsx1.c:85-89), packed in overlapping bytes.
AddressesDiffer ==
    phase = "fors" =>
        Cardinality(Addresses({treeRoots[k] : k \in DOMAIN treeRoots}))
            = Len(treeRoots) * (3 * TwoTo(SPX_FORS_HEIGHT) - 1)
==============================================================================
