------------------------------- MODULE TreeHash ------------------------------
(***************************************************************************)
(* Merkle trees: treehashx1 (TSS/src/utils/utilsx1.c) makes the root and   *)
(* the authentication path of a leaf with a stack of one node per height,  *)
(* compute_root (TSS/src/utils/utils.c) the root from leaf and path. A     *)
(* hash value is the term of what was hashed at which address, so that two *)
(* values are equal just if they were computed alike.                      *)
(***************************************************************************)
EXTENDS Address, Bits, Sequences, FiniteSetsExt, SequencesExt

prf_addr(seed, addr) == <<"prf", addr, <<>>, seed>>
thash(in, addr) == <<"thash", addr, in, "">>

\* Fault: the index counts within the tree.
NodeAddrLocal(tree_addr, h, idx, idx_offset) ==
    set_tree_index(set_tree_height(tree_addr, h), Shift(idx, h))

\* The address of the node at height h above leaf idx.
NodeAddr(tree_addr, h, idx, idx_offset) ==
    set_tree_index(set_tree_height(tree_addr, h), Shift(idx, h) + Shift(idx_offset, h))

\* Where the nodes that end at leaf idx end: below the first left child.
Top(idx, tree_height) ==
    Min({h \in 0..tree_height :
            h = tree_height \/ (Bit(idx, h) = 0 /\ idx < TwoTo(tree_height) - 1)})

\* Fault: the nodes on the path itself, not those beside it.
OnPathOwn(idx, leaf_idx, h) == Shift(idx, h) = Shift(leaf_idx, h)

\* (internal_idx ^ internal_leaf) == 1: the node beside the path of leaf_idx.
OnPath(idx, leaf_idx, h) ==
    /\ Shift(idx, h + 1) = Shift(leaf_idx, h + 1)
    /\ Bit(idx, h) # Bit(leaf_idx, h)

\* treehashx1: root, authentication path, and tree_addr as it is left behind;
\* leaves is what gen_leaf computes for every index.
treehashx1(leaf_idx, idx_offset, tree_height, leaves, tree_addr) ==
    LET AddLeaf(s, idx) ==
            LET top == Top(idx, tree_height)
                current[h \in 0..tree_height] ==
                    IF h = 0 THEN leaves[idx + idx_offset]
                    ELSE thash(<<s.stack[h - 1], current[h - 1]>>,
                               NodeAddr(tree_addr, h, idx, idx_offset))
            IN  [stack |-> [s.stack EXCEPT ![top] = current[top]],
                 auth  |-> [h \in DOMAIN s.auth |->
                               IF h <= top /\ OnPath(idx, leaf_idx, h) THEN current[h] ELSE s.auth[h]]]
        Start == [stack |-> [h \in 0..tree_height |-> <<>>], auth |-> [h \in 0..(tree_height - 1) |-> <<>>]]
        after[n \in 0..TwoTo(tree_height)] == IF n = 0 THEN Start ELSE AddLeaf(after[n - 1], n - 1)
        End == after[TwoTo(tree_height)]
    IN  [root |-> End.stack[tree_height], auth |-> End.auth,
         addr |-> NodeAddr(tree_addr, tree_height, 0, idx_offset)]

\* The two inputs of a hash: a right child comes second.
Siblings(node, beside, right) == IF right THEN <<beside, node>> ELSE <<node, beside>>

\* compute_root.
compute_root(leaf, leaf_idx, idx_offset, auth_path, tree_height, addr) ==
    LET node[h \in 0..tree_height] ==
            IF h = 0 THEN leaf
            ELSE thash(Siblings(node[h - 1], auth_path[h - 1], Bit(leaf_idx, h - 1) = 1),
                       NodeAddr(addr, h, leaf_idx, idx_offset))
    IN  [root |-> node[tree_height], addr |-> NodeAddr(addr, tree_height, leaf_idx, idx_offset)]

\* What both must agree with: the node at a height and index of the whole tree.
TreeNode(height, index, idx_offset, leaves, tree_addr) ==
    LET level[h \in 0..height] ==
            [j \in Nat |->
                IF h = 0 THEN leaves[j + idx_offset]
                ELSE thash(<<level[h - 1][2 * j], level[h - 1][2 * j + 1]>>,
                           set_tree_index(set_tree_height(tree_addr, h), j + Shift(idx_offset, h)))]
    IN  level[height][index]
==============================================================================
