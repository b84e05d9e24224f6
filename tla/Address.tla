------------------------------- MODULE Address -------------------------------
(***************************************************************************)
(* Hash addresses (TSS/src/signature/address.c): byte arrays whose fields  *)
(* overlap (TSS/include, SM3_offsets.h). Byte 17 is the number of a WOTS   *)
(* chain or the height of a tree node, bytes 18 to 21 are the index of a   *)
(* tree node, of which byte 21 is also the position in a WOTS chain.       *)
(***************************************************************************)
EXTENDS Integers

CONSTANT Byte       \* how many values a byte has: 256 in the code

ASSUME ByteAssumption == Byte \in Nat /\ Byte > 1

Types == {"WOTS", "WOTSPK", "HASHTREE", "FORSTREE", "FORSPK", "WOTSPRF", "FORSPRF"}

\* {0}; type 0 is SPX_ADDR_TYPE_WOTS.
ZeroAddr ==
    [layer |-> 0, tree |-> 0, type |-> "WOTS", keypair |-> 0, b17 |-> 0, b18to20 |-> 0, b21 |-> 0]

set_layer_addr(addr, layer) == [addr EXCEPT !.layer = layer % Byte]
set_tree_addr(addr, tree) == [addr EXCEPT !.tree = tree]
set_type(addr, type) == [addr EXCEPT !.type = type]
set_keypair_addr(addr, keypair) == [addr EXCEPT !.keypair = keypair]
set_chain_addr(addr, chain) == [addr EXCEPT !.b17 = chain % Byte]
set_hash_addr(addr, hash) == [addr EXCEPT !.b21 = hash % Byte]
set_tree_height(addr, height) == [addr EXCEPT !.b17 = height % Byte]
set_tree_index(addr, index) == [addr EXCEPT !.b18to20 = index \div Byte, !.b21 = index % Byte]

\* Layer and tree; layer, tree and key pair. The rest of out stays what it was.
copy_subtree_addr(out, in) == [out EXCEPT !.layer = in.layer, !.tree = in.tree]
copy_keypair_addr(out, in) ==
    [out EXCEPT !.layer = in.layer, !.tree = in.tree, !.keypair = in.keypair]
==============================================================================
