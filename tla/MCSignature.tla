----------------------------- MODULE MCSignature -----------------------------
(* Three FORS trees of eight leaves, with indices of a byte and a half; four  *)
(* layers of trees with four leaves, roots of one byte, digits of two bits.   *)
(* The hashes have the parameters of all six parameter sets.                 *)
EXTENDS Signature

Parameters(n, fullHeight, d, forsHeight, forsTrees) ==
    [n |-> n, fullHeight |-> fullHeight, d |-> d, forsHeight |-> forsHeight, forsTrees |-> forsTrees]

Fast == {Parameters(16, 66, 22, 6, 33), Parameters(24, 66, 22, 8, 33), Parameters(32, 68, 17, 9, 35)}
Small == {Parameters(16, 63, 7, 12, 14), Parameters(24, 63, 7, 14, 17), Parameters(32, 64, 8, 14, 22)}

\* Lengths of messages that with some prefix end at, or beside, the end of a
\* block or of the room for data in the last one.
Lengths ==
    {l \in 0..130 : \E n \in {16, 24, 32}, e \in {0, 1, 55, 56, 63} : (n + l) % 64 = e \/ (3 * n + l) % 64 = e}

Case(p, mlen, t, tree, leaf, a, b, c3, bytes) ==
    [p |-> p, mlen |-> mlen, t |-> t, tree |-> tree, leaf |-> leaf, bytes |-> bytes,
     bits |-> [k \in 0..8 |-> Bit(<<a, b, c3>>[(k \div 3) + 1], k % 3)]]

OnePair == {<<<<27>>, <<240>>, <<0>>, <<255>>>>}
Pairs == OnePair \cup {<<<<240>>, <<27>>, <<27>>, <<240>>>>, <<<<1>>, <<2>>, <<128>>, <<64>>>>}

\* What is hashed; the bits that FORS signs; what the digest selects in the
\* hypertree, trees with different digits on all the layers, and who signs.
MCInputs ==
    {Case(p, l, 1, 6, 1, 5, 2, 7, bytes) : p \in Fast, l \in Lengths, bytes \in OnePair}
    \cup {Case(p, l, 1, 6, 1, 5, 2, 7, bytes) : p \in Small, l \in {0, 64}, bytes \in OnePair}
    \cup {Case(p, 1, 0, 6, 3, a, b, (a + 3 * b) % 8, bytes) :
              p \in {Parameters(16, 66, 22, 6, 33)}, a \in 0..7, b \in 0..7, bytes \in OnePair}
    \cup {Case(p, 1, t, tree, leaf, 4, 1, 6, bytes) :
              p \in {Parameters(16, 66, 22, 6, 33)}, t \in 0..3, tree \in {6, 27, 57}, leaf \in 0..3, bytes \in Pairs}
==============================================================================
