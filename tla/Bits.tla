--------------------------------- MODULE Bits --------------------------------
(***************************************************************************)
(* Numbers shifted to the right and powers of two, as loops that halve and *)
(* double.                                                                 *)
(***************************************************************************)
EXTENDS Integers

\* x >> h, and the bit of x at position h.
Shift(x, h) ==
    LET half[k \in 0..h] == IF k = 0 THEN x ELSE half[k - 1] \div 2
    IN  half[h]
Bit(x, h) == Shift(x, h) % 2

\* 1 << n.
TwoTo(n) ==
    LET power[k \in 0..n] == IF k = 0 THEN 1 ELSE 2 * power[k - 1]
    IN  power[n]
==============================================================================
