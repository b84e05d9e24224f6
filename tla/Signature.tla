------------------------------ MODULE Signature ------------------------------
(***************************************************************************)
(* A signature as a whole: the message's digest, the FORS signature of its *)
(* bits, and the hypertree's signature of the FORS key, each made of what  *)
(* the part before has computed; and its verification, which computes a    *)
(* root from it and compares (TSS/src/signature/TSS_sign.c and             *)
(* ref/src/signature/sign.c).                                              *)
(* The phases: "hash", "fors" (one tree at a time), "start" and "sign" for *)
(* each signer, "ttp"; then "forsPk", "verify" and "done".                 *)
(***************************************************************************)
EXTENDS Fors, Hypertree

vars == <<input, phase, forsVars, hypertreeVars>>

Init ==
    /\ input \in Inputs /\ phase = "hash"
    /\ ForsInit /\ HypertreeInit

Hash == HashMessage /\ UNCHANGED <<forsVars, hypertreeVars>>

\* The FORS key is the first value that the hypertree signs.
SignFors ==
    \/ SignTree /\ UNCHANGED hypertreeVars
    \/ SignEnd /\ roots' = <<Signed(pk', 1)>> /\ UNCHANGED <<index, c, pos, sig, root>>

SignHypertree ==
    /\ FindAddress \/ SignLayer \/ PassRoot \/ SignTop \/ SignLayerAlone \/ EndAlone
    /\ UNCHANGED forsVars

\* The FORS key from the signature is the first root.
VerifyFors ==
    \/ VerifyTree /\ UNCHANGED hypertreeVars
    \/ VerifyEnd /\ root' = pkFromSig' /\ UNCHANGED <<index, c, pos, roots, sig>>

VerifyHypertree == (VerifyLayer \/ Compare) /\ UNCHANGED forsVars

Done == phase = "done" /\ UNCHANGED vars

Next == Hash \/ SignFors \/ SignHypertree \/ VerifyFors \/ VerifyHypertree \/ Done

Spec == Init /\ [][Next]_vars
==============================================================================
