----------------------------- MODULE MCMachine ------------------------------
(* Instances of Machine for TLC.                                           *)
EXTENDS Machine

(* Modules of up to two bytes: together with their sizes they cover the    *)
(* bss, begin before it, and reach beyond it.                              *)
Files == {<<>>, <<21>>, <<22>>, <<21, 22>>}

KernelBytes == <<11, 12, 13>>
Addresses == <<12, 14>>
ShippedFiles == <<<<21>>, <<>>>>

=============================================================================
