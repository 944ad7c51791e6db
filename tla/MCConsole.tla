----------------------------- MODULE MCConsole -----------------------------
(* A registry of MAX_CONSOLES slots and fewer consoles than slots, so that *)
(* consoles come back and the slots run out.                               *)
EXTENDS Console, TLC

Symmetry == Permutations(Consoles)
=============================================================================
