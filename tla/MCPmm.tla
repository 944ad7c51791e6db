------------------------------- MODULE MCPmm -------------------------------
(* An address space of eight pages, so that the cursor wraps around; the   *)
(* kernel may end on a page boundary or anywhere else.                     *)
EXTENDS Pmm, TLC
=============================================================================
