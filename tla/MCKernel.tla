------------------------------ MODULE MCKernel ------------------------------
(* No driver, the one driver of the repository, and more drivers than slots; *)
(* sections that end on, before and behind word boundaries.                  *)
EXTENDS Kernel

CONSTANTS c1, c2, c3

MCDeviceLists == {<<>>, <<c1>>, <<c1, c2>>, <<c1, c2, c3>>}
=============================================================================
