------------------------- MODULE MCStringFunctions -------------------------
(* Every content of a small memory, every object in it, every call.        *)
EXTENDS StringFunctions

\* A byte, the int that becomes 0 as a byte, and a negative one.
MCFills == {1, 256, -1}
=============================================================================
