--------------------------- MODULE MCRiscvConfig ---------------------------
(* Every specification of up to four symbols, what the script prints for    *)
(* every set of extensions, and every ABI and MMU with a few of them.       *)
EXTENDS RiscvConfig

Short == UNION {[1 .. k -> Symbols] : k \in 0 .. 4}
Printed == {Format({"I"} \cup s) : s \in SUBSET Ext} \cup {Format(s) : s \in SUBSET Ext}
Few == {<<"I">>, <<"I", "M", "Zicsr">>, <<"I", "F">>, <<"G", "C">>, <<"I", "X">>}

MCInputs ==
    [xlen : {64}, exts : Short \cup Printed, abi : {"lp64"}, mmu : {"bare"}]
    \cup [xlen : {32, 64, 128}, exts : Few,
          abi : {"ilp32", "ilp32f", "ilp32d", "lp64", "lp64f", "lp64d", "other"},
          mmu : {"bare", "sv32", "sv39", "sv48", "other"}]
=============================================================================
