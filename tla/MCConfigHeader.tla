--------------------------- MODULE MCConfigHeader ---------------------------
(* A flag, the same flag with a value, another key with two values.        *)
EXTENDS ConfigHeader

Item(k, v) == [key |-> k, value |-> v]
MCItems == <<Item("DRAM_BASE", "0"), Item("DRAM_BASE", "8"), Item("KERNEL_VM", ""), Item("KERNEL_VM", "0")>>

\* Missing, doubled, reordered and conflicting settings.
MCConfigs == {<<>>, <<1, 3>>, <<3, 1, 3>>, <<2>>, <<2, 3, 1>>, <<4, 3, 2>>}
=============================================================================
