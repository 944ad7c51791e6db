--------------------------- MODULE MCModuleGraph ---------------------------
(* The repository's own makefiles, with and without the emulator; a chain of *)
(* nested modules and submodules; every small graph of three modules, with   *)
(* its circles.                                                              *)
EXTENDS ModuleGraph

Generate(m) == [op |-> "generate", arg |-> m]
Queue(m) == [op |-> "want", arg |-> m]
Submodule(s) == [op |-> "part", arg |-> s]
NoSubmodules == [op |-> "noparts", arg |-> NONE]
Assign == [op |-> "set", arg |-> NONE]

core == <<"product", "core">>
qemuBoard == <<"board", "qemu-virt-riscv">>
qemuPlatform == <<"platform", "qemu-virt-riscv">>
riscv == <<"arch", "riscv">>
ns16550a == <<"device", "ns16550a">>
lib == <<"lib">>

\* product, board, platform, arch, emulator, kernel/module.mk and the ones in
\* their directories.
Gros(emulated) ==
    [root |-> product,
     order |-> <<arch, riscv, board, qemuBoard, ns16550a, emulator, kernel, lib,
                 platform, qemuPlatform, product, core>>,
     files |-> [m \in {product, core, board, qemuBoard, platform, qemuPlatform, arch,
                       riscv, emulator, kernel} |->
        CASE m = product      -> <<Generate(core), Queue(board)>>
          [] m = board        -> <<Generate(qemuBoard), Queue(platform)>>
          [] m = platform     -> <<Assign, Generate(qemuPlatform), Assign, Queue(arch)>>
          [] m = qemuPlatform -> <<Assign>> \o IF emulated THEN <<Queue(emulator)>> ELSE <<>>
          [] m = arch         -> <<Generate(riscv), Queue(kernel)>>
          [] m = emulator     -> <<Generate(kernel), Assign>>
          [] m = kernel       -> <<Generate(product), Assign, NoSubmodules,
                                   Submodule(ns16550a), Submodule(riscv), Submodule(lib)>>
          [] OTHER            -> <<Assign>>],
     parts |-> [q \in {kernel \o ns16550a, kernel \o riscv, kernel \o lib} |-> <<Assign>>]]

a == <<"a">>
b == <<"b">>
c == <<"c">>
d == <<"d">>
x == <<"x">>
y == <<"y">>
z == <<"z">>

\* Modules nested four deep, each with submodules nested three deep, and one of
\* those wanted a second time from above.
Chain ==
    [root |-> a, order |-> <<a, b, c, d, x, x \o y, y, z>>,
     files |-> [m \in {a, b, c, d} |->
        (CASE m = a -> <<Generate(b), Assign>> [] m = b -> <<Generate(c), Generate(c)>>
           [] m = c -> <<Generate(d), Queue(a)>> [] m = d -> <<Assign>>)
        \o <<Submodule(x \o y), Submodule(x), Submodule(y), Submodule(x), Assign>>],
     parts |-> [q \in UNION {{m \o x, m \o y, m \o x \o y, m \o x \o y \o z} :
                              m \in {a, b, c, d}} |->
        <<Assign>> \o IF Len(q) = 2 /\ q[2] = "x" THEN <<Submodule(y)>>
                      ELSE IF Len(q) = 3 THEN <<Submodule(z), Assign>> ELSE <<>>]]

Small == {a, b, c}
Bodies == {<<>>} \cup {<<Generate(m)>> : m \in Small}
          \cup {<<Generate(l), Generate(m)>> : l \in Small, m \in Small}

MCProjects ==
    {Gros(TRUE), Gros(FALSE), Chain}
    \cup {[root |-> a, order |-> <<a, b, c>>, parts |-> <<>>,
           files |-> [m \in Small |-> f[m] \o IF m = w THEN <<Queue(c), Queue(b)>> ELSE <<>>]] :
          f \in [Small -> Bodies], w \in Small}
=============================================================================
