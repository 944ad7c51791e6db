------------------------------- MODULE Kernel -------------------------------
(***************************************************************************)
(* The life of the kernel: entry.S clears the BSS, start.c sets the memory *)
(* manager up and calls main, main.c runs the device initialisers and then *)
(* the finalisers, start.c panics because main returned, panic.c reports   *)
(* through debug output, halt.c waits for ever.                            *)
(*                                                                         *)
(* Composes the console registry (its variables are the registry's) and    *)
(* the initialisation of the memory manager.  The static variables of both *)
(* are in the BSS: they hold the value of Init from the moment it is       *)
(* cleared, and nothing may use them before.                               *)
(***************************************************************************)
EXTENDS Integers, Sequences

CONSTANTS
    Consoles, NULL, MAX_CONSOLES,   \* see Console
    WORD, PAGE_SIZE,                \* see Pmm
    DeviceLists,   \* the drivers the linker may have found, in link order
    Xlens,         \* XLEN / 8
    DataEnds,      \* where the .sdata section may end
    BssSizes       \* how much .sbss and .bss may take together

ASSUME KernelAssumption ==
    /\ NULL \notin Consoles /\ MAX_CONSOLES \in Nat \ {0}
    /\ DeviceLists \subseteq Seq(Consoles)
    /\ \A l \in DeviceLists : \A i, j \in DOMAIN l : l[i] = l[j] => i = j
    /\ Xlens \subseteq {4, 8}
    /\ DataEnds \subseteq Nat \ {0} /\ BssSizes \subseteq Nat
    /\ WORD \in Nat /\ PAGE_SIZE \in Nat \ {0, 1} /\ WORD % PAGE_SIZE = 0

VARIABLES
    layout,     \* what the linker decided: xlen, __bss_start, __bss_end, devices
    pc,
    t0,         \* the register that walks through the BSS
    cleared,    \* the addresses the loop has stored zero to
    func,       \* how many of the running loop's function pointers are done
    printed,    \* the messages passed to dprintf
    consoles, console_count, active_console, activations, call,
    pmm, pmm_start, pmm_next   \* off or on, _start, _next

registry == <<consoles, console_count, active_console, activations, call>>
memory == <<pmm, pmm_start, pmm_next>>
vars == <<layout, pc, t0, cleared, func, printed, registry, memory>>

Registry == INSTANCE Console
Memory == INSTANCE Pmm WITH
    Ends <- 1 .. WORD - PAGE_SIZE, MaxCount <- 0, MaxPages <- 0,
    end <- layout.bss_end, start <- pmm_start, next <- pmm_next, state <- pmm,
    handed <- <<>>, freed <- {}, answer <- 0

\* A plausible mistake: addresses stay where the sections end.
NotAligned(x, a) == x

Align(x, a) == ((x + a - 1) \div a) * a

\* The end of the kernel, where the memory manager starts, is __bss_end.
Link(xlen, dataEnd, size, devices) ==
    LET start == Align(dataEnd, xlen)
    IN [xlen |-> xlen, bss_start |-> start, bss_end |-> Align(start + size, xlen),
        devices |-> devices]

\* The kernel leaves at least a page of the address space.
ASSUME KernelFits ==
    \A xlen \in Xlens, e \in DataEnds, size \in BssSizes :
        Align(Align(e, xlen) + size, xlen) <= WORD - PAGE_SIZE

Bss == layout.bss_start .. layout.bss_end - 1

Init ==
    /\ \E xlen \in Xlens, e \in DataEnds, size \in BssSizes, l \in DeviceLists :
        layout = Link(xlen, e, size, l)
    /\ pc = "entry"
    /\ t0 = layout.bss_start
    /\ cleared = {}
    /\ func = 0
    /\ printed = <<>>
    /\ Registry!Init
    /\ pmm = "off" /\ pmm_start = 0 /\ pmm_next = 0

-----------------------------------------------------------------------------
\* _entry: the stack pointer is set, then the first test of the loop.
Entry ==
    /\ pc = "entry"
    /\ pc' = IF t0 >= layout.bss_end THEN "start" ELSE "clear"
    /\ UNCHANGED <<layout, t0, cleared, func, printed, registry, memory>>

\* A plausible mistake: the loop stops one word early.
ClearOneWordShort ==
    /\ pc = "clear"
    /\ cleared' = cleared \cup t0 .. t0 + layout.xlen - 1
    /\ t0' = t0 + layout.xlen
    /\ pc' = IF t0' + layout.xlen < layout.bss_end THEN "clear" ELSE "start"
    /\ UNCHANGED <<layout, func, printed, registry, memory>>

\* One round: store XLEN zero bits, step, test again.
Clear ==
    /\ pc = "clear"
    /\ cleared' = cleared \cup t0 .. t0 + layout.xlen - 1
    /\ t0' = t0 + layout.xlen
    /\ pc' = IF t0' < layout.bss_end THEN "clear" ELSE "start"
    /\ UNCHANGED <<layout, func, printed, registry, memory>>

-----------------------------------------------------------------------------
Say(from, message, to) ==
    /\ pc = from /\ pc' = to
    /\ printed' = Append(printed, message)
    /\ UNCHANGED <<layout, t0, cleared, func, registry, memory>>

\* A plausible mistake: the memory manager is left for later.
StartWithoutMemory == Say("start", "starting", "main")

\* initialize_debug does nothing.
Start == Say("start", "starting", "pmm")

StartMemory ==
    /\ pc = "pmm" /\ pc' = "main"
    /\ UNCHANGED <<layout, t0, cleared, func, printed, registry>>
    /\ Memory!InitializePmm

EnterMain == Say("main", "entered", "initialize")

Device == layout.devices[func + 1]

\* The initialiser of a driver registers its console and ignores the answer:
\* with all slots taken the console stays out.
InitializeDevice ==
    /\ pc = "initialize" /\ func < Len(layout.devices)
    /\ Registry!RegisterConsole(Device)
    /\ func' = func + 1
    /\ UNCHANGED <<layout, pc, t0, cleared, printed, memory>>

InitializedAll ==
    /\ pc = "initialize" /\ func = Len(layout.devices)
    /\ pc' = "finalize" /\ func' = 0
    /\ UNCHANGED <<layout, t0, cleared, printed, registry, memory>>

\* A plausible mistake: a finaliser switches the console off and leaves it
\* registered.
FinalizeSwitchingOff ==
    /\ pc = "finalize" /\ func < Len(layout.devices)
    /\ Registry!DeactivateConsole
    /\ func' = func + 1
    /\ UNCHANGED <<layout, pc, t0, cleared, printed, memory>>

\* The finaliser takes it back, in the same order; a console that stayed out
\* is refused.
FinalizeDevice ==
    /\ pc = "finalize" /\ func < Len(layout.devices)
    /\ Registry!DeregisterConsole(Device)
    /\ func' = func + 1
    /\ UNCHANGED <<layout, pc, t0, cleared, printed, memory>>

\* main returns 0, and _start panics.
FinalizedAll ==
    /\ pc = "finalize" /\ func = Len(layout.devices)
    /\ pc' = "panic"
    /\ UNCHANGED <<layout, t0, cleared, func, printed, registry, memory>>

\* A plausible mistake: panic sends its reason to the console.
VpanicToConsole ==
    IF active_console # NULL
    THEN Say("reason", "Reason:", "message")
    ELSE /\ pc = "reason" /\ pc' = "message"
         /\ UNCHANGED <<layout, t0, cleared, func, printed, registry, memory>>

VpanicHeading == Say("panic", "PANIC", "reason")
VpanicReason == Say("reason", "Reason:", "message")
VpanicMessage == Say("message", "main_returned", "halt")

\* halt: wfi in an endless loop; neither vpanic nor panic nor _start goes on.
Halt ==
    /\ pc = "halt"
    /\ UNCHANGED vars

Next ==
    \/ Entry \/ Clear \/ Start \/ StartMemory \/ EnterMain
    \/ InitializeDevice \/ InitializedAll \/ FinalizeDevice \/ FinalizedAll
    \/ VpanicHeading \/ VpanicReason \/ VpanicMessage \/ Halt

Spec == Init /\ [][Next]_vars

\* The hart runs.
FairSpec == Spec /\ WF_vars(Next)

-----------------------------------------------------------------------------
\* What the kernel has to say, by its first word.
Messages == {"starting", "entered", "PANIC", "Reason:", "main_returned"}

TypeOK ==
    /\ \E xlen \in Xlens, e \in DataEnds, size \in BssSizes, l \in DeviceLists :
        layout = Link(xlen, e, size, l)
    /\ pc \in {"entry", "clear", "start", "pmm", "main", "initialize", "finalize",
               "panic", "reason", "message", "halt"}
    /\ t0 \in layout.bss_start .. layout.bss_end
    /\ cleared \subseteq Nat
    /\ func \in 0 .. Len(layout.devices)
    /\ printed \in Seq(Messages)
    /\ Registry!TypeOK
    /\ pmm \in {"off", "on"} /\ pmm_start \in Nat /\ pmm_next \in Nat

\* Wherever the linker puts the sections, the loop never stores a byte outside
\* the BSS, and neither the registry nor the memory manager has touched its
\* static state while a byte of it may still hold junk, or be cleared later.
ClearsExactlyTheBss ==
    /\ cleared \subseteq Bss
    /\ cleared # Bss =>
        pmm = "off" /\ pmm_next = 0 /\ console_count = 0 /\ active_console = NULL

\* The memory manager is on before a driver may ask for pages.  It starts past
\* the last byte of the kernel, its stack and static state included, and past
\* the last byte that the loop has cleared.
MemoryBeforeDevices ==
    pc \notin {"entry", "clear", "start", "pmm"} =>
        /\ pmm = "on"
        /\ pmm_start >= layout.bss_end /\ pmm_start % PAGE_SIZE = 0
        /\ \A a \in cleared : a < pmm_start

DevicesUpTo(k) == {layout.devices[i] : i \in 1 .. k}

DevicesAreRegistered ==
    Registry!Registered =
        LET all == Len(layout.devices)
            slots == IF all < MAX_CONSOLES THEN all ELSE MAX_CONSOLES
        IN CASE pc = "initialize" -> DevicesUpTo(IF func < slots THEN func ELSE slots)
             [] pc = "finalize"   -> DevicesUpTo(slots) \ DevicesUpTo(func)
             [] OTHER             -> {}

OutputEndsWithFirstFinaliser ==
    active_console =
        IF \/ pc = "initialize" /\ func > 0
           \/ pc = "finalize" /\ func = 0 /\ layout.devices # <<>>
        THEN layout.devices[1] ELSE NULL

\* As many drivers as there are slots get in, in link order, whatever the rest
\* does; finalisers take out their own console and no other.  The first one's
\* console serves output until the first finaliser runs; from then on, and in
\* any panic, printf has no console, although others may still be registered.
DevicesComeAndGo == DevicesAreRegistered /\ OutputEndsWithFirstFinaliser

\* The kernel always ends in the halt loop and stays there, and has reported
\* the panic in full, with no console left to report it to.
EndsInHalt ==
    <>[](/\ pc = "halt"
         /\ printed = <<"starting", "entered", "PANIC", "Reason:", "main_returned">>)
=============================================================================
