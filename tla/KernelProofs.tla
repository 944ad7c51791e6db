---------------------------- MODULE KernelProofs ----------------------------
(***************************************************************************)
(* Theorems about the life of the kernel, for every layout the linker      *)
(* script yields, every list of drivers, every page size and any number of *)
(* console slots.  What is proved of the registry and the memory manager   *)
(* for calls in any order is used for the calls the kernel makes.          *)
(***************************************************************************)
EXTENDS Kernel, TLAPS

RegistryProofs == INSTANCE ConsoleProofs
MemoryProofs == INSTANCE PmmProofs WITH
    Ends <- 1 .. WORD - PAGE_SIZE, MaxCount <- 0, MaxPages <- 0,
    end <- layout.bss_end, start <- pmm_start, next <- pmm_next, state <- pmm,
    handed <- <<>>, freed <- {}, answer <- 0

\* The assumptions of both are met.
LEMMA ComponentsAssumed ==
    RegistryProofs!ConsoleAssumption /\ MemoryProofs!PmmAssumption
BY KernelAssumption DEF RegistryProofs!ConsoleAssumption, MemoryProofs!PmmAssumption

(***************************************************************************)
(* The inductive invariant.  The loop of entry.S tests t0 >= __bss_end, so *)
(* that it ends at __bss_end and not behind it rests on the alignment of   *)
(* both symbols: the distance stays a multiple of the step.  The rest says *)
(* which static state may have been touched at which point of the program. *)
(***************************************************************************)
Linked ==
    \E xlen \in Xlens, e \in DataEnds, size \in BssSizes, l \in DeviceLists :
        layout = Link(xlen, e, size, l)

Stepping ==
    /\ t0 \in layout.bss_start .. layout.bss_end
    /\ (layout.bss_end - t0) % layout.xlen = 0
    /\ cleared = layout.bss_start .. t0 - 1
    /\ pc = "clear" => t0 < layout.bss_end
    /\ pc \notin {"entry", "clear"} => t0 = layout.bss_end

Untouched ==
    /\ pc \in {"entry", "clear"} => console_count = 0 /\ active_console = NULL
    /\ pc \in {"start", "pmm", "main"} => console_count = 0 /\ active_console = NULL
    /\ pc \in {"entry", "clear", "start", "pmm"} => pmm = "off" /\ pmm_next = 0

MemoryIsOn ==
    pc \notin {"entry", "clear", "start", "pmm"} =>
        pmm = "on" /\ pmm_start = Memory!RoundPageUp(layout.bss_end)

IInv == Linked /\ Stepping /\ Untouched /\ MemoryIsOn

-----------------------------------------------------------------------------
\* Both ends of the BSS are aligned to the step of the loop.
LEMMA AlignedEnds ==
    ASSUME NEW a \in {4, 8}, NEW x \in Nat
    PROVE  /\ Align(x, a) \in Nat /\ Align(x, a) >= x /\ Align(x, a) % a = 0
<1>1. CASE a = 4
  BY <1>1 DEF Align
<1>2. CASE a = 8
  BY <1>2 DEF Align
<1> QED BY <1>1, <1>2

LEMMA LayoutFacts ==
    ASSUME Linked
    PROVE  /\ layout.xlen \in {4, 8}
           /\ layout.bss_start \in Nat \ {0} /\ layout.bss_end \in Nat
           /\ layout.bss_start <= layout.bss_end
           /\ (layout.bss_end - layout.bss_start) % layout.xlen = 0
           /\ layout.bss_end <= WORD - PAGE_SIZE
<1>1. PICK xlen \in Xlens, e \in DataEnds, size \in BssSizes, l \in DeviceLists :
        layout = Link(xlen, e, size, l)
  BY DEF Linked
<1> DEFINE s == Align(e, xlen)
           t == Align(s + size, xlen)
<1>2. xlen \in {4, 8} /\ e \in Nat \ {0} /\ size \in Nat
  BY KernelAssumption
<1>3. layout.xlen = xlen /\ layout.bss_start = s /\ layout.bss_end = t
  BY <1>1 DEF Link
<1>4. s \in Nat /\ s >= e /\ s % xlen = 0
  BY <1>2, AlignedEnds
<1>5. t \in Nat /\ t >= s + size /\ t % xlen = 0
  <2> HIDE DEF s
  <2>1. s + size \in Nat
    BY <1>2, <1>4
  <2> QED BY <1>2, <2>1, AlignedEnds
<1>6. t <= WORD - PAGE_SIZE
  BY KernelFits
<1> HIDE DEF s, t
<1>7. (t - s) % xlen = 0
  BY <1>2, <1>4, <1>5
<1> QED BY <1>2, <1>3, <1>4, <1>5, <1>6, <1>7

LEMMA StepFits ==
    ASSUME NEW a \in {4, 8}, NEW x \in Int, NEW y \in Int, x < y, (y - x) % a = 0
    PROVE  x + a <= y /\ (y - (x + a)) % a = 0
<1>1. CASE a = 4
  BY <1>1
<1>2. CASE a = 8
  BY <1>2
<1> QED BY <1>1, <1>2

LEMMA InitIInv == Init => IInv
<1> SUFFICES ASSUME Init PROVE IInv
  OBVIOUS
<1>1. Linked
  BY DEF Init, Linked
<1>2. Stepping
  BY <1>1, LayoutFacts DEF Init, Stepping
<1>3. console_count = 0 /\ active_console = NULL
  BY DEF Init, Registry!Init
<1> QED BY <1>1, <1>2, <1>3 DEF Init, IInv, Untouched, MemoryIsOn

-----------------------------------------------------------------------------
LEMMA EntryKeeps == IInv /\ Entry => IInv'
BY LayoutFacts DEF IInv, Entry, Linked, Stepping, Untouched, MemoryIsOn,
    registry, memory, Memory!RoundPageUp, Memory!RoundPageDown

LEMMA ClearKeeps == IInv /\ Clear => IInv'
<1> SUFFICES ASSUME IInv, Clear PROVE IInv'
  OBVIOUS
<1>1. /\ pc = "clear" /\ layout' = layout /\ t0' = t0 + layout.xlen
      /\ cleared' = cleared \cup t0 .. t0 + layout.xlen - 1
      /\ pc' = IF t0' < layout.bss_end THEN "clear" ELSE "start"
      /\ console_count' = console_count /\ active_console' = active_console
      /\ pmm' = pmm /\ pmm_next' = pmm_next
  BY DEF Clear, registry, memory
<1>2. /\ t0 \in Nat /\ t0 < layout.bss_end /\ t0 >= layout.bss_start
      /\ (layout.bss_end - t0) % layout.xlen = 0
      /\ cleared = layout.bss_start .. t0 - 1
      /\ layout.xlen \in {4, 8} /\ layout.bss_start \in Nat /\ layout.bss_end \in Nat
  BY <1>1, LayoutFacts DEF IInv, Stepping
<1>3. /\ t0' <= layout.bss_end /\ (layout.bss_end - t0') % layout.xlen = 0
  <2>1. t0 \in Int /\ layout.bss_end \in Int
    BY <1>2
  <2>2. /\ t0 + layout.xlen <= layout.bss_end
        /\ (layout.bss_end - (t0 + layout.xlen)) % layout.xlen = 0
    BY <1>2, <2>1, StepFits
  <2> QED BY <1>1, <2>2
<1>4. cleared' = layout.bss_start .. t0' - 1
  BY <1>1, <1>2
<1>5. Stepping'
  BY <1>1, <1>2, <1>3, <1>4 DEF Stepping
<1>6. Linked'
  BY <1>1 DEF IInv, Linked
<1> QED BY <1>1, <1>5, <1>6 DEF IInv, Untouched, MemoryIsOn

\* A step behind the loop leaves layout, t0 and cleared alone; what it may do
\* to the registry and the memory manager depends on where it is.
LEMMA LaterKeeps ==
    ASSUME IInv, layout' = layout, t0' = t0, cleared' = cleared,
           pc \notin {"entry", "clear"}, pc' \notin {"entry", "clear"},
           pc' \in {"start", "pmm", "main"} =>
                console_count' = 0 /\ active_console' = NULL,
           pc' \in {"start", "pmm"} => pmm' = "off" /\ pmm_next' = 0,
           pc' \notin {"start", "pmm"} =>
                pmm' = "on" /\ pmm_start' = Memory!RoundPageUp(layout.bss_end)
    PROVE  IInv'
<1>1. Linked'
  BY DEF IInv, Linked
<1>2. Stepping'
  BY DEF IInv, Stepping
<1>3. Untouched'
  BY DEF Untouched
<1>4. MemoryIsOn'
  BY DEF MemoryIsOn, Memory!RoundPageUp, Memory!RoundPageDown
<1> QED BY <1>1, <1>2, <1>3, <1>4 DEF IInv

LEMMA StartKeeps ==
    IInv /\ (Start \/ EnterMain \/ VpanicHeading \/ VpanicReason \/ VpanicMessage)
        => IInv'
<1> SUFFICES ASSUME IInv, \/ Start \/ EnterMain \/ VpanicHeading
                          \/ VpanicReason \/ VpanicMessage
             PROVE  IInv'
  OBVIOUS
<1>1. /\ layout' = layout /\ t0' = t0 /\ cleared' = cleared
      /\ console_count' = console_count /\ active_console' = active_console
      /\ pmm' = pmm /\ pmm_start' = pmm_start /\ pmm_next' = pmm_next
      /\ \/ pc = "start" /\ pc' = "pmm"
         \/ pc \in {"main", "panic", "reason", "message"}
            /\ pc' \in {"initialize", "reason", "message", "halt"}
  BY DEF Start, EnterMain, VpanicHeading, VpanicReason, VpanicMessage, Say,
         registry, memory
<1> QED BY <1>1, LaterKeeps DEF IInv, Untouched, MemoryIsOn

LEMMA StartMemoryKeeps == IInv /\ StartMemory => IInv'
<1> SUFFICES ASSUME IInv, StartMemory PROVE IInv'
  OBVIOUS
<1>1. /\ pc = "pmm" /\ pc' = "main"
      /\ layout' = layout /\ t0' = t0 /\ cleared' = cleared
      /\ console_count' = console_count /\ active_console' = active_console
      /\ pmm' = "on" /\ pmm_start' = Memory!RoundPageUp(layout.bss_end)
  BY DEF StartMemory, registry, Memory!InitializePmm
<1> QED BY <1>1, LaterKeeps DEF IInv, Untouched

LEMMA DevicesKeep ==
    IInv /\ (InitializeDevice \/ InitializedAll \/ FinalizeDevice \/ FinalizedAll)
        => IInv'
<1> SUFFICES ASSUME IInv, \/ InitializeDevice \/ InitializedAll
                          \/ FinalizeDevice \/ FinalizedAll
             PROVE  IInv'
  OBVIOUS
<1>1. /\ layout' = layout /\ t0' = t0 /\ cleared' = cleared
      /\ pmm' = pmm /\ pmm_start' = pmm_start
      /\ pc \in {"initialize", "finalize"}
      /\ pc' \in {"initialize", "finalize", "panic"}
  BY DEF InitializeDevice, InitializedAll, FinalizeDevice, FinalizedAll, memory
<1> QED BY <1>1, LaterKeeps DEF IInv, MemoryIsOn

LEMMA StutterKeeps == IInv /\ UNCHANGED vars => IInv'
BY DEF IInv, vars, registry, memory, Linked, Stepping, Untouched, MemoryIsOn,
    Memory!RoundPageUp, Memory!RoundPageDown

LEMMA NextKeepsIInv == IInv /\ [Next]_vars => IInv'
BY EntryKeeps, ClearKeeps, StartKeeps, StartMemoryKeeps, DevicesKeep, StutterKeeps
   DEF Next, Halt

-----------------------------------------------------------------------------
LEMMA ClearsFromIInv == IInv => ClearsExactlyTheBss
<1> SUFFICES ASSUME IInv PROVE ClearsExactlyTheBss
  OBVIOUS
<1>1. /\ layout.bss_start \in Nat /\ layout.bss_end \in Nat
      /\ t0 \in layout.bss_start .. layout.bss_end
      /\ cleared = layout.bss_start .. t0 - 1
  BY LayoutFacts DEF IInv, Stepping
<1>2. cleared \subseteq Bss
  BY <1>1 DEF Bss
<1>3. ASSUME cleared # Bss PROVE pc \in {"entry", "clear"}
  BY <1>1, <1>3 DEF IInv, Stepping, Bss
<1> QED BY <1>2, <1>3 DEF ClearsExactlyTheBss, IInv, Untouched

\* The first page the memory manager has is behind the kernel.
LEMMA FirstPage ==
    ASSUME Linked
    PROVE  LET first == Memory!RoundPageUp(layout.bss_end)
           IN first \in Nat /\ first >= layout.bss_end /\ first % PAGE_SIZE = 0
<1>1. layout.bss_end \in 1 .. WORD - PAGE_SIZE
  BY LayoutFacts, KernelAssumption
<1>2. /\ MemoryProofs!RoundPageUp(layout.bss_end) \in 1 .. WORD - 1
      /\ MemoryProofs!RoundPageUp(layout.bss_end) >= layout.bss_end
      /\ MemoryProofs!RoundPageUp(layout.bss_end) % PAGE_SIZE = 0
  BY <1>1, ComponentsAssumed, MemoryProofs!RoundedUp
<1>3. MemoryProofs!RoundPageUp(layout.bss_end) = Memory!RoundPageUp(layout.bss_end)
  BY DEF MemoryProofs!RoundPageUp, MemoryProofs!RoundPageDown,
         Memory!RoundPageUp, Memory!RoundPageDown
<1> QED BY <1>2, <1>3, KernelAssumption

LEMMA MemoryFromIInv == IInv => MemoryBeforeDevices
<1> SUFFICES ASSUME IInv, pc \notin {"entry", "clear", "start", "pmm"}
             PROVE  /\ pmm = "on"
                    /\ pmm_start >= layout.bss_end /\ pmm_start % PAGE_SIZE = 0
                    /\ \A a \in cleared : a < pmm_start
  BY DEF MemoryBeforeDevices
<1>1. /\ pmm = "on" /\ pmm_start = Memory!RoundPageUp(layout.bss_end)
  BY DEF IInv, MemoryIsOn
<1>2. pmm_start \in Nat /\ pmm_start >= layout.bss_end /\ pmm_start % PAGE_SIZE = 0
  BY <1>1, FirstPage DEF IInv
<1>3. /\ layout.bss_start \in Nat /\ layout.bss_end \in Nat
      /\ t0 \in layout.bss_start .. layout.bss_end
      /\ cleared = layout.bss_start .. t0 - 1
  BY LayoutFacts DEF IInv, Stepping
<1> QED BY <1>1, <1>2, <1>3

-----------------------------------------------------------------------------
\* Whatever the linker decides, the loop of entry.S clears the BSS, all of it and
\* no byte more, before any static state is used.
THEOREM BssCleared == Spec => []ClearsExactlyTheBss
BY InitIInv, NextKeepsIInv, ClearsFromIInv, PTL DEF Spec

\* The memory manager is on before main runs the first initialiser, and starts on
\* a page boundary behind the kernel and everything the loop has cleared.
THEOREM MemoryReady == Spec => []MemoryBeforeDevices
BY InitIInv, NextKeepsIInv, MemoryFromIInv, PTL DEF Spec
-----------------------------------------------------------------------------
(***************************************************************************)
(* What the kernel does to the registry and to the memory manager are runs *)
(* of modules Console and Pmm: what is proved there holds here.            *)
(***************************************************************************)

\* The drivers own consoles, no two of them the same one.
LEMMA DeviceFacts ==
    ASSUME Linked
    PROVE  /\ layout.devices \in Seq(Consoles) /\ Len(layout.devices) \in Nat
           /\ \A i \in 1 .. Len(layout.devices) : layout.devices[i] \in Consoles
           /\ \A i, j \in 1 .. Len(layout.devices) :
                layout.devices[i] = layout.devices[j] => i = j
<1>1. layout.devices \in DeviceLists
  BY DEF Linked, Link
<1>2. layout.devices \in Seq(Consoles)
  BY <1>1, KernelAssumption
<1>3. /\ Len(layout.devices) \in Nat /\ DOMAIN layout.devices = 1 .. Len(layout.devices)
      /\ \A i \in 1 .. Len(layout.devices) : layout.devices[i] \in Consoles
  BY <1>2
<1> QED BY <1>1, <1>2, <1>3, KernelAssumption

\* Where in the list of drivers the running loop is.
FuncInRange ==
    /\ func \in 0 .. Len(layout.devices)
    /\ pc \in {"entry", "clear", "start", "pmm", "main", "initialize", "finalize",
               "panic", "reason", "message", "halt"}
    /\ printed \in Seq(Messages)
    /\ pc \in {"entry", "clear", "start", "pmm", "main"} => func = 0

LEMMA FuncInRangeNext == IInv /\ FuncInRange /\ [Next]_vars => FuncInRange'
<1> SUFFICES ASSUME IInv, FuncInRange, [Next]_vars PROVE FuncInRange'
  OBVIOUS
<1>1. Len(layout.devices) \in Nat
  BY DeviceFacts DEF IInv
<1>2. CASE Entry \/ Clear
  BY <1>2 DEF FuncInRange, Entry, Clear
<1>3. CASE Start \/ EnterMain \/ VpanicHeading \/ VpanicReason \/ VpanicMessage
  <2>1. /\ layout' = layout /\ func' = func
        /\ \/ pc = "start" /\ pc' = "pmm"
           \/ pc = "main" /\ pc' = "initialize"
           \/ pc' \in {"reason", "message", "halt"}
    BY <1>3 DEF Start, EnterMain, VpanicHeading, VpanicReason, VpanicMessage, Say
  <2>2. \E message \in Messages : printed' = Append(printed, message)
    BY <1>3 DEF Start, EnterMain, VpanicHeading, VpanicReason, VpanicMessage, Say, Messages
  <2>3. printed' \in Seq(Messages)
    BY <2>2 DEF FuncInRange
  <2> QED BY <1>3, <2>1, <2>3 DEF FuncInRange
<1>4. CASE StartMemory
  BY <1>4 DEF FuncInRange, StartMemory
<1>5. CASE InitializeDevice \/ FinalizeDevice
  BY <1>1, <1>5 DEF FuncInRange, InitializeDevice, FinalizeDevice
<1>6. CASE InitializedAll \/ FinalizedAll
  BY <1>1, <1>6 DEF FuncInRange, InitializedAll, FinalizedAll
<1>7. CASE Halt \/ UNCHANGED vars
  BY <1>7 DEF FuncInRange, Halt, vars
<1> QED BY <1>2, <1>3, <1>4, <1>5, <1>6, <1>7 DEF Next

LEMMA FuncInRangeInit == Init => FuncInRange
<1> SUFFICES ASSUME Init PROVE FuncInRange
  OBVIOUS
<1>1. Linked
  BY DEF Init, Linked
<1> QED BY <1>1, DeviceFacts DEF Init, FuncInRange

\* A step of the kernel is a call of the registry or leaves it alone.
LEMMA RegistrySteps ==
    ASSUME IInv, FuncInRange, [Next]_vars
    PROVE  \/ InitializeDevice /\ Device \in Consoles /\ Registry!RegisterConsole(Device)
           \/ FinalizeDevice /\ Device \in Consoles /\ Registry!DeregisterConsole(Device)
           \/ UNCHANGED registry
<1>1. CASE InitializeDevice \/ FinalizeDevice
  <2>1. func + 1 \in 1 .. Len(layout.devices)
    BY <1>1, DeviceFacts DEF IInv, FuncInRange, InitializeDevice, FinalizeDevice
  <2>2. Device \in Consoles
    BY <2>1, DeviceFacts DEF IInv, Device
  <2> QED BY <1>1, <2>2 DEF InitializeDevice, FinalizeDevice
<1>2. CASE \/ Entry \/ Clear \/ Start \/ StartMemory \/ EnterMain
           \/ InitializedAll \/ FinalizedAll
           \/ VpanicHeading \/ VpanicReason \/ VpanicMessage \/ Halt \/ UNCHANGED vars
  BY <1>2 DEF Entry, Clear, Start, StartMemory, EnterMain, InitializedAll, FinalizedAll,
              VpanicHeading, VpanicReason, VpanicMessage, Say, Halt, vars
<1> QED BY <1>1, <1>2 DEF Next

LEMMA RegistryStepsAreCalls ==
    ASSUME IInv, FuncInRange, [Next]_vars
    PROVE  [RegistryProofs!Next]_(RegistryProofs!vars)
<1>1. ASSUME NEW c \in Consoles, Registry!RegisterConsole(c)
      PROVE  RegistryProofs!RegisterConsole(c)
  BY <1>1 DEF Registry!RegisterConsole, RegistryProofs!RegisterConsole,
      Registry!MayRegister, RegistryProofs!MayRegister, Registry!IsRegistered,
      RegistryProofs!IsRegistered, Registry!InUse, RegistryProofs!InUse,
      Registry!SwitchOn, RegistryProofs!SwitchOn, Registry!SwitchedOff,
      RegistryProofs!SwitchedOff, Registry!Answer, RegistryProofs!Answer
<1>2. ASSUME NEW c \in Consoles, Registry!DeregisterConsole(c)
      PROVE  RegistryProofs!DeregisterConsole(c)
  BY <1>2 DEF Registry!DeregisterConsole, RegistryProofs!DeregisterConsole,
      Registry!RefuseToDeregister, RegistryProofs!RefuseToDeregister,
      Registry!IsRegistered, RegistryProofs!IsRegistered,
      Registry!InUse, RegistryProofs!InUse, Registry!Without, RegistryProofs!Without,
      Registry!AtOrPast, RegistryProofs!AtOrPast, Registry!Slots, RegistryProofs!Slots,
      Registry!SwitchOff, RegistryProofs!SwitchOff, Registry!SwitchedOff,
      RegistryProofs!SwitchedOff, Registry!Answer, RegistryProofs!Answer
<1>3. CASE Device \in Consoles /\ Registry!RegisterConsole(Device)
  BY <1>1, <1>3 DEF RegistryProofs!Next, RegistryProofs!Pointers
<1>4. CASE Device \in Consoles /\ Registry!DeregisterConsole(Device)
  BY <1>2, <1>4 DEF RegistryProofs!Next, RegistryProofs!Pointers
<1>5. CASE UNCHANGED registry
  BY <1>5 DEF registry, RegistryProofs!vars
<1> QED BY <1>3, <1>4, <1>5, RegistrySteps

\* IInv and the place in the driver list, together.
LEMMA Running == Spec => [](IInv /\ FuncInRange)
<1>1. Init => IInv /\ FuncInRange
  BY InitIInv, FuncInRangeInit
<1>2. IInv /\ FuncInRange /\ [Next]_vars => (IInv /\ FuncInRange)'
  BY NextKeepsIInv, FuncInRangeNext
<1> QED BY <1>1, <1>2, PTL DEF Spec

\* Whatever the drivers' list, the boot is a run of the registry of module
\* Console: all that its theorems say for calls in any order holds of it.
THEOREM RegistryIsRun == Spec => Registry!Spec
<1>1. Init => Registry!Init
  BY DEF Init
<1>2. IInv /\ FuncInRange /\ [Next]_vars => [Registry!Next]_(Registry!vars)
  BY RegistrySteps DEF Registry!Next, Registry!Pointers, registry, Registry!vars
<1> QED BY <1>1, <1>2, Running, PTL DEF Spec, Registry!Spec

\* So the registry's invariant holds.
LEMMA RegistrySafe == Spec => []RegistryProofs!IInv
<1>1. Init => RegistryProofs!IInv
  <2>1. Init => RegistryProofs!Init
    BY DEF Init, Registry!Init, RegistryProofs!Init, Registry!Slots, RegistryProofs!Slots
  <2> QED BY <2>1, ComponentsAssumed, RegistryProofs!InitInv
<1>2. IInv /\ FuncInRange /\ RegistryProofs!IInv /\ [Next]_vars => RegistryProofs!IInv'
  BY RegistryStepsAreCalls, ComponentsAssumed, RegistryProofs!NextInv
<1> QED BY <1>1, <1>2, Running, PTL DEF Spec


\* The memory manager is initialised, and nothing else.
LEMMA MemorySteps ==
    ASSUME [Next]_vars
    PROVE  \/ StartMemory /\ Memory!InitializePmm
           \/ /\ layout' = layout /\ pmm' = pmm
              /\ pmm_start' = pmm_start /\ pmm_next' = pmm_next
<1>1. CASE StartMemory
  BY <1>1 DEF StartMemory
<1>2. CASE \/ Entry \/ Clear \/ Start \/ EnterMain
           \/ InitializeDevice \/ InitializedAll \/ FinalizeDevice \/ FinalizedAll
           \/ VpanicHeading \/ VpanicReason \/ VpanicMessage \/ Halt \/ UNCHANGED vars
  BY <1>2 DEF Entry, Clear, Start, EnterMain, InitializeDevice, InitializedAll,
      FinalizeDevice, FinalizedAll, VpanicHeading, VpanicReason, VpanicMessage, Say,
      Halt, vars, memory
<1> QED BY <1>1, <1>2 DEF Next

LEMMA MemoryInit == Init => Memory!Init /\ MemoryProofs!Init
<1> SUFFICES ASSUME Init PROVE Memory!Init /\ MemoryProofs!Init
  OBVIOUS
<1>1. layout.bss_end \in 1 .. WORD - PAGE_SIZE
  BY LayoutFacts, InitIInv, KernelAssumption DEF IInv
<1> QED BY <1>1 DEF Init, Memory!Init, MemoryProofs!Init

\* The boot is a run of the memory manager of module Pmm.
THEOREM MemoryIsRun == Spec => Memory!Spec
<1>1. [Next]_vars => [Memory!Next]_(Memory!vars)
  BY MemorySteps DEF Memory!Next, Memory!vars
<1> QED BY <1>1, MemoryInit, PTL DEF Spec, Memory!Spec

\* So the memory manager's invariant holds.
LEMMA MemorySafe == Spec => []MemoryProofs!IInv
<1>1. Init => MemoryProofs!IInv
  BY MemoryInit, ComponentsAssumed, MemoryProofs!InitIInv
<1>2. MemoryProofs!IInv /\ [Next]_vars => MemoryProofs!IInv'
  <2>1. Memory!InitializePmm => MemoryProofs!InitializePmm
    BY DEF Memory!InitializePmm, MemoryProofs!InitializePmm,
        Memory!RoundPageUp, Memory!RoundPageDown,
        MemoryProofs!RoundPageUp, MemoryProofs!RoundPageDown
  <2>2. [Next]_vars => [MemoryProofs!Next]_(MemoryProofs!vars)
    BY <2>1, MemorySteps DEF MemoryProofs!Next, MemoryProofs!vars
  <2> QED BY <2>2, ComponentsAssumed, MemoryProofs!NextKeepsIInv
<1> QED BY <1>1, <1>2, PTL DEF Spec

-----------------------------------------------------------------------------
(***************************************************************************)
(* Which console is in which slot.  Until all initialisers have run, slot  *)
(* i holds the console of driver i + 1 of the link order; each finaliser   *)
(* moves the rest down by one.                                             *)
(***************************************************************************)
SlotsTaken ==
    IF Len(layout.devices) < MAX_CONSOLES THEN Len(layout.devices) ELSE MAX_CONSOLES

Entered ==
    CASE pc \in {"entry", "clear", "start", "pmm", "main"} -> 0
      [] pc = "initialize" -> IF func < SlotsTaken THEN func ELSE SlotsTaken
      [] OTHER -> SlotsTaken

Gone ==
    CASE pc = "finalize" -> func
      [] pc \in {"panic", "reason", "message", "halt"} -> Len(layout.devices)
      [] OTHER -> 0

SlotContents ==
    /\ console_count = Entered
    /\ \A i \in 0 .. MAX_CONSOLES - 1 :
        consoles[i] = IF i + Gone < Entered THEN layout.devices[i + Gone + 1] ELSE NULL

\* The registry's invariant, as the kernel's own instance states it.
LEMMA RegistryTyped ==
    ASSUME RegistryProofs!IInv
    PROVE  /\ Registry!TypeOK
           /\ consoles \in [0 .. MAX_CONSOLES - 1 -> Consoles \cup {NULL}]
           /\ console_count \in 0 .. MAX_CONSOLES
BY DEF RegistryProofs!IInv, RegistryProofs!TypeOK, Registry!TypeOK, Registry!Slots,
    RegistryProofs!Slots, Registry!Pointers, RegistryProofs!Pointers,
    Registry!Calls, RegistryProofs!Calls, Registry!RegistryOps, RegistryProofs!RegistryOps,
    Registry!IOOps, RegistryProofs!IOOps

\* Bounds of the counters.
LEMMA CounterFacts ==
    ASSUME IInv, FuncInRange
    PROVE  /\ Len(layout.devices) \in Nat /\ func \in 0 .. Len(layout.devices)
           /\ MAX_CONSOLES \in Nat \ {0}
           /\ SlotsTaken \in 0 .. Len(layout.devices) /\ SlotsTaken <= MAX_CONSOLES
           /\ SlotsTaken < Len(layout.devices) => SlotsTaken = MAX_CONSOLES
           /\ Entered \in 0 .. SlotsTaken
           /\ Gone \in 0 .. Len(layout.devices)
<1>1. /\ Len(layout.devices) \in Nat /\ func \in 0 .. Len(layout.devices)
      /\ MAX_CONSOLES \in Nat \ {0}
  BY DeviceFacts, KernelAssumption DEF IInv, FuncInRange
<1>2. /\ SlotsTaken \in 0 .. Len(layout.devices) /\ SlotsTaken <= MAX_CONSOLES
      /\ SlotsTaken < Len(layout.devices) => SlotsTaken = MAX_CONSOLES
  BY <1>1 DEF SlotsTaken
<1>3. Entered \in 0 .. SlotsTaken
  BY <1>1, <1>2 DEF Entered
<1>4. Gone \in 0 .. Len(layout.devices)
  BY <1>1 DEF Gone
<1> QED BY <1>1, <1>2, <1>3, <1>4

\* A driver's console is in the registry when its number is in the window.
LEMMA WhoIsRegistered ==
    ASSUME IInv, FuncInRange, SlotContents, NEW n \in 1 .. Len(layout.devices)
    PROVE  Registry!IsRegistered(layout.devices[n]) <=> Gone < n /\ n <= Entered
<1> DEFINE d == layout.devices[n]
<1>1. /\ d \in Consoles /\ d # NULL
      /\ \A m \in 1 .. Len(layout.devices) : layout.devices[m] = d => m = n
  BY DeviceFacts, KernelAssumption DEF IInv
<1>2. /\ Len(layout.devices) \in Nat /\ Entered \in Nat /\ Gone \in Nat
      /\ Entered <= MAX_CONSOLES /\ Entered <= Len(layout.devices)
      /\ MAX_CONSOLES \in Nat
  BY CounterFacts
<1>3. Registry!InUse = 0 .. Entered - 1
  BY DEF Registry!InUse, SlotContents
<1>4. \A i \in 0 .. Entered - 1 :
        consoles[i] = IF i + Gone < Entered THEN layout.devices[i + Gone + 1] ELSE NULL
  BY <1>2 DEF SlotContents
<1> HIDE DEF d
<1>5. ASSUME NEW i \in 0 .. Entered - 1, consoles[i] = d PROVE Gone < n /\ n <= Entered
  <2>1. i + Gone < Entered /\ layout.devices[i + Gone + 1] = d
    BY <1>1, <1>4, <1>5
  <2>2. i + Gone + 1 \in 1 .. Len(layout.devices)
    BY <1>2, <2>1
  <2>3. i + Gone + 1 = n
    BY <1>1, <2>1, <2>2
  <2> QED BY <1>2, <2>1, <2>3
<1>6. ASSUME Gone < n, n <= Entered PROVE \E i \in 0 .. Entered - 1 : consoles[i] = d
  <2>1. n - 1 - Gone \in 0 .. Entered - 1 /\ (n - 1 - Gone) + Gone < Entered
        /\ (n - 1 - Gone) + Gone + 1 = n
    BY <1>2, <1>6
  <2>2. consoles[n - 1 - Gone] = layout.devices[n]
    BY <1>4, <2>1
  <2> QED BY <2>1, <2>2 DEF d
<1>7. Registry!IsRegistered(d) <=> \E i \in 0 .. Entered - 1 : consoles[i] = d
  BY <1>1, <1>3 DEF Registry!IsRegistered
<1> QED BY <1>5, <1>6, <1>7 DEF d

\* An initialiser puts its console behind the others if a slot is left.
LEMMA InitializeContents ==
    ASSUME IInv, FuncInRange, RegistryProofs!IInv, SlotContents,
           OutputEndsWithFirstFinaliser, InitializeDevice
    PROVE  SlotContents' /\ OutputEndsWithFirstFinaliser'
<1> DEFINE n == func + 1
<1>1. /\ pc = "initialize" /\ pc' = "initialize" /\ func' = n /\ layout' = layout
      /\ func < Len(layout.devices) /\ Registry!RegisterConsole(layout.devices[n])
  BY DEF InitializeDevice, Device
<1>2. /\ Len(layout.devices) \in Nat /\ func \in Nat /\ n \in 1 .. Len(layout.devices)
      /\ MAX_CONSOLES \in Nat \ {0}
      /\ SlotsTaken \in Nat /\ SlotsTaken <= MAX_CONSOLES /\ SlotsTaken <= Len(layout.devices)
      /\ SlotsTaken < Len(layout.devices) => SlotsTaken = MAX_CONSOLES
  BY <1>1, CounterFacts
<1>3. SlotsTaken' = SlotsTaken /\ Gone = 0 /\ Gone' = 0
  BY <1>1 DEF SlotsTaken, Gone
<1>4. /\ Entered = IF func < SlotsTaken THEN func ELSE SlotsTaken
      /\ Entered' = IF n < SlotsTaken THEN n ELSE SlotsTaken
  BY <1>1, <1>3 DEF Entered
<1>5. /\ console_count = Entered
      /\ \A i \in 0 .. MAX_CONSOLES - 1 :
            consoles[i] = IF i < Entered THEN layout.devices[i + 1] ELSE NULL
      /\ consoles \in [0 .. MAX_CONSOLES - 1 -> Consoles \cup {NULL}]
  BY <1>2, <1>3, RegistryTyped DEF SlotContents
<1>6. layout.devices[n] \in Consoles /\ layout.devices[n] # NULL
  BY <1>2, DeviceFacts, KernelAssumption DEF IInv
<1>7. ~Registry!IsRegistered(layout.devices[n])
  BY <1>2, <1>4, WhoIsRegistered
<1>8. active_console = IF func > 0 THEN layout.devices[1] ELSE NULL
  BY <1>1 DEF OutputEndsWithFirstFinaliser
<1> HIDE DEF n
<1>9. CASE func < SlotsTaken
  <2>1. Entered = func /\ Entered' = n /\ n = func + 1
    BY <1>2, <1>4, <1>9 DEF n
  <2>2. Registry!MayRegister(layout.devices[n])
    BY <1>2, <1>5, <1>6, <1>7, <1>9, <2>1 DEF Registry!MayRegister
  <2>3. /\ consoles' = [consoles EXCEPT ![func] = layout.devices[n]]
        /\ console_count' = n
        /\ IF n = 1 THEN active_console' = layout.devices[n]
           ELSE active_console' = active_console
    BY <1>1, <1>5, <2>1, <2>2 DEF Registry!RegisterConsole, Registry!SwitchOn
  <2>4. ASSUME NEW i \in 0 .. MAX_CONSOLES - 1
        PROVE  consoles'[i] = IF i < n THEN layout.devices[i + 1] ELSE NULL
    <3>1. func \in 0 .. MAX_CONSOLES - 1
      BY <1>2, <1>9
    <3>2. CASE i = func
      BY <1>2, <1>5, <2>1, <2>3, <3>1, <3>2
    <3>3. CASE i # func
      BY <1>2, <1>5, <2>1, <2>3, <3>1, <3>3
    <3> QED BY <3>2, <3>3
  <2>5. SlotContents'
    BY <1>1, <1>3, <2>1, <2>3, <2>4 DEF SlotContents
  <2>6. active_console' = layout.devices[1] /\ n > 0
    BY <1>2, <1>8, <2>1, <2>3
  <2> QED BY <1>1, <2>5, <2>6 DEF OutputEndsWithFirstFinaliser
<1>10. CASE ~(func < SlotsTaken)
  <2>1. Entered = SlotsTaken /\ Entered' = SlotsTaken /\ SlotsTaken = MAX_CONSOLES
        /\ func > 0 /\ n > 0
    BY <1>1, <1>2, <1>4, <1>10 DEF n
  <2>2. ~Registry!MayRegister(layout.devices[n])
    BY <1>2, <1>5, <2>1 DEF Registry!MayRegister
  <2>3. UNCHANGED <<consoles, console_count, active_console>>
    BY <1>1, <2>2 DEF Registry!RegisterConsole
  <2>4. SlotContents'
    BY <1>1, <1>3, <2>1, <2>3 DEF SlotContents
  <2> QED BY <1>1, <1>8, <2>1, <2>3, <2>4 DEF OutputEndsWithFirstFinaliser
<1> QED BY <1>9, <1>10

\* A finaliser takes the console out of slot 0, if it got in; either way no
\* console is on afterwards.
LEMMA FinalizeContents ==
    ASSUME IInv, FuncInRange, RegistryProofs!IInv, SlotContents,
           OutputEndsWithFirstFinaliser, FinalizeDevice
    PROVE  SlotContents' /\ OutputEndsWithFirstFinaliser'
<1> DEFINE n == func + 1
<1>1. /\ pc = "finalize" /\ pc' = "finalize" /\ func' = n /\ layout' = layout
      /\ func < Len(layout.devices) /\ Registry!DeregisterConsole(layout.devices[n])
  BY DEF FinalizeDevice, Device
<1>2. /\ Len(layout.devices) \in Nat /\ func \in Nat /\ n \in 1 .. Len(layout.devices)
      /\ MAX_CONSOLES \in Nat \ {0}
      /\ SlotsTaken \in Nat /\ SlotsTaken <= MAX_CONSOLES /\ SlotsTaken <= Len(layout.devices)
      /\ SlotsTaken < Len(layout.devices) => SlotsTaken = MAX_CONSOLES
  BY <1>1, CounterFacts
<1>3. SlotsTaken' = SlotsTaken /\ Gone = func /\ Gone' = n
  BY <1>1 DEF SlotsTaken, Gone
<1>4. Entered = SlotsTaken /\ Entered' = SlotsTaken
  BY <1>1, <1>3 DEF Entered
<1>5. /\ console_count = SlotsTaken
      /\ \A i \in 0 .. MAX_CONSOLES - 1 :
            consoles[i] = IF i + func < SlotsTaken THEN layout.devices[i + func + 1] ELSE NULL
      /\ consoles \in [0 .. MAX_CONSOLES - 1 -> Consoles \cup {NULL}]
  BY <1>3, <1>4, RegistryTyped DEF SlotContents
<1>6. Registry!IsRegistered(layout.devices[n]) <=> func < n /\ n <= SlotsTaken
  BY <1>2, <1>3, <1>4, WhoIsRegistered
<1>7. active_console' = NULL => OutputEndsWithFirstFinaliser'
  BY <1>1, <1>2 DEF OutputEndsWithFirstFinaliser
<1>8. n = func + 1
  OBVIOUS
<1> HIDE DEF n
<1>9. CASE func < SlotsTaken
  <2>1. Registry!IsRegistered(layout.devices[n])
    BY <1>2, <1>6, <1>8, <1>9
  <2>2. /\ consoles' = Registry!Without(layout.devices[n])
        /\ console_count' = console_count /\ active_console' = NULL
    BY <1>1, <2>1
    DEF Registry!DeregisterConsole, Registry!RefuseToDeregister, Registry!SwitchOff
  <2>3. consoles[0] = layout.devices[n] /\ 0 \in 0 .. MAX_CONSOLES - 1
    BY <1>2, <1>5, <1>8, <1>9
  <2>4. ASSUME NEW i \in 0 .. MAX_CONSOLES - 1
        PROVE  consoles'[i] = IF i + n < SlotsTaken THEN layout.devices[i + n + 1] ELSE NULL
    <3>1. Registry!AtOrPast(layout.devices[n], i) <=> i < SlotsTaken
      <4>1. \E j \in 0 .. i : consoles[j] = layout.devices[n]
        BY <2>3
      <4> QED BY <1>2, <1>5, <4>1 DEF Registry!AtOrPast, Registry!InUse
    <3>2. consoles'[i] = IF ~(i < SlotsTaken) THEN consoles[i]
                         ELSE IF i + 1 < SlotsTaken THEN consoles[i + 1] ELSE NULL
      BY <1>5, <2>2, <3>1 DEF Registry!Without, Registry!Slots
    <3>3. CASE i + 1 < SlotsTaken
      <4>1. i + 1 \in 0 .. MAX_CONSOLES - 1 /\ (i + 1) + func = i + n
        BY <1>2, <1>8, <3>3
      <4>2. consoles'[i] = consoles[i + 1]
        BY <1>2, <3>2, <3>3
      <4> QED BY <1>5, <4>1, <4>2
    <3>4. CASE ~(i + 1 < SlotsTaken)
      <4>1. ~(i + n < SlotsTaken)
        BY <1>2, <1>8, <3>4
      <4>2. i < SlotsTaken \/ ~(i + func < SlotsTaken)
        BY <1>2
      <4> QED BY <1>5, <3>2, <3>4, <4>1, <4>2
    <3> QED BY <3>3, <3>4
  <2>5. SlotContents'
    BY <1>1, <1>3, <1>4, <1>5, <2>2, <2>4 DEF SlotContents
  <2> QED BY <1>7, <2>2, <2>5
<1>10. CASE ~(func < SlotsTaken)
  <2>1. ~Registry!IsRegistered(layout.devices[n])
    BY <1>2, <1>6, <1>8, <1>10
  <2>2. UNCHANGED <<consoles, console_count, active_console>>
    BY <1>1, <2>1 DEF Registry!DeregisterConsole, Registry!RefuseToDeregister
  <2>3. \A i \in 0 .. MAX_CONSOLES - 1 : ~(i + func < SlotsTaken) /\ ~(i + n < SlotsTaken)
    BY <1>2, <1>8, <1>10
  <2>4. \A i \in 0 .. MAX_CONSOLES - 1 : consoles[i] = NULL
    BY <1>5, <2>3
  <2>5. SlotContents'
    BY <1>1, <1>3, <1>4, <1>5, <2>2, <2>3, <2>4 DEF SlotContents
  <2>6. func > 0
    BY <1>1, <1>2, <1>10
  <2>7. active_console' = NULL
    BY <1>1, <2>2, <2>6, <1>2 DEF OutputEndsWithFirstFinaliser
  <2> QED BY <1>7, <2>5, <2>7
<1> QED BY <1>9, <1>10

\* Nothing else moves a console: what a step of another kind changes of pc and
\* func leaves every slot what it has to be.
LEMMA ContentsNext ==
    /\ IInv /\ FuncInRange /\ RegistryProofs!IInv
    /\ SlotContents /\ OutputEndsWithFirstFinaliser
    /\ [Next]_vars
    => SlotContents' /\ OutputEndsWithFirstFinaliser'
<1> SUFFICES ASSUME IInv, FuncInRange, RegistryProofs!IInv,
                    SlotContents, OutputEndsWithFirstFinaliser, [Next]_vars
             PROVE  SlotContents' /\ OutputEndsWithFirstFinaliser'
  OBVIOUS
<1>1. /\ Len(layout.devices) \in Nat /\ func \in 0 .. Len(layout.devices)
      /\ MAX_CONSOLES \in Nat \ {0}
      /\ SlotsTaken \in 0 .. Len(layout.devices) /\ Entered \in 0 .. SlotsTaken
  BY CounterFacts
<1>2. layout.devices = <<>> <=> Len(layout.devices) = 0
  BY DeviceFacts DEF IInv
<1>3. /\ console_count = Entered
      /\ \A i \in 0 .. MAX_CONSOLES - 1 :
            consoles[i] = IF i + Gone < Entered THEN layout.devices[i + Gone + 1] ELSE NULL
  BY DEF SlotContents
<1>4. ASSUME consoles' = consoles, console_count' = console_count,
             active_console' = active_console, layout' = layout,
             \/ pc' = pc /\ func' = func
             \/ /\ pc \in {"entry", "clear", "start", "pmm", "main"} /\ func' = 0
                /\ pc' \in {"entry", "clear", "start", "pmm", "main", "initialize"}
             \/ /\ pc \in {"panic", "reason", "message", "halt"}
                /\ pc' \in {"panic", "reason", "message", "halt"}
             \/ pc = "initialize" /\ pc' = "finalize"
                /\ func = Len(layout.devices) /\ func' = 0
             \/ pc = "finalize" /\ pc' = "panic" /\ func = Len(layout.devices)
      PROVE  SlotContents' /\ OutputEndsWithFirstFinaliser'
  <2>1. SlotsTaken' = SlotsTaken
    BY <1>4 DEF SlotsTaken
  <2>2. Entered' = Entered
    BY <1>1, <1>4, <2>1 DEF Entered, FuncInRange
  <2>3. Gone' = Gone
    BY <1>4 DEF Gone, FuncInRange
  <2>4. SlotContents'
    BY <1>3, <1>4, <2>2, <2>3 DEF SlotContents
  <2>5. OutputEndsWithFirstFinaliser'
    BY <1>1, <1>2, <1>4 DEF OutputEndsWithFirstFinaliser, FuncInRange
  <2> QED BY <2>4, <2>5
<1>5. CASE InitializeDevice
  BY <1>5, InitializeContents
<1>6. CASE FinalizeDevice
  BY <1>6, FinalizeContents
<1>7. CASE Entry \/ Clear \/ StartMemory
  BY <1>4, <1>7 DEF FuncInRange, Entry, Clear, StartMemory, registry
<1>8. CASE Start \/ EnterMain \/ VpanicHeading \/ VpanicReason \/ VpanicMessage
  BY <1>4, <1>8
  DEF FuncInRange, Start, EnterMain, VpanicHeading, VpanicReason, VpanicMessage, Say, registry
<1>9. CASE InitializedAll \/ FinalizedAll
  BY <1>4, <1>9 DEF InitializedAll, FinalizedAll, registry
<1>10. CASE Halt \/ UNCHANGED vars
  BY <1>4, <1>10 DEF Halt, vars, registry
<1> QED BY <1>5, <1>6, <1>7, <1>8, <1>9, <1>10 DEF Next

LEMMA ContentsInit == Init => SlotContents /\ OutputEndsWithFirstFinaliser
<1> SUFFICES ASSUME Init PROVE SlotContents /\ OutputEndsWithFirstFinaliser
  OBVIOUS
<1>1. /\ pc = "entry" /\ console_count = 0 /\ active_console = NULL
      /\ \A i \in 0 .. MAX_CONSOLES - 1 : consoles[i] = NULL
  BY DEF Init, Registry!Init, Registry!Slots
<1>2. Entered = 0 /\ Gone = 0
  BY <1>1 DEF Entered, Gone
<1> QED BY <1>1, <1>2, KernelAssumption DEF SlotContents, OutputEndsWithFirstFinaliser

\* What the slots hold is what DevicesAreRegistered says of the set.
LEMMA ContentsAreDevices ==
    ASSUME IInv, FuncInRange, RegistryProofs!IInv, SlotContents
    PROVE  DevicesAreRegistered
<1>1. /\ Len(layout.devices) \in Nat /\ func \in 0 .. Len(layout.devices)
      /\ MAX_CONSOLES \in Nat \ {0}
      /\ SlotsTaken \in 0 .. Len(layout.devices) /\ SlotsTaken <= MAX_CONSOLES
      /\ Entered \in 0 .. SlotsTaken /\ Gone \in 0 .. Len(layout.devices)
  BY CounterFacts
<1>2. /\ \A i \in 1 .. Len(layout.devices) :
            layout.devices[i] \in Consoles /\ layout.devices[i] # NULL
      /\ \A i, j \in 1 .. Len(layout.devices) :
            layout.devices[i] = layout.devices[j] => i = j
  BY DeviceFacts, KernelAssumption DEF IInv
<1> DEFINE W == {layout.devices[i] : i \in Gone + 1 .. Entered}
<1>3. Registry!Registered = W
  <2>1. /\ Registry!InUse = 0 .. Entered - 1
        /\ \A i \in 0 .. Entered - 1 :
            consoles[i] = IF i + Gone < Entered THEN layout.devices[i + Gone + 1] ELSE NULL
    BY <1>1 DEF Registry!InUse, SlotContents
  <2>2. ASSUME NEW i \in 0 .. Entered - 1, consoles[i] # NULL PROVE consoles[i] \in W
    <3>1. consoles[i] = layout.devices[i + Gone + 1] /\ i + Gone + 1 \in Gone + 1 .. Entered
      BY <1>1, <2>1, <2>2
    <3> QED BY <3>1
  <2>3. ASSUME NEW n \in Gone + 1 .. Entered
        PROVE  \E i \in 0 .. Entered - 1 : consoles[i] = layout.devices[n]
    <3>1. n - 1 - Gone \in 0 .. Entered - 1 /\ (n - 1 - Gone) + Gone < Entered
          /\ (n - 1 - Gone) + Gone + 1 = n
      BY <1>1
    <3>2. consoles[n - 1 - Gone] = layout.devices[n]
      BY <2>1, <3>1
    <3> QED BY <3>1, <3>2
  <2>4. \A n \in Gone + 1 .. Entered : layout.devices[n] # NULL
    BY <1>1, <1>2
  <2> QED BY <2>1, <2>2, <2>3, <2>4 DEF Registry!Registered
<1> HIDE DEF W
<1>4. DevicesAreRegistered <=>
        W = CASE pc = "initialize" ->
                    DevicesUpTo(IF func < SlotsTaken THEN func ELSE SlotsTaken)
              [] pc = "finalize" -> DevicesUpTo(SlotsTaken) \ DevicesUpTo(func)
              [] OTHER -> {}
  BY <1>3 DEF DevicesAreRegistered, SlotsTaken
<1>5. CASE pc = "initialize"
  <2>1. Gone + 1 = 1 /\ Entered = IF func < SlotsTaken THEN func ELSE SlotsTaken
    BY <1>5 DEF Gone, Entered
  <2> QED BY <1>4, <1>5, <2>1 DEF W, DevicesUpTo
<1>6. CASE pc = "finalize"
  <2>1. Gone = func /\ Entered = SlotsTaken
    BY <1>6 DEF Gone, Entered
  <2>2. ASSUME NEW i \in func + 1 .. SlotsTaken
        PROVE  layout.devices[i] \in DevicesUpTo(SlotsTaken) \ DevicesUpTo(func)
    <3>1. i \in 1 .. SlotsTaken /\ i \in 1 .. Len(layout.devices) /\ i \notin 1 .. func
      BY <1>1
    <3>2. \A j \in 1 .. func : j \in 1 .. Len(layout.devices)
      BY <1>1
    <3>3. \A j \in 1 .. func : layout.devices[j] # layout.devices[i]
      BY <1>2, <3>1, <3>2
    <3> QED BY <3>1, <3>3 DEF DevicesUpTo
  <2>3. ASSUME NEW i \in 1 .. SlotsTaken, layout.devices[i] \notin DevicesUpTo(func)
        PROVE  i \in func + 1 .. SlotsTaken
    <3>1. i \notin 1 .. func
      BY <2>3 DEF DevicesUpTo
    <3> QED BY <1>1, <3>1
  <2>4. {layout.devices[i] : i \in func + 1 .. SlotsTaken}
          = DevicesUpTo(SlotsTaken) \ DevicesUpTo(func)
    BY <2>2, <2>3 DEF DevicesUpTo
  <2> QED BY <1>4, <1>6, <2>1, <2>4 DEF W
<1>7. CASE pc \notin {"initialize", "finalize"}
  <2>1. Gone + 1 .. Entered = {}
    BY <1>1, <1>7 DEF Gone, Entered, FuncInRange
  <2>2. W = {}
    BY <2>1 DEF W
  <2> QED BY <1>4, <1>7, <2>2
<1> QED BY <1>5, <1>6, <1>7

\* The initialisers register their drivers' consoles in link order as long as
\* there are slots; each finaliser takes back its own and no other; printf has
\* a console from the first initialiser to the first finaliser.
THEOREM DevicesInOrder == Spec => []DevicesComeAndGo
<1>1. IInv /\ FuncInRange /\ RegistryProofs!IInv /\ SlotContents
      /\ OutputEndsWithFirstFinaliser => DevicesComeAndGo
  BY ContentsAreDevices DEF DevicesComeAndGo
<1> QED BY <1>1, ContentsInit, ContentsNext, Running, RegistrySafe, PTL DEF Spec

\* The type invariant, the registry's included.
THEOREM TypeCorrect == Spec => []TypeOK
<1>1. IInv /\ FuncInRange /\ RegistryProofs!IInv /\ MemoryProofs!IInv => TypeOK
  <2> SUFFICES ASSUME IInv, FuncInRange, RegistryProofs!IInv, MemoryProofs!IInv
               PROVE  TypeOK
    OBVIOUS
  <2>1. Registry!TypeOK
    BY RegistryTyped
  <2>2. pmm \in {"off", "on"}
    BY DEF IInv, Untouched, MemoryIsOn
  <2>3. pmm_start \in Nat /\ pmm_next \in Nat
    BY KernelAssumption
    DEF MemoryProofs!IInv, MemoryProofs!TypeOK, MemoryProofs!Addresses
  <2>4. t0 \in layout.bss_start .. layout.bss_end /\ cleared \subseteq Nat
    BY LayoutFacts DEF IInv, Stepping
  <2> QED BY <2>1, <2>2, <2>3, <2>4 DEF TypeOK, IInv, Linked, FuncInRange
<1> QED BY <1>1, Running, RegistrySafe, MemorySafe, PTL
-----------------------------------------------------------------------------
(***************************************************************************)
(* The part of EndsInHalt that needs no fairness: what has been said at    *)
(* each point, and that every step brings the halt nearer.                 *)
(***************************************************************************)
Report == <<"starting", "entered", "PANIC", "Reason:", "main_returned">>

Said ==
    CASE pc \in {"entry", "clear", "start"} -> 0
      [] pc \in {"pmm", "main"} -> 1
      [] pc \in {"initialize", "finalize", "panic"} -> 2
      [] pc = "reason" -> 3
      [] pc = "message" -> 4
      [] pc = "halt" -> 5

PrintedSoFar == Len(printed) = Said /\ \A k \in 1 .. Said : printed[k] = Report[k]

\* A bound of the steps to come: bytes of the BSS, drivers, and the rest.
StepsLeft ==
    LET bytes == layout.bss_end - t0
        drivers == Len(layout.devices)
    IN CASE pc = "entry" -> bytes + 2 * drivers + 12
         [] pc = "clear" -> bytes + 2 * drivers + 11
         [] pc = "start" -> 2 * drivers + 10
         [] pc = "pmm" -> 2 * drivers + 9
         [] pc = "main" -> 2 * drivers + 8
         [] pc = "initialize" -> 2 * drivers - func + 7
         [] pc = "finalize" -> drivers - func + 6
         [] pc = "panic" -> 3
         [] pc = "reason" -> 2
         [] pc = "message" -> 1
         [] pc = "halt" -> 0

LEMMA SaidNext ==
    IInv /\ FuncInRange /\ PrintedSoFar /\ [Next]_vars => PrintedSoFar'
<1> SUFFICES ASSUME FuncInRange, PrintedSoFar, [Next]_vars PROVE PrintedSoFar'
  OBVIOUS
<1>1. CASE \/ Entry \/ Clear \/ StartMemory \/ InitializeDevice \/ InitializedAll
           \/ FinalizeDevice \/ FinalizedAll \/ Halt \/ UNCHANGED vars
  <2>1. printed' = printed
    BY <1>1 DEF Entry, Clear, StartMemory, InitializeDevice, InitializedAll,
                FinalizeDevice, FinalizedAll, Halt, vars
  <2>2. Said' = Said
    BY <1>1 DEF Entry, Clear, StartMemory, InitializeDevice, InitializedAll,
                FinalizeDevice, FinalizedAll, Halt, vars, Said
  <2> QED BY <2>1, <2>2 DEF PrintedSoFar
<1>2. CASE Start \/ EnterMain \/ VpanicHeading \/ VpanicReason \/ VpanicMessage
  <2>1. \/ pc = "start" /\ pc' = "pmm" /\ printed' = Append(printed, "starting")
        \/ pc = "main" /\ pc' = "initialize" /\ printed' = Append(printed, "entered")
        \/ pc = "panic" /\ pc' = "reason" /\ printed' = Append(printed, "PANIC")
        \/ pc = "reason" /\ pc' = "message" /\ printed' = Append(printed, "Reason:")
        \/ pc = "message" /\ pc' = "halt" /\ printed' = Append(printed, "main_returned")
    BY <1>2 DEF Start, EnterMain, VpanicHeading, VpanicReason, VpanicMessage, Say
  <2>2. /\ Said \in 0 .. 4 /\ Said' = Said + 1
        /\ printed' = Append(printed, Report[Said + 1])
    BY <2>1 DEF Said, Report
  <2>3. printed \in Seq(Messages) /\ Report[Said + 1] \in Messages
    BY <2>2 DEF FuncInRange, Report, Messages
  <2>4. PICK n : n = Said
    OBVIOUS
  <2>5. /\ Len(printed') = n + 1 /\ printed'[n + 1] = Report[n + 1]
        /\ \A k \in 1 .. n : printed'[k] = printed[k]
    BY <2>2, <2>3, <2>4 DEF PrintedSoFar
  <2>6. \A k \in 1 .. n + 1 : printed'[k] = Report[k]
    BY <2>2, <2>4, <2>5 DEF PrintedSoFar
  <2> QED BY <2>2, <2>4, <2>5, <2>6 DEF PrintedSoFar
<1> QED BY <1>1, <1>2 DEF Next

LEMMA BootShortens ==
    IInv /\ FuncInRange /\ [Next]_vars =>
        [StepsLeft' \in Nat /\ StepsLeft' < StepsLeft]_vars
<1> SUFFICES ASSUME IInv, FuncInRange, Next, vars' # vars
             PROVE  StepsLeft' \in Nat /\ StepsLeft' < StepsLeft
  OBVIOUS
<1>1. PICK D : D = Len(layout.devices)
  OBVIOUS
<1>2. /\ D \in Nat /\ func \in 0 .. D
      /\ layout.bss_end \in Nat /\ t0 \in Nat /\ t0 <= layout.bss_end
      /\ layout.xlen \in {4, 8}
  BY <1>1, DeviceFacts, LayoutFacts DEF IInv, FuncInRange, Stepping
<1>3. t0' <= layout'.bss_end
  BY NextKeepsIInv, LayoutFacts DEF IInv, Stepping
<1>4. CASE Entry
  <2>1. /\ pc = "entry" /\ pc' \in {"clear", "start"} /\ layout' = layout /\ t0' = t0
    BY <1>4 DEF Entry
  <2>2. StepsLeft = (layout.bss_end - t0) + 2 * D + 12
    BY <1>1, <2>1 DEF StepsLeft
  <2>3. StepsLeft' \in {(layout.bss_end - t0) + 2 * D + 11, 2 * D + 10}
    BY <1>1, <2>1 DEF StepsLeft
  <2> QED BY <1>2, <2>2, <2>3
<1>5. CASE Clear
  <2>1. /\ pc = "clear" /\ pc' \in {"clear", "start"} /\ layout' = layout
        /\ t0' = t0 + layout.xlen
    BY <1>5 DEF Clear
  <2>2. StepsLeft = (layout.bss_end - t0) + 2 * D + 11
    BY <1>1, <2>1 DEF StepsLeft
  <2>3. StepsLeft' \in {(layout.bss_end - t0') + 2 * D + 11, 2 * D + 10}
    BY <1>1, <2>1 DEF StepsLeft
  <2> QED BY <1>2, <1>3, <2>1, <2>2, <2>3
<1>6. CASE Start \/ StartMemory \/ EnterMain
  <2>1. /\ layout' = layout /\ func' = func
        /\ \/ pc = "start" /\ pc' = "pmm"
           \/ pc = "pmm" /\ pc' = "main"
           \/ pc = "main" /\ pc' = "initialize"
    BY <1>6 DEF Start, StartMemory, EnterMain, Say
  <2>2. pc = "main" => func = 0
    BY DEF FuncInRange
  <2>3. \/ StepsLeft = 2 * D + 10 /\ StepsLeft' = 2 * D + 9
        \/ StepsLeft = 2 * D + 9 /\ StepsLeft' = 2 * D + 8
        \/ StepsLeft = 2 * D + 8 /\ StepsLeft' = 2 * D - func + 7
    BY <1>1, <2>1, <2>2 DEF StepsLeft
  <2> QED BY <1>2, <2>3
<1>7. CASE InitializeDevice
  <2>1. /\ pc = "initialize" /\ pc' = "initialize" /\ layout' = layout
        /\ func' = func + 1 /\ func < D
    BY <1>1, <1>7 DEF InitializeDevice
  <2>2. StepsLeft = 2 * D - func + 7 /\ StepsLeft' = 2 * D - func' + 7
    BY <1>1, <2>1 DEF StepsLeft
  <2> QED BY <1>2, <2>1, <2>2
<1>8. CASE InitializedAll
  <2>1. /\ pc = "initialize" /\ pc' = "finalize" /\ layout' = layout
        /\ func' = 0 /\ func = D
    BY <1>1, <1>8 DEF InitializedAll
  <2>2. StepsLeft = 2 * D - func + 7 /\ StepsLeft' = D - func' + 6
    BY <1>1, <2>1 DEF StepsLeft
  <2> QED BY <1>2, <2>1, <2>2
<1>9. CASE FinalizeDevice
  <2>1. /\ pc = "finalize" /\ pc' = "finalize" /\ layout' = layout
        /\ func' = func + 1 /\ func < D
    BY <1>1, <1>9 DEF FinalizeDevice
  <2>2. StepsLeft = D - func + 6 /\ StepsLeft' = D - func' + 6
    BY <1>1, <2>1 DEF StepsLeft
  <2> QED BY <1>2, <2>1, <2>2
<1>10. CASE FinalizedAll
  <2>1. /\ pc = "finalize" /\ pc' = "panic" /\ func = D
    BY <1>1, <1>10 DEF FinalizedAll
  <2>2. StepsLeft = D - func + 6 /\ StepsLeft' = 3
    BY <1>1, <2>1 DEF StepsLeft
  <2> QED BY <1>2, <2>1, <2>2
<1>11. CASE VpanicHeading \/ VpanicReason \/ VpanicMessage
  BY <1>11 DEF VpanicHeading, VpanicReason, VpanicMessage, Say, StepsLeft
<1>12. CASE Halt
  BY <1>12 DEF Halt
<1> QED BY <1>4, <1>5, <1>6, <1>7, <1>8, <1>9, <1>10, <1>11, <1>12 DEF Next

\* Every step but the halt loop lowers a number that starts at the size of the BSS,
\* twice the number of drivers, and twelve: no path leads round any other loop.
THEOREM BootRunsOut == Spec => [][StepsLeft' \in Nat /\ StepsLeft' < StepsLeft]_vars
BY BootShortens, Running, PTL DEF Spec

\* Where the kernel halts it has reported the panic in full, and no console is on:
\* no driver has been started that has not been stopped.
HaltsReported ==
    pc = "halt" =>
        /\ printed = <<"starting", "entered", "PANIC", "Reason:", "main_returned">>
        /\ active_console = NULL /\ \A c \in Consoles : activations[c] = 0

\* In every behaviour, whatever the list of drivers and the number of slots.
THEOREM HaltIsReported == Spec => []HaltsReported
<1>1. Init => PrintedSoFar
  BY DEF Init, Said, PrintedSoFar
<1>2. IInv /\ FuncInRange /\ RegistryProofs!IInv /\ SlotContents
      /\ OutputEndsWithFirstFinaliser /\ PrintedSoFar => HaltsReported
  <2> SUFFICES ASSUME FuncInRange, RegistryProofs!IInv, OutputEndsWithFirstFinaliser,
                      PrintedSoFar, pc = "halt"
               PROVE  HaltsReported
    BY DEF HaltsReported
  <2>1. active_console = NULL
    BY DEF OutputEndsWithFirstFinaliser
  <2>2. \A c \in Consoles : activations[c] = 0
    BY <2>1, KernelAssumption DEF RegistryProofs!IInv, RegistryProofs!DriversFollowActive
  <2>3. printed = <<"starting", "entered", "PANIC", "Reason:", "main_returned">>
    <3>1. printed \in Seq(Messages) /\ Len(printed) = 5
      BY DEF FuncInRange, PrintedSoFar, Said
    <3>2. /\ printed[1] = "starting" /\ printed[2] = "entered" /\ printed[3] = "PANIC"
          /\ printed[4] = "Reason:" /\ printed[5] = "main_returned"
      BY DEF PrintedSoFar, Said, Report
    <3> QED BY <3>1, <3>2
  <2> QED BY <2>1, <2>2, <2>3 DEF HaltsReported
<1> QED BY <1>1, <1>2, SaidNext, ContentsInit, ContentsNext, Running, RegistrySafe,
           PTL DEF Spec
=============================================================================
