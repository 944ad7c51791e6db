# gros: a verification development

Models of the gros kernel in TLA+, checked with TLC, with theorems checked by
TLAPS. gros is a small RISC-V supervisor kernel in C with a Make build and two
Python scripts. The kernel runs on one hart and never enables an interrupt, so
its code is sequential; what happens at the same time as a call is the UART
hardware. The hard parts are long sequences of calls, boundaries, and a driver
that reads a status register and acts on what it saw.

## Inventory

| component | source | state | operations |
|---|---|---|---|
| Console registry | `kernel/console.c` | `_consoles[8]`, `_console_count`, `_active_console` | register, deregister, activate, deactivate, read, write, put, queries |
| ns16550a driver | `kernel/device/ns16550a/device.c`, `ns16550a.h` | the UART's registers (no software state) | try_receive, receive_buffer, transmit, transmit_buffer, the console callbacks |
| Debug output | `kernel/device/ns16550a/debug.c` | the same UART | dputc, dputs |
| Physical memory manager | `kernel/pmm.c` | `_start`, `_next` | initialize, allocate (one, many), free (one, many) |
| Boot and layout | `entry.S`, `start.c`, `kernel.lds.S` | gp, sp, BSS, linker symbols | clear BSS, `_start` |
| Main and devices | `kernel/main.c`, `device.h` | two linker sections of function pointers | run initialisers, run finalisers |
| Panic, assert, halt | `panic.c`, `assert.h`, `halt.c` | none | print through debug output, wfi for ever |
| Formatted output | `kernel/lib/stdio.c` | a `PrintState` per call | snprintf, printf, dprintf and the v-forms |
| String functions | `kernel/lib/string.c` | none | strlen, memcpy, memset |
| RISC-V configuration | `arch/riscv/config.py` | none | parse and format subarch, ABI, MMU |
| Configuration header | `make/generator/config.py` | the object and output files | generate, deploy |
| Module generator | `make/module.mk`, `generate-*.mk`, `macro.mk` | `MODULE`, `MODULE_STACK`, `MODULES`, `MODULES_GENERATED` and the submodule twins | generate-module(s), generate-submodule(s) |
| Build rules, platform descriptions, emulator | the other `.mk` files | make variables | declarations |

How they interact. The linker gathers `DEVICE_INITIALIZER` pointers; `main` calls
them; the only one registers the UART's console with the registry. The registry
calls back into the driver (activate, deactivate, read, write, put). `printf`
goes through the registry's active console, `dprintf`, `panic` and `assert` go
to `dputc` directly: console output and debug output share one UART and one
transmitter. The memory manager starts at the linker's `__end`.

What makes each component correct, and where it is hard:

* *Registry.* No console in two slots, none lost by another's departure, none
  dispatched to after it left, drivers started and stopped alternately. Hard
  because `deregister_console` shifts entries but never lowers `_console_count`:
  long call sequences produce arrays with holes, and use the eight slots up.
* *UART driver.* Characters come in order, once, and every loss has a cause; a
  status bit still holds when it is acted on; calls return without waiting. Hard
  because the hardware moves between any two register accesses, and because
  RBR and THR share an address.
* *Memory manager.* A page never goes to two owners, never overlaps the kernel,
  is never the value that means failure. Hard at the wrap of the address.
* *Formatted output.* Writes stay in the buffer; the count is right when output
  is cut; conversions agree with arithmetic.
* *String functions.* They terminate and touch `n` bytes.
* *Boot.* Static state is read only after it is cleared; devices come up before
  they are used; nothing runs after halt.
* *Configuration script.* Parsing what was formatted gives the configuration
  back; a bad ABI or MMU is refused.
* *Header generator.* The result depends only on the settings; an unchanged
  header is not touched.
* *Module generator.* Every module is generated once, under its own name,
  however generation nests.

`PROJECT.json` lists the hazards at the lines where they bite.

## Modules

| module | models | role |
|---|---|---|
| `Console` | `console.c` | one action per call |
| `ConsoleRegistry` | | what the registry promises: a set, at most one active member, a budget of registrations |
| `Uart` | `device.c`, `debug.c`, the field macros, the UART (external) | one action per register access |
| `LossyLink` | | what each direction of the UART promises |
| `Pmm` | `pmm.c`, page macros | one action per call |
| `Kernel` | `entry.S`, `kernel.lds.S`, `start.c`, `main.c`, `panic.c`, `halt.c`, the driver's initialiser and finaliser | composes `Console` and `Pmm` |
| `Stdio` | `lib/stdio.c` | one call, directive by directive and character by character |
| `StringFunctions` | `lib/string.c` | one call, byte by byte |
| `RiscvConfig` | `arch/riscv/config.py` | one run, token by token |
| `ConfigHeader` | `config-module.mk`, `generator/config.py`, the dependence of objects on the header | runs of Make, write by write |
| `ModuleGraph` | `module.mk`, `generate-modules.mk`, `generate-submodules.mk`, `macro.mk` | Make's parse, statement by statement |
| `...Proofs` | | theorems about the module of that name; `StringProofs` is about `StringFunctions`, `ConfigProofs` about both scripts, `ConfigHeader` and `RiscvConfig` |
| `MC...` | | instances for TLC |

**Console.** `consoles`, `console_count`, `active_console` are the three static
variables. `activations` is the drivers' side: for each console the activate
callbacks minus the deactivate callbacks it has received. `call` is the last
call with its answer. `RegisterConsole`, `DeregisterConsole`, `ActivateConsole`
take any pointer including NULL and contain their refusals, so that a client may
make any sequence of calls. The loop of `deregister_console` is the closed form
`Without`: each slot from the one that holds the console on takes its
successor's entry, the last in use becomes NULL. Reads and writes return what
the driver returns; the model keeps which driver served (`UseConsole`).

**Uart.** `rx` and `tx` are the FIFOs, of any depth (depth 1 is a UART without
FIFOs), `wire` what was transmitted. `pc` is the next register access of the
running call. The loops of receive_buffer, transmit_buffer and dputs go round in
`Advance`. The UART's own steps, `Arrive` and `Shift`, happen between any two
accesses. Characters are numbered by arrival and by the order in which callers
hand them out, so order, loss and duplication can be told apart. A read of RBR
that finds nothing yields `Garbage`, and a store to a full transmitter may lose
either end: nothing is assumed of the driver to make it safe. `DiscardInput` is
the read half of `NS16550A_WRITE_FIELD`.

**Pmm.** `end`, `start`, `next` are `__end`, `_start`, `_next`; addresses are
taken modulo `WORD`. `handed` and `freed` are history. `PanicOnNull` is the
failing assertion of the default (debug) build.

**Kernel.** `layout` is what the linker decided: the word size, `__bss_start`,
`__bss_end` (both from `Align`, the ALIGN of the linker script) and the list of
drivers. `t0` is the register that walks through the BSS, `cleared` the bytes it
has stored zero to. `pc` then follows `_start`, `main`, `panic` and `halt`.
`InitializeDevice` and `FinalizeDevice` are one round of main's loops and take
the registry's own actions, `StartMemory` takes `Pmm`'s; the variables of both
are variables of `Kernel`. Messages are names. The BSS also holds the registry
and the memory manager: their initial values stand for the cleared memory, and
`ClearsExactlyTheBss` says that nobody uses them earlier.

**Stdio.** `type`, `capacity`, `length`, `flags` are the fields of `PrintState`,
`format` its pointer, as the directives still to come. A directive carries the
argument that `va_arg` yields for it. `Digit` and `PrintNext` are one round of
the loops over digits and characters; `PrintChr` is `_do_print_chr` with its
capacity test, and `Finalize` writes the terminator. `string` holds exactly the
bytes written at and after the buffer, so that a byte behind it shows. `text` is
history: every character asked for. `Meaning` is the reference: positional
numerals defined without the digit loop, from `PlaceValue`, and `StoredBy` what
each `%n` stores. `INT_MAX` is a parameter; conversions to int wrap around it.
`BUFFER_SIZE` is the array in which a number is converted (48 bytes in the code):
the digit loop does not look at its beginning, `DigitsFit` does.

**StringFunctions.** `memory` is `SIZE` bytes; an access outside it is a `fault`,
which stands for whatever lies behind the objects. `p1`, `p2`, `n` are the
pointers and the count of the running loop, `before` is memory at the call.
Callers keep the C library's contract (`StrlenCalls` and its two fellows).

**RiscvConfig.** `spec` is the text not read yet as a sequence of symbols,
`section` what the running section may still contain, `exts` the set found.
`ParseExt` is the inner loop of a section: a token is one letter, or runs from
a Z to the next underscore. `Report` is `format_exts`, and `Chosen` its
comprehensions. The script's own specification is `ScriptInit` and `ScriptNext`. The
reference is
`WellFormed` (ranks in strictly rising order) and `Meant` (the least closed set),
neither of which parses.

**ConfigHeader.** `obj_lst`, `obj` and `out` are the list of settings, the object
header and the header in use, `objects` what each source was compiled with; a
file has a time stamp and may be half written. `EchoItem` appends one
setting that is not in the list yet, the first in the order of Make's sort
(`NextItem`). `OpenObject` and `Deploy` are the opening of a file for writing,
which empties it; `Generate` and `Copy` fill it. `Stop` kills Make at any point, `GenerateFails` is a failure of the script, whose
status nobody reads. One write of an object is atomic, as gcc removes what it
could not finish.

**ModuleGraph.** `ModuleName`, `MODULE_STACK`, `MODULES`, `MODULES_GENERATED` and
their submodule twins are the Make variables; a stack is a list of words, `Push`
drops empty ones as `strip` does and `TailOf` is the macro `tail`, which drops
the *last* word. A makefile is the sequence of its statements that reach the
generator. `work` is what Make has still to evaluate; each entry knows the
makefile it was written in, which no action reads and
`LinesRunUnderTheirName` compares with the running name. `LeaveModule` and
`LeaveSubmodule` are the restoring lines at the end of a generation. `SUBMODULES`
and `SUBMODULE` are not saved by a nested generation: as `kernel/module.mk` does,
the makefiles of the instances generate modules before they list submodules, and
no submodule generates a module. `ModuleAssumption` says so; `KernelAssumption` says
how the makefiles lead to the kernel's (`UsersOf`). TLC evaluates both for every
project of the run, the repository's own among them.

Operators described in a comment as a plausible mistake are not part of any
specification: each is a wrong version of the definition that follows it, and
serves to show that a property notices it.

## Runs

| run | what is asked | bounds |
|---|---|---|
| `console` | are array, active console and drivers consistent after any calls; is the abstract registry implemented | 3 interchangeable consoles, 5 slots: consoles return after leaving, holes form in front, between and behind entries, and the slots run out |
| `uart` | is every character accounted for under every interleaving | FIFO depth 2, calls of up to 2 characters, 3 arrivals, 5 characters out: both FIFOs fill and overflow, a second write meets a full, half full and empty transmitter |
| `uart_liveness` | does every call return whatever the UART does, and does what was reported sent reach the wire | depth 1, 2 arrivals, 4 characters out |
| `uart_input_loss` | does output leave input alone (no) | depth 2 |
| `pmm` | which pages are handed out, up to and past a full turn | 8 pages of 4 addresses, 5 positions of the kernel's end (page boundaries, just past one, just before one, the last page), requests of 0 to 3 pages, 10 pages in all |
| `kernel` | is static state cleared before it is used, is memory ready before devices, who has output when, where does it end | word sizes 4 and 8, 6 ends of data and 5 sizes of BSS on, before and behind word boundaries, pages of 16, no driver to one more than there are slots (2; the code has 8) |
| `stdio` | what do the three kinds of output print, store and answer | every format of up to 2 directives over all conversions, of 3 over a few; arguments at the ends of a 4-bit int; buffers of 0, 1, 3, 6 and 7 bytes and one above `INT_MAX` = 7; texts shorter, as long and longer; 4 bytes to convert a number in, which two digits leave no room in |
| `strings` | what do the calls answer and change, and do they end | every content of 5 bytes over 3 values, every object in it, fills 1, 256 and -1 |
| `memcpy` | does memcpy stay inside its objects (no) | as `strings` |
| `riscv_config` | is exactly what is possible accepted, and does the printed specification mean the same | every sequence of up to 4 of 12 symbols, what is printed for every set of extensions, every ABI and MMU at XLEN 32, 64 and 128 with 5 specifications |
| `module_graph` | is every module generated once, under its name, in time, and does generation end | the repository's makefiles with and without the emulator, a chain nested 4 deep with submodules nested 3 deep, every graph of 3 modules with up to 2 nested uses each, circles included, and a queue |
| `config_header` | does a change of settings reach the objects, and nothing else cause a build | 4 settings (two keys, two values each), 6 lists with duplicates and conflicts, 2 sources, 3 runs of Make, a kill at every step and a failing script |

A property may be a conjunction of named parts: `ContractKept`, `CountsAreTrue`,
`DevicesComeAndGo`, `EveryModuleOnce`, and `TextIsMeaning`, `VerdictIsRight` and
`BuildIsCurrent`, which include their module's type invariant.

What they show.

* *Registry.* It never dispatches to a console that left and never loses one; but
  a departure of *any* console switches the active one off, only the first
  registration ever switches one on, and slots are never handed out again.
* *UART.* A call never acts on a stale status bit, since only the CPU empties
  `rx` and fills `tx`; input may be lost to overrun or to output; a short write
  leaves no hole but is reported as complete.
* *Memory manager.* Each page is given once per turn of the address space, and
  never page 0 or a page of the kernel in the first turn.
* *Kernel.* The clearing loop ends exactly at `__bss_end` because both symbols are
  aligned to its step. From the first finaliser on there is no active console
  although others may be registered, and the panic that always follows has
  debug output only. The kernel always ends in the halt loop.
* *Formatted output.* The text, the counts and the answer are right for every
  format. A text longer than the buffer keeps its first `n - 1` characters, but
  the terminator is written at the offset of the full length: behind the buffer,
  and not behind what was kept; with size 0 a byte is written too.
  `BufferContents` states that as the code does it, as nothing in the repository
  says otherwise. Streams are cut at
  `INT_MAX - 1` characters.
* *String functions.* strlen and memset keep their contract, and memcpy copies its
  object byte by byte like them, as long as it is in it (`ContractKept`). Every call
  ends but memcpy of something (`CallsEnd`), of which see run `memcpy` below.
* *Configuration.* The verdict depends on what a specification means and not on
  its spelling. Whatever was cut off or failed in earlier runs, a build that ends
  without a failure has the header its settings ask for, because the comparison
  is of contents; a conflict of values is decided by Make's sort. `kernel` is
  evaluated after `product`, `board`, `platform` and `arch` thanks to the order
  of the queue: the nested generation in `kernel/module.mk` alone would not do.

`uart_input_loss` is a fault of the code: writing THR through
`NS16550A_WRITE_FIELD` first reads the same address, which is RBR, so each
character that `dputc` or `ns16550a_transmit` writes takes one received
character out of the UART. `debug.c:27` and the register names of `ns16550a.h`
say that only THR is written.

`memcpy` is another: its loop never counts `n` down (`string.c:44`), so a call with
`n > 0` goes on behind both objects until it leaves the memory, and does not return.
`string.h:28` declares the C library's function and the comment in `string.c:41` says
no more than that it should be optimised. `MemcpyStaysInside` is the part of the
contract that is broken; a loop that counts down would keep it.

Deadlock is checked in `console`, the `uart` runs and `kernel`, which ends in a
loop. The others stop by themselves: a panic in `pmm`, the end of the one call in
`stdio`, `strings` and `memcpy`, of the script in `riscv_config`, of the parse in
`module_graph`, and of the bounded runs of Make in `config_header`.

**Fairness.** `CpuFairSpec` of `Uart` has weak fairness for the steps of a call in
progress: the hart runs, and nothing preempts it. `AcceptedIsTransmitted` is the only
property that asks for more and names it as its premise: weak fairness for the
transmitter (`TransmitterFair`), which a clocked UART without flow control has.
Starting a call and arrivals are never assumed. `FairSpec` of `Kernel`,
`StringFunctions` and `ModuleGraph` is weak fairness of the one sequential
program there is: the hart, or Make, runs. The other modules state no fairness
and no liveness: in `ConfigHeader` Make may be killed for ever.

## Theorems

Everything here holds for every value of the constants that the named
assumptions allow; every invariant and action property of a passing run is among it.
Liveness is out of the provers' reach, but not that the steps run out: see the end
of this section.

`ConsoleProofs` proves, for every set of consoles and every array size
(`ConsoleAssumption`: NULL is not a console and the array is not empty), the
invariants and action properties of run `console`, that the array implements
`ConsoleRegistry`, and two facts no run repeats: only its own deregistration
removes a console (`OnlyOwnCallRemoves`), and used-up slots stay used up
(`SlotsRunOutForGood`). Its inductive invariant `IInv` is the conjunction of the
four invariants; none is inductive alone. `WithoutClosedForm` needs distinct
entries to know where shifting starts and empty slots past the count to know
what it leaves; `ActiveIsRegistered` needs the shape of the array after a removal
(`RemovalKeepsShape`) and the driver callbacks need the active console to be a
console. `ArraySteps` says that a step appends, removes or leaves the array
alone, and carries the action properties. The refinement maps the set of
registered consoles to the entries in use other than NULL, and each call to the
abstract call of the same name.

`UartProofs` proves every invariant and action property of run `uart`, and that both
directions are `LossyLink`s, for every FIFO depth, call length and number of
characters (`UartAssumption`: a FIFO and a call hold at least one). `IInv` carries
what a call saw in LSR, the prefix it has accepted and its answer; it adds to these
that a running call is in its own loop with something left to do (`CallInProgress`)
and that its characters are numbered below `issued` (`Handed`): without these the
character of a write is not known to be part of the call. Steps that look
(`LookInv`), give up (`GiveUpInv`), read before writing (`DiscardInv`) or go round
the loop (`AdvanceInv`) share their argument. `AcceptedReachesWire` follows because
transmit stores into an empty transmitter and a shift removes only the head.
`InputAccounted` sees that what was delivered and what the receiver holds, one after
the other, is the input that was kept, in ascending numbers; `InputSteps` says that
a step delivers its head, throws it away, lets one arrive, or leaves it alone, and
`InputRefinesLink` maps each to a step of the link. `OutputOrdered` and
`OutputRefinesLink` do the same for the wire and the transmitter.

`PmmProofs` proves all three invariants of run `pmm` for every address width, page
size and end of the kernel (`PmmAssumption`: the page size divides the address
space, the kernel leaves a page of it). The cursor alone says nothing of pages
handed out before, so `IInv` gives each of them in closed form: page `n` is
`(start + (n - 1) * PAGE_SIZE) % WORD`. Usable pages then follow from the size of
the space above `start`, and two equal pages are a whole `WORD` apart (`ModEqual`).

`KernelProofs` proves all four invariants of run `kernel` for every layout, list of
drivers, page size and number of slots (`KernelAssumption`, `KernelFits`: the kernel
leaves a page of the address space; every driver has a console of its own). The
clearing loop tests for an inequality; that it ends *at* the end of the BSS needs
`Stepping`: the distance to go stays a multiple of the step, which `LayoutFacts`
derives from the linker script's alignment. `Untouched` and `MemoryIsOn` say which
static state may have been used at which point. The parts are reused as proved:
`RegistryIsRun` and `MemoryIsRun` show that the boot is a behaviour of `Console` and
of `Pmm`, so that the inductive invariants of `ConsoleProofs` and `PmmProofs`,
instantiated here, hold of it. `DevicesInOrder` adds what only the loops of main
know: which driver is in which slot while they run (`SlotContents`), and that the
first finaliser ends console output for good (`OutputEndsWithFirstFinaliser`).

`StdioProofs` proves all four invariants of run `stdio` for every format, argument,
buffer size and width of int. `IInv` carries `BufferContents` and `StreamIsPrefix`; it
adds that `length`, which decides whether a character fits, is the length of the
whole text (`Counted`), that `capacity` is the one of the call (`Opened`), and what
the buffer holds *before* the terminator (`Written`); all printing goes through one
lemma, `PrintChrKeeps`. `Meaningful`, its second half, follows the meaning: the
directives left are the last of the format (`Suffix`), flags, prefix and rest belong
to the directive in progress and to no other (`Clean`, `InDigits`), and the digits
made so far are the last of the argument's numeral, each the digit of its place value
(`Digits`). `AllDigits` then says that the loop stops with the first digit of the
reference numeral, which has no digit loop. `StdioAssumption` bounds the arguments
by what 46 octal digits can say, which every `uintmax_t` of 64 or 128 bits meets;
`DigitsFit` needs it, and so does `Width`.

`StringProofs` proves `ContractKept` for every size and content of memory, and
`MemcpyNeverReturns`: what run `memcpy` shows for one call is so for all that copy
something. `IInv` has one part per loop. What is needed beyond the
properties ties the pointer to the count: for memset that `n` bytes remain, for
strlen that a NUL lies ahead, for memcpy that both pointers have moved equally
far and that nothing outside the part already passed has changed, so that the
source, being disjoint, still holds what it held.

`ModuleGraphProofs` proves the type invariant, `LinesRunUnderTheirName` and
`EveryModuleOnce` for every project that `ModuleAssumption` allows. The core of it is
that the stacks mirror the work left (`Nested`): the entries that restore a name cut
`work` into stretches, and each stretch is under the name at its level of the stack
(`Mirrors`, with one lemma for each way a step changes it: `MirrorStay`, `MirrorEnter`,
`MirrorLeave`, `MirrorStart`). That the running name is the owner of the next entry
is then a corollary. For `EveryModuleOnce`, the invariant `Once` adds that
each generated module has its rules or a "define" to come (`Defining`), that only
reachable modules are wanted and no use is forgotten (`Reaching`), that the list of
modules is looked at again after everything else (`Looping`), and the same for
submodules, whose queue is per makefile (`Parting`). What is reachable is a least
set, so nothing here needs a measure. The proof made three conditions on makefiles
explicit, which `ModuleAssumption` states and the repository meets: a submodule's
makefile generates no module; a makefile generates its modules before it lists a
submodule; and names of submodules are not paths.

`KernelConfigured` is `ConfiguredBeforeKernel` for every project whose makefiles lead
to the kernel's as the repository's do (`KernelAssumption`: product, board, platform
and arch each alone queue the next; arch queues the kernel; whoever queues the
emulator is generated by platform alone; only the emulator generates the kernel; arch
sorts before emulator). Whatever else the makefiles contain does not matter.
`Configuring` says where each entry comes from (`Sourced`, `Named`), that the queue is
taken up only when no makefile runs (`Rounds`), and hence that a module which is only
ever queued starts when a makefile that queues it is done (`AfterUser`). So product,
board, platform and arch are done one before the other. The emulator could start
together with arch, but comes behind it in the sorted list (`EmulatorLate`;
`FilterOrder` and `AgainOrder` carry the order through the recursive lists).
`KernelLate` follows for both ways to the kernel. The nested generation of product in
`kernel/module.mk` plays no part in the argument.

`ConfigProofs` proves both properties of run `config_header` for every table of
settings, every history of changes, kills and failures, and any number of sources.
No part of `IInv` is inductive alone. `Listing`: the list holds settings of the list
in use, those before every other. `Passing`: a run whose script has not failed
carries the settings asked for from the object header, which is newer, to the header
in use. `Fresh`: an object not older than the header in use was compiled with it,
which a kill between two objects keeps. `Remembered`: the header of the last build
stays what it was until a deployment changes it. Time stamps are compared with the
clock by `TypeOK`, so that what is written next is the newest. `ParseIsWanted` is why
neither order nor duplicates matter: what the script reads from the sorted list
is what the set of settings asks for, the first line of each key deciding.

It also proves both properties of run `riscv_config`, for every set of arguments with
specifications of any length. `ScriptInv` says at every token where the parser is: the
text left is the rest of the input (`Suffix`), the symbols read may begin a well-formed
specification (`GoodTo`), the running section holds exactly the names behind the
highest rank read (`Passed`), and the set found is what the symbols read mean
(`MeantTo`, inside `InSectionInv`). When the text ends this is `WellFormed` and
`Meant` (`Through`). A refusal must be of something impossible (`Refused`): `NextName`
says what a well-formed text has next and `NameIsAhead` that the section still holds
it, so that the parser refuses no name it should take. `MeantIsClosure` is why two
rounds of implications are enough: they reach the least closed set. The report is
built up rank by rank (`Built`), and `FormatReadsBack` says that it is well formed and
means the set it was printed from, which uses that this set holds I and is closed under
implication (`Specifiable`).

Induction. The library's induction theorems take an operator as a parameter, which
the installed provers cannot instantiate. `ModuleGraphProofs`, `ConfigProofs`
and `StdioProofs` get by with `LeastElement`, from `WFMin`, which speaks of sets: a
counterexample has a least one. That is enough for the recursive *functions* of
`Stdio` (`MeaningOf`, `StoredBy`, `PlaceValue`), of `ModuleGraph` (`Filter`) and of
`RiscvConfig` (`Chosen`, unfolded by `Recursion`).

Running out. What keeps calls, the boot and the build from going on for ever is a
number that steps lower, and that is a safety property. Theorems prove it for every
value of the constants:

| theorem | what decreases | liveness property it is the core of |
|---|---|---|
| `UartProofs!CallsRunOut` | accesses left, at most three per character; no access waits for the UART | `CallsReturn` |
| `StringProofs!CallsRunOut` | bytes left, from `SIZE + 3`, memcpy included; `EndsAsItMust` says in what a call ends | `CallsEnd` |
| `KernelProofs!BootRunsOut` | bytes of the BSS, drivers and twelve steps; `HaltIsReported` says what is printed and switched off by then | `EndsInHalt` |
| `ModuleGraphProofs!GenerationRunsOut` | entries of `work` by weight, and what is queued, unless something is generated for the first time | `GenerationEnds` |

The last measure starts again when something is generated, at most once per module and
submodule: a project has finitely many makefiles, and Make stops at a missing one.
`AcceptedIsTransmitted` has no such measure; there it is the UART that must go on.

Only model-checked: all liveness, `CallsReturn`, `AcceptedIsTransmitted`,
`CallsEnd`, `EndsInHalt`, `GenerationEnds`. Fairness and ENABLED are out of the
provers' reach, so that nothing beyond the measures above is proved of them.

## Not modelled

* Formatted output with a NULL string for `%s`, and memcpy's endless loop as the
  undefined behaviour it is to a compiler; the models run the code as written.
* Capital and small letters in the RISC-V script: it takes the ABI and the MMU in
  either case and prints the `-march` flag in small letters. A name in the model
  stands for all its spellings, and `ReportReadsBack` is about the capital ones.
* A NULL string for the console's write, which fails the assertion in strlen before
  it gets to transmit_buffer (`AssertFails` of `StringFunctions`).
* Lines of the list that are no settings, which the header generator skips with a
  message: Make writes none.
* The UART's error bits and line settings (no code reads or writes them) and the
  characters of debug messages, which are the debug calls of `Uart`.
* `get_dram_size` (no caller) and where DRAM ends, which nothing in the kernel knows.
* Release builds, in which `assert` is empty.
* The global pointer and the sections other than the BSS; the `#error` of
  `memory.h` for unsupported paging; the literals and mnemonics of `types.h` and
  `assembler.h`, which the preprocessor replaces.
* The texts of the templates and recipes, and the dependence of the header on its
  template. `kernel/module.mk:47` compares a literal, so its error never fires.
* Files with equal time stamps: every write gets a later one.
* What Make and the toolchain do with the declarations of the other `.mk` files.
  Board, platform and product set data; their order is part of `ModuleGraph`.

## Plan

The modules and proofs that were planned are done. What would come next:

1. Refinements of the composed kernel that follow from `RegistryIsRun`, such as the
   kernel being a run of `ConsoleRegistry`.
2. Lemmas repeated in several proof modules (`LeastElement`, quotients) in one place.
3. A model of several harts or of interrupts, once the kernel starts one or enables them.
