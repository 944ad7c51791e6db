------------------------------ MODULE Console ------------------------------
(***************************************************************************)
(* The kernel's console registry (src/kernel/console.c): a fixed array of  *)
(* pointers to consoles, the count of slots ever handed out, the console   *)
(* that is switched on, and the callbacks the registry makes into the      *)
(* console drivers.                                                        *)
(*                                                                         *)
(* The kernel runs on one hart and takes no interrupts, so every call runs *)
(* to completion before the next one starts: one call is one action.  The  *)
(* order of the calls is arbitrary.                                        *)
(***************************************************************************)
EXTENDS Naturals, Integers

CONSTANTS
    Consoles,       \* the Console objects that drivers own
    NULL,           \* the null pointer
    MAX_CONSOLES    \* the size of the array (8 in the code)

ASSUME ConsoleAssumption ==
    /\ NULL \notin Consoles
    /\ MAX_CONSOLES \in Nat \ {0}

VARIABLES
    consoles,        \* _consoles: slot -> console or NULL
    console_count,   \* _console_count
    active_console,  \* _active_console
    activations,     \* per driver: activate() calls minus deactivate() calls
    call             \* the last call: its name, its console and its answer

vars == <<consoles, console_count, active_console, activations, call>>

Slots == 0 .. MAX_CONSOLES - 1
Pointers == Consoles \cup {NULL}
InUse == 0 .. console_count - 1

RegistryOps == {"register", "deregister", "activate", "deactivate"}
IOOps == {"read", "write", "put"}
Calls == [op : RegistryOps \cup IOOps \cup {"none"}, console : Pointers, ok : BOOLEAN]

Answer(op, c, ok) == call' = [op |-> op, console |-> c, ok |-> ok]

(***************************************************************************)
(* The state after the kernel's BSS section has been cleared.              *)
(***************************************************************************)
Init ==
    /\ consoles = [i \in Slots |-> NULL]
    /\ console_count = 0
    /\ active_console = NULL
    /\ activations = [c \in Consoles |-> 0]
    /\ call = [op |-> "none", console |-> NULL, ok |-> FALSE]

-----------------------------------------------------------------------------
IsRegistered(c) == c # NULL /\ \E i \in InUse : consoles[i] = c

\* The consoles a walk over get_console(0 .. get_console_count() - 1) finds.
Registered == {consoles[i] : i \in InUse} \ {NULL}

-----------------------------------------------------------------------------
(***************************************************************************)
(* Switching drivers: the console that is on, if any, gets its deactivate  *)
(* callback before the new one gets its activate callback.                 *)
(***************************************************************************)
SwitchedOff ==
    IF active_console = NULL
    THEN activations
    ELSE [activations EXCEPT ![active_console] = @ - 1]

\* A plausible mistake: the old console is never told to stop.
SwitchOnLeavingOld(c) ==
    /\ active_console' = c
    /\ activations' = [activations EXCEPT ![c] = @ + 1]

SwitchOn(c) ==
    /\ active_console' = c
    /\ activations' = [SwitchedOff EXCEPT ![c] = @ + 1]

SwitchOff ==
    /\ active_console' = NULL
    /\ activations' = SwitchedOff

-----------------------------------------------------------------------------
\* A plausible mistake: a bound check that lets the count run past the array.
MayRegisterOnePast(c) == c # NULL /\ console_count <= MAX_CONSOLES /\ ~IsRegistered(c)

MayRegister(c) == c # NULL /\ console_count < MAX_CONSOLES /\ ~IsRegistered(c)

\* A console enters the next slot; only the first one ever is switched on.
RegisterConsole(c) ==
    \/ /\ MayRegister(c)
       /\ consoles' = [consoles EXCEPT ![console_count] = c]
       /\ console_count' = console_count + 1
       /\ IF console_count' = 1
          THEN SwitchOn(c)
          ELSE UNCHANGED <<active_console, activations>>
       /\ Answer("register", c, TRUE)
    \/ /\ ~MayRegister(c)
       /\ Answer("register", c, FALSE)
       /\ UNCHANGED <<consoles, console_count, active_console, activations>>

\* Slot i is at or past the slot that holds c.
AtOrPast(c, i) == i \in InUse /\ \E j \in 0 .. i : consoles[j] = c

\* Plausible mistakes: the last slot keeps its old entry; the gap is filled
\* with the last entry.
WithoutKeepingTail(c) ==
    [i \in Slots |-> IF AtOrPast(c, i) /\ i + 1 < console_count
                     THEN consoles[i + 1] ELSE consoles[i]]

WithoutFilledByLast(c) ==
    [i \in Slots |-> IF consoles[i] = c /\ i + 1 < console_count
                     THEN consoles[console_count - 1]
                     ELSE IF i + 1 = console_count THEN NULL ELSE consoles[i]]

\* The array after the loop of deregister_console: from the slot that holds c
\* on, every slot takes its successor's entry and the last one in use is
\* emptied.
Without(c) ==
    [i \in Slots |-> IF ~AtOrPast(c, i) THEN consoles[i]
                     ELSE IF i + 1 < console_count THEN consoles[i + 1]
                     ELSE NULL]

RefuseToDeregister(c) ==
    /\ ~IsRegistered(c)
    /\ Answer("deregister", c, FALSE)
    /\ UNCHANGED <<consoles, console_count, active_console, activations>>

\* Plausible mistakes: the active console stays on; only the console that
\* leaves is switched off.
DeregisterKeepingActive(c) ==
    \/ /\ IsRegistered(c)
       /\ consoles' = Without(c)
       /\ Answer("deregister", c, TRUE)
       /\ UNCHANGED <<console_count, active_console, activations>>
    \/ RefuseToDeregister(c)

DeregisterSwitchingOffItself(c) ==
    \/ /\ IsRegistered(c)
       /\ consoles' = Without(c)
       /\ IF active_console = c
          THEN SwitchOff
          ELSE UNCHANGED <<active_console, activations>>
       /\ Answer("deregister", c, TRUE)
       /\ UNCHANGED console_count
    \/ RefuseToDeregister(c)

\* Removing any console switches the active console off, whichever it is, and
\* console_count keeps counting the slot.
DeregisterConsole(c) ==
    \/ /\ IsRegistered(c)
       /\ consoles' = Without(c)
       /\ SwitchOff
       /\ Answer("deregister", c, TRUE)
       /\ UNCHANGED console_count
    \/ RefuseToDeregister(c)

ActivateConsole(c) ==
    /\ UNCHANGED <<consoles, console_count>>
    /\ \/ /\ IsRegistered(c)
          /\ SwitchOn(c)
          /\ Answer("activate", c, TRUE)
       \/ /\ ~IsRegistered(c)
          /\ Answer("activate", c, FALSE)
          /\ UNCHANGED <<active_console, activations>>

DeactivateConsole ==
    /\ SwitchOff
    /\ Answer("deactivate", NULL, active_console # NULL)
    /\ UNCHANGED <<consoles, console_count>>

\* read_from_console, write_to_console and put_to_console: the driver of the
\* active console serves the call, or the call answers 0.
UseConsole(op) ==
    /\ Answer(op, active_console, active_console # NULL)
    /\ UNCHANGED <<consoles, console_count, active_console, activations>>

Next ==
    \/ \E c \in Pointers : \/ RegisterConsole(c)
                           \/ DeregisterConsole(c)
                           \/ ActivateConsole(c)
    \/ DeactivateConsole
    \/ \E op \in IOOps : UseConsole(op)

Spec == Init /\ [][Next]_vars

-----------------------------------------------------------------------------
TypeOK ==
    /\ consoles \in [Slots -> Pointers]
    /\ console_count \in 0 .. MAX_CONSOLES
    /\ active_console \in Pointers
    /\ activations \in [Consoles -> Int]
    /\ call \in Calls

\* No console holds two slots, and no slot past the count holds one.  Shifting
\* without emptying the last slot would leave a console behind twice, and a
\* second deregister_console would then not remove it.
RegistryWellFormed ==
    /\ \A i, j \in Slots : consoles[i] = consoles[j] /\ consoles[i] # NULL => i = j
    /\ \A i \in Slots \ InUse : consoles[i] = NULL

\* read, write and put dispatch through _active_console without a check: it
\* must never point to a console that its driver has already taken back.
ActiveIsRegistered == active_console # NULL => IsRegistered(active_console)

\* However registering, switching and deregistering alternate, exactly the
\* driver of the active console has been told to start and not yet to stop.
DriversFollowActive ==
    activations = [c \in Consoles |-> IF c = active_console THEN 1 ELSE 0]

\* Walking get_console(0), get_console(1), ... meets a before b.
Before(a, b) ==
    \E i, j \in InUse : i < j /\ consoles[i] = a /\ consoles[j] = b

\* Whoever leaves, the consoles that stay keep their relative order.
OrderStable ==
    [][\A a, b \in Consoles :
        Before(a, b) /\ IsRegistered(a)' /\ IsRegistered(b)' => Before(a, b)']_vars

\* A console leaves the registry only by a deregister_console of its own:
\* deregistering another one shifts it but never drops it.
LeavesOnlyByOwnCall ==
    [][\A c \in Consoles :
        IsRegistered(c) /\ ~IsRegistered(c)' =>
            call'.op = "deregister" /\ call'.console = c]_vars

\* Slots are never handed out again: once MAX_CONSOLES registrations have
\* succeeded, no console ever enters the registry, however many have left.
ExhaustionIsPermanent ==
    [][console_count = MAX_CONSOLES =>
        /\ console_count' = MAX_CONSOLES
        /\ Registered' \subseteq Registered]_vars

-----------------------------------------------------------------------------
(***************************************************************************)
(* What the registry promises, without the array: see ConsoleRegistry.     *)
(***************************************************************************)
Registry == INSTANCE ConsoleRegistry WITH
    registered <- Registered, registrations <- console_count,
    active <- active_console

RefinesRegistry == Registry!Spec
=============================================================================
