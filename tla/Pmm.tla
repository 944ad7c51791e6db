-------------------------------- MODULE Pmm --------------------------------
(***************************************************************************)
(* The physical memory manager (src/kernel/pmm.c): a cursor that starts at *)
(* the first page past the kernel and moves up a page per allocation.      *)
(* Addresses are unsigned XLEN-bit integers and wrap around.               *)
(*                                                                         *)
(* Its callers run on one hart without interrupts: one call is one action. *)
(* The build is the default one, in which assert panics.                   *)
(***************************************************************************)
EXTENDS Integers, Sequences

CONSTANTS
    WORD,         \* 2^XLEN, the number of addresses
    PAGE_SIZE,
    Ends,         \* where the linker may have put __end
    MaxCount,     \* bound: pages of one request
    MaxPages      \* bound: pages ever requested

ASSUME PmmAssumption ==
    /\ WORD \in Nat /\ PAGE_SIZE \in Nat \ {0, 1}
    /\ WORD % PAGE_SIZE = 0
    /\ Ends \subseteq 1 .. WORD - PAGE_SIZE
    /\ MaxCount \in Nat /\ MaxPages \in Nat

VARIABLES
    end,          \* &__end
    start,        \* _start
    next,         \* _next
    state,        \* "off" before initialize_pmm, "on" after, "halted" by panic
    handed,       \* the pages handed out, in order
    freed,        \* the pages given back
    answer        \* the last allocation's returned value

vars == <<end, start, next, state, handed, freed, answer>>

Pages == {handed[n] : n \in DOMAIN handed}

Init ==
    /\ end \in Ends
    /\ start = 0 /\ next = 0
    /\ state = "off"
    /\ handed = <<>> /\ freed = {} /\ answer = 0

-----------------------------------------------------------------------------
RoundPageDown(x) == (x \div PAGE_SIZE) * PAGE_SIZE

RoundPageUp(x) == RoundPageDown((x + (PAGE_SIZE - 1)) % WORD)

\* A plausible mistake: the page that holds the kernel's end counts as free.
InitializePmmUnrounded ==
    /\ state = "off"
    /\ start' = RoundPageDown(end)
    /\ next' = start'
    /\ state' = "on"
    /\ UNCHANGED <<end, handed, freed, answer>>

\* _start calls initialize_pmm once, before main and before any allocation.
InitializePmm ==
    /\ state = "off"
    /\ start' = RoundPageUp(end)
    /\ next' = start'
    /\ state' = "on"
    /\ UNCHANGED <<end, handed, freed, answer>>

\* The addresses that the loop of allocate_physical_pages stores.
AddressesFrom(first, count) ==
    [i \in 1 .. count |-> (first + (i - 1) * PAGE_SIZE) % WORD]

\* A plausible mistake: the cursor is wider than an address.
AllocateWithoutWrapping(count) ==
    /\ state = "on"
    /\ Len(handed) + count <= MaxPages
    /\ handed' = handed \o AddressesFrom(next, count)
    /\ next' = next + count * PAGE_SIZE
    /\ answer' = count
    /\ UNCHANGED <<end, start, state, freed>>

\* allocate_physical_pages; allocate_physical_page is the case count = 1.
AllocatePages(count) ==
    /\ state = "on"
    /\ Len(handed) + count <= MaxPages
    /\ handed' = handed \o AddressesFrom(next, count)
    /\ next' = (next + count * PAGE_SIZE) % WORD
    /\ answer' = count
    /\ UNCHANGED <<end, start, state, freed>>

\* A plausible mistake: a freed page is handed out again.
FreeRewinding(p) ==
    /\ state = "on"
    /\ freed' = freed \cup {p}
    /\ next' = p
    /\ UNCHANGED <<end, start, state, handed, answer>>

\* free_physical_page, and free_physical_pages page by page: the allocator
\* remembers nothing of it.  Freeing a page twice goes unnoticed.
FreePage(p) ==
    /\ state = "on"
    /\ freed' = freed \cup {p}
    /\ UNCHANGED <<end, start, next, state, handed, answer>>

\* assert(addrs != NULL), in either function and for any count.
PanicOnNull ==
    /\ state = "on"
    /\ state' = "halted"
    /\ UNCHANGED <<end, start, next, handed, freed, answer>>

Next ==
    \/ InitializePmm
    \/ \E count \in 0 .. MaxCount : AllocatePages(count)
    \/ \E p \in Pages : FreePage(p)
    \/ PanicOnNull

Spec == Init /\ [][Next]_vars

-----------------------------------------------------------------------------
Addresses == 0 .. WORD - 1

TypeOK ==
    /\ end \in Ends /\ start \in Addresses /\ next \in Addresses
    /\ state \in {"off", "on", "halted"}
    /\ handed \in Seq(Addresses) /\ freed \subseteq Pages
    /\ answer \in 0 .. MaxCount

\* How many pages there are from the first one past the kernel to the end of
\* the address space.
PagesAbove == (WORD - start) \div PAGE_SIZE

\* Until the address space is used up, every page handed out is a whole page,
\* lies past the kernel's image and is not 0, the value by which
\* allocate_physical_page says that it failed.
PagesAreUsable ==
    Len(handed) <= PagesAbove =>
        \A p \in Pages : p % PAGE_SIZE = 0 /\ p >= end /\ p # 0

\* No two callers ever share a page, and a freed page does not come back,
\* until a full turn of the cursor through the address space.
NeverTwice ==
    \A m, n \in DOMAIN handed :
        m < n /\ handed[m] = handed[n] => n - m >= WORD \div PAGE_SIZE
=============================================================================
