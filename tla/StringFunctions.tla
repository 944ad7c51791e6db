-------------------------- MODULE StringFunctions --------------------------
(***************************************************************************)
(* strlen, memcpy and memset (src/kernel/lib/string.c): one call, one byte *)
(* of memory per step.  The build is the default one, in which assert      *)
(* panics.  Callers keep the contract of the C library: a string is        *)
(* terminated, an object of n bytes exists, copied objects are disjoint.   *)
(***************************************************************************)
EXTENDS Integers

CONSTANTS
    SIZE,     \* the addresses 1 .. SIZE are memory, 0 is NULL
    Bytes,    \* what the bytes of memory may hold before the call
    Fills     \* the ints callers pass to memset

ASSUME StringAssumption ==
    /\ SIZE \in Nat
    /\ Bytes \subseteq 0 .. 255
    /\ Fills \subseteq Int

VARIABLES
    call,     \* the function called and its arguments
    before,   \* history: memory at the call
    memory,
    pc,       \* entry, loop, done, panic, fault (an access past the memory)
    p1, p2,   \* the pointers that move (s of strlen, p of memset are p1)
    n,        \* strlen's count, or what memcpy and memset have still to do
    answer

vars == <<call, before, memory, pc, p1, p2, n, answer>>

Addresses == 1 .. SIZE
Pointers == 0 .. SIZE
Exists(s, size) == s # 0 /\ s + size <= SIZE + 1
Disjoint(s, t, size) == s + size <= t \/ t + size <= s

StrlenCalls ==
    {c \in [fn : {"strlen"}, s1 : Pointers, s2 : {0}, c : {0}, n : {0}] :
        c.s1 = 0 \/ \E k \in c.s1 .. SIZE : before[k] = 0}

MemsetCalls ==
    {c \in [fn : {"memset"}, s1 : Pointers, s2 : {0}, c : Fills, n : 0 .. SIZE] :
        c.s1 = 0 \/ Exists(c.s1, c.n)}

MemcpyCalls ==
    {c \in [fn : {"memcpy"}, s1 : Pointers, s2 : Pointers, c : {0}, n : 0 .. SIZE] :
        \/ c.s1 = 0 \/ c.s2 = 0
        \/ /\ Exists(c.s1, c.n) /\ Exists(c.s2, c.n)
           /\ Disjoint(c.s1, c.s2, c.n)}

Init ==
    /\ before \in [Addresses -> Bytes]
    /\ memory = before
    /\ call \in StrlenCalls \cup MemsetCalls \cup MemcpyCalls
    /\ pc = "entry"
    /\ p1 = 0 /\ p2 = 0 /\ n = 0 /\ answer = 0

-----------------------------------------------------------------------------
Stop(how) == pc' = how /\ UNCHANGED <<call, before, memory, p1, p2, n, answer>>

Return(value) ==
    /\ pc' = "done"
    /\ answer' = value
    /\ UNCHANGED <<call, before, memory, p1, p2, n>>

\* The assertions at the head of each function.
MayProceed == call.s1 # 0 /\ (call.fn = "memcpy" => call.s2 # 0)

Enter ==
    /\ pc = "entry" /\ MayProceed
    /\ pc' = "loop"
    /\ p1' = call.s1 /\ p2' = call.s2 /\ n' = call.n
    /\ UNCHANGED <<call, before, memory, answer>>

AssertFails == pc = "entry" /\ ~MayProceed /\ Stop("panic")

Strlen ==
    /\ pc = "loop" /\ call.fn = "strlen"
    /\ \/ p1 \notin Addresses /\ Stop("fault")
       \/ /\ p1 \in Addresses /\ memory[p1] # 0
          /\ p1' = p1 + 1 /\ n' = n + 1
          /\ UNCHANGED <<call, before, memory, pc, p2, answer>>
       \/ p1 \in Addresses /\ memory[p1] = 0 /\ Return(n)

\* The loop moves both pointers and leaves n alone.
Memcpy ==
    /\ pc = "loop" /\ call.fn = "memcpy"
    /\ \/ n = 0 /\ Return(call.s1)
       \/ n > 0 /\ ~(p1 \in Addresses /\ p2 \in Addresses) /\ Stop("fault")
       \/ /\ n > 0 /\ p1 \in Addresses /\ p2 \in Addresses
          /\ memory' = [memory EXCEPT ![p1] = memory[p2]]
          /\ p1' = p1 + 1 /\ p2' = p2 + 1
          /\ UNCHANGED <<call, before, pc, n, answer>>

\* Plausible mistakes: one byte too few; n is not counted down.
MemsetOneShort ==
    /\ pc = "loop" /\ call.fn = "memset"
    /\ \/ n <= 1 /\ Return(call.s1)
       \/ n > 1 /\ p1 \notin Addresses /\ Stop("fault")
       \/ /\ n > 1 /\ p1 \in Addresses
          /\ memory' = [memory EXCEPT ![p1] = call.c % 256]
          /\ p1' = p1 + 1 /\ n' = n - 1
          /\ UNCHANGED <<call, before, pc, p2, answer>>

MemsetNotCounting ==
    /\ pc = "loop" /\ call.fn = "memset"
    /\ \/ n = 0 /\ Return(call.s1)
       \/ n > 0 /\ p1 \notin Addresses /\ Stop("fault")
       \/ /\ n > 0 /\ p1 \in Addresses
          /\ memory' = [memory EXCEPT ![p1] = call.c % 256]
          /\ p1' = p1 + 1
          /\ UNCHANGED <<call, before, pc, n, p2, answer>>

Memset ==
    /\ pc = "loop" /\ call.fn = "memset"
    /\ \/ n = 0 /\ Return(call.s1)
       \/ n > 0 /\ p1 \notin Addresses /\ Stop("fault")
       \/ /\ n > 0 /\ p1 \in Addresses
          /\ memory' = [memory EXCEPT ![p1] = call.c % 256]
          /\ p1' = p1 + 1 /\ n' = n - 1
          /\ UNCHANGED <<call, before, pc, p2, answer>>

Next == Enter \/ AssertFails \/ Strlen \/ Memcpy \/ Memset

Spec == Init /\ [][Next]_vars

\* The hart runs: a call in progress goes on.
FairSpec == Spec /\ WF_vars(Next)

-----------------------------------------------------------------------------
TypeOK ==
    /\ before \in [Addresses -> Bytes]
    /\ memory \in [Addresses -> 0 .. 255]
    /\ call \in StrlenCalls \cup MemsetCalls \cup MemcpyCalls
    /\ pc \in {"entry", "loop", "done", "panic", "fault"}
    /\ p1 \in 0 .. SIZE + 1 /\ p2 \in 0 .. SIZE + 1
    /\ n \in 0 .. SIZE
    /\ answer \in 0 .. SIZE

StrlenFindsFirstNul ==
    call.fn = "strlen" =>
        /\ memory = before
        /\ pc = "done" =>
            /\ before[call.s1 + answer] = 0
            /\ \A k \in call.s1 .. call.s1 + answer - 1 : before[k] # 0

MemsetFillsItsObject ==
    call.fn = "memset" =>
        /\ memory = [k \in Addresses |-> IF call.s1 <= k /\ k < p1 THEN call.c % 256
                                         ELSE before[k]]
        /\ p1 <= call.s1 + call.n
        /\ pc = "done" => p1 = call.s1 + call.n /\ answer = call.s1

MemcpyCopiesItsObject ==
    call.fn = "memcpy" =>
        /\ p1 <= call.s1 + call.n =>
            memory = [k \in Addresses |-> IF call.s1 <= k /\ k < p1
                                          THEN before[call.s2 + (k - call.s1)] ELSE before[k]]
        /\ pc = "done" => p1 = call.s1 + call.n /\ answer = call.s1

\* What the functions promise: strlen answers the distance to the first NUL and
\* changes nothing; at every step of memset exactly the bytes before p hold c as
\* a byte, p stays inside the object and is at its end when the call returns; up to
\* the end of its object, memcpy has copied exactly the bytes before p1.
ContractKept == TypeOK /\ StrlenFindsFirstNul /\ MemsetFillsItsObject /\ MemcpyCopiesItsObject

\* memcpy touches n bytes of each object: it leaves every byte outside the one it
\* copies to as it was and does not run out of memory.  Not so in the code.
MemcpyStaysInside ==
    call.fn = "memcpy" =>
        /\ pc # "fault"
        /\ \A k \in Addresses \ (call.s1 .. call.s1 + call.n - 1) : memory[k] = before[k]

\* The calls that MemcpyStaysInside is about.
CopiesSomething == MayProceed /\ call.fn = "memcpy" /\ call.n > 0

\* A call ends, with a NULL pointer in a panic and otherwise in a return: every one
\* but memcpy of something, which breaks its contract first.
CallsEnd == ~CopiesSomething => <>(pc = IF MayProceed THEN "done" ELSE "panic")
=============================================================================
