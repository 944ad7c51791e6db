---------------------------- MODULE StringProofs ----------------------------
(***************************************************************************)
(* Theorems about strlen, memset and memcpy, for every size and content of *)
(* memory and every int passed to memset.                                  *)
(***************************************************************************)
EXTENDS StringFunctions, TLAPS

Entered == pc \in {"loop", "done", "fault"}

BeforeTheLoop ==
    /\ ~Entered => memory = before /\ p1 = 0 /\ p2 = 0 /\ n = 0 /\ answer = 0
    /\ Entered => MayProceed
    /\ pc = "panic" => ~MayProceed

(***************************************************************************)
(* What each loop maintains.  The properties speak of the pointer p1 and   *)
(* of the answer; what ties them to the object is the count n.             *)
(***************************************************************************)
StrlenLoop ==
    call.fn = "strlen" =>
        /\ memory = before
        /\ pc # "fault"
        /\ Entered =>
            /\ p1 = call.s1 + n
            /\ \A k \in call.s1 .. p1 - 1 : before[k] # 0
            /\ \E k \in p1 .. SIZE : before[k] = 0
        /\ pc = "done" => answer = n /\ before[p1] = 0

MemsetLoop ==
    call.fn = "memset" =>
        /\ pc # "fault"
        /\ Entered =>
            /\ n <= call.n
            /\ p1 = call.s1 + (call.n - n)
            /\ \A k \in Addresses :
                memory[k] = IF call.s1 <= k /\ k < p1 THEN call.c % 256 ELSE before[k]
        /\ pc = "done" => n = 0 /\ answer = call.s1

MemcpyLoop ==
    call.fn = "memcpy" =>
        /\ Entered =>
            /\ n = call.n /\ p1 >= call.s1
            /\ p2 = call.s2 + (p1 - call.s1)
            /\ n = 0 => p1 = call.s1
            /\ \A k \in Addresses : ~(call.s1 <= k /\ k < p1) => memory[k] = before[k]
            /\ \A j \in 0 .. call.n - 1 :
                call.s1 + j < p1 => memory[call.s1 + j] = before[call.s2 + j]
        /\ pc = "done" => n = 0 /\ answer = call.s1
        /\ pc = "fault" => n > 0

IInv == TypeOK /\ BeforeTheLoop /\ StrlenLoop /\ MemsetLoop /\ MemcpyLoop
-----------------------------------------------------------------------------
\* What a call in progress may assume about its arguments.
LEMMA CallFacts ==
    ASSUME call \in StrlenCalls \cup MemsetCalls \cup MemcpyCalls
    PROVE  /\ SIZE \in Nat
           /\ call.fn \in {"strlen", "memset", "memcpy"}
           /\ call.s1 \in 0 .. SIZE /\ call.s2 \in 0 .. SIZE /\ call.n \in 0 .. SIZE
           /\ call.c \in Int
           /\ call.fn = "strlen" /\ call.s1 # 0 =>
                \E k \in call.s1 .. SIZE : before[k] = 0
           /\ call.fn = "strlen" => call.n = 0
           /\ call.fn = "memset" /\ call.s1 # 0 => call.s1 + call.n <= SIZE + 1
           /\ call.fn = "memcpy" /\ call.s1 # 0 /\ call.s2 # 0 =>
                /\ call.s1 + call.n <= SIZE + 1 /\ call.s2 + call.n <= SIZE + 1
                /\ \/ call.s1 + call.n <= call.s2
                   \/ call.s2 + call.n <= call.s1
<1>1. CASE call \in StrlenCalls
  BY <1>1, StringAssumption DEF StrlenCalls, Pointers
<1>2. CASE call \in MemsetCalls
  <2>1. call \in [fn : {"memset"}, s1 : Pointers, s2 : {0}, c : Fills, n : 0 .. SIZE]
        /\ (call.s1 = 0 \/ Exists(call.s1, call.n))
    BY <1>2 DEF MemsetCalls
  <2>2. /\ call.fn = "memset" /\ call.s1 \in 0 .. SIZE /\ call.s2 = 0
        /\ call.c \in Int /\ call.n \in 0 .. SIZE
    BY <2>1, StringAssumption DEF Pointers
  <2> QED BY <2>1, <2>2, StringAssumption DEF Exists
<1>3. CASE call \in MemcpyCalls
  <2>1. call \in [fn : {"memcpy"}, s1 : Pointers, s2 : Pointers, c : {0}, n : 0 .. SIZE]
        /\ (\/ call.s1 = 0 \/ call.s2 = 0
           \/ /\ Exists(call.s1, call.n) /\ Exists(call.s2, call.n)
              /\ Disjoint(call.s1, call.s2, call.n))
    BY <1>3 DEF MemcpyCalls
  <2>2. /\ call.fn = "memcpy" /\ call.s1 \in 0 .. SIZE /\ call.s2 \in 0 .. SIZE
        /\ call.c = 0 /\ call.n \in 0 .. SIZE
    BY <2>1 DEF Pointers
  <2> QED BY <2>1, <2>2, StringAssumption DEF Exists, Disjoint
<1> QED BY <1>1, <1>2, <1>3

\* What callers keep to depends on the call and on memory at the call only.
LEMMA SameCall ==
    ASSUME call' = call, before' = before,
           call \in StrlenCalls \cup MemsetCalls \cup MemcpyCalls
    PROVE  call' \in (StrlenCalls \cup MemsetCalls \cup MemcpyCalls)'
BY DEF StrlenCalls, MemsetCalls, MemcpyCalls

LEMMA InitIInv == Init => IInv
<1> SUFFICES ASSUME Init PROVE IInv
  OBVIOUS
<1>1. TypeOK
  <2>1. memory \in [Addresses -> 0 .. 255] /\ 0 \in 0 .. SIZE /\ 0 \in 0 .. SIZE + 1
    <3>1. \A f \in [Addresses -> Bytes] : f \in [Addresses -> 0 .. 255]
      BY StringAssumption
    <3>2. memory \in [Addresses -> 0 .. 255]
      BY <3>1 DEF Init
    <3> QED BY <3>2, StringAssumption
  <2> QED BY <2>1 DEF Init, TypeOK
<1> QED BY <1>1 DEF Init, IInv, BeforeTheLoop, StrlenLoop, MemsetLoop, MemcpyLoop,
                    Entered

LEMMA EnterKeeps == IInv /\ Enter => IInv'
<1> SUFFICES ASSUME IInv, Enter PROVE IInv'
  OBVIOUS
<1>1. /\ pc = "entry" /\ pc' = "loop" /\ MayProceed /\ call' = call
      /\ before' = before /\ memory' = memory /\ answer' = answer
      /\ p1' = call.s1 /\ p2' = call.s2 /\ n' = call.n /\ memory = before
      /\ answer = 0
  BY DEF Enter, IInv, BeforeTheLoop, Entered
<1>2. TypeOK' /\ TypeOK
  BY <1>1, CallFacts, SameCall DEF IInv, TypeOK
<1>3. BeforeTheLoop'
  BY <1>1 DEF BeforeTheLoop, Entered, MayProceed
<1>4. StrlenLoop' /\ MemsetLoop' /\ MemcpyLoop'
  BY <1>1, <1>2, CallFacts
     DEF TypeOK, StrlenLoop, MemsetLoop, MemcpyLoop, Entered, MayProceed, Addresses
<1> QED BY <1>2, <1>3, <1>4 DEF IInv

LEMMA PanicKeeps == IInv /\ AssertFails => IInv'
<1> SUFFICES ASSUME IInv, AssertFails PROVE IInv'
  OBVIOUS
<1>1. /\ pc = "entry" /\ pc' = "panic" /\ call' = call /\ before' = before
      /\ memory' = memory /\ p1' = p1 /\ p2' = p2 /\ n' = n /\ answer' = answer
      /\ memory = before /\ ~MayProceed
  BY DEF AssertFails, Stop, IInv, BeforeTheLoop, Entered
<1> QED BY <1>1 DEF IInv, TypeOK, BeforeTheLoop, StrlenLoop, MemsetLoop, MemcpyLoop,
                    Entered, MayProceed, StrlenCalls, MemsetCalls, MemcpyCalls

LEMMA StrlenKeeps == IInv /\ Strlen => IInv'
<1> SUFFICES ASSUME IInv, Strlen PROVE IInv'
  OBVIOUS
<1>1. /\ pc = "loop" /\ call.fn = "strlen" /\ call' = call /\ before' = before
      /\ memory' = memory /\ p2' = p2 /\ memory = before
      /\ TypeOK /\ MayProceed /\ p1 = call.s1 + n
      /\ \A k \in call.s1 .. p1 - 1 : before[k] # 0
      /\ \E k \in p1 .. SIZE : before[k] = 0
  BY DEF Strlen, Stop, Return, IInv, BeforeTheLoop, StrlenLoop, Entered
<1>2. /\ p1 \in Addresses /\ n \in Nat /\ n < SIZE /\ SIZE \in Nat
      /\ call.s1 \in 1 .. SIZE
  BY <1>1, CallFacts DEF TypeOK, Addresses, MayProceed
<1>3. BeforeTheLoop' /\ MemsetLoop' /\ MemcpyLoop'
  BY <1>1, <1>2 DEF Strlen, Stop, Return, BeforeTheLoop, MemsetLoop, MemcpyLoop,
                    Entered, MayProceed
<1>4. CASE memory[p1] # 0
  <2>1. p1' = p1 + 1 /\ n' = n + 1 /\ pc' = pc /\ answer' = answer
    BY <1>2, <1>4 DEF Strlen
  <2>2. TypeOK'
    BY <1>1, <1>2, <2>1, SameCall DEF TypeOK, Addresses
  <2>3. StrlenLoop'
    BY <1>1, <1>2, <1>4, <2>1 DEF StrlenLoop, Entered, Addresses
  <2> QED BY <1>3, <2>2, <2>3 DEF IInv
<1>5. CASE memory[p1] = 0
  <2>1. p1' = p1 /\ n' = n /\ pc' = "done" /\ answer' = n
    BY <1>2, <1>5 DEF Strlen, Return
  <2>2. TypeOK'
    BY <1>1, <1>2, <2>1, SameCall DEF TypeOK, Addresses
  <2>3. StrlenLoop'
    BY <1>1, <1>2, <1>5, <2>1 DEF StrlenLoop, Entered, Addresses
  <2> QED BY <1>3, <2>2, <2>3 DEF IInv
<1> QED BY <1>4, <1>5

LEMMA MemsetKeeps == IInv /\ Memset => IInv'
<1> SUFFICES ASSUME IInv, Memset PROVE IInv'
  OBVIOUS
<1>1. /\ pc = "loop" /\ call.fn = "memset" /\ call' = call /\ before' = before
      /\ p2' = p2 /\ TypeOK /\ MayProceed
      /\ n <= call.n /\ p1 = call.s1 + (call.n - n)
      /\ \A k \in Addresses :
            memory[k] = IF call.s1 <= k /\ k < p1 THEN call.c % 256 ELSE before[k]
  BY DEF Memset, Stop, Return, IInv, BeforeTheLoop, MemsetLoop, Entered
<1>2. /\ n \in Nat /\ SIZE \in Nat /\ call.s1 \in 1 .. SIZE /\ call.n \in 0 .. SIZE
      /\ call.c \in Int /\ call.s1 + call.n <= SIZE + 1
      /\ memory \in [Addresses -> 0 .. 255]
  BY <1>1, CallFacts DEF TypeOK, MayProceed
<1>3. BeforeTheLoop' /\ StrlenLoop' /\ MemcpyLoop'
  BY <1>1, <1>2 DEF Memset, Stop, Return, BeforeTheLoop, StrlenLoop, MemcpyLoop,
                    Entered, MayProceed
<1>4. CASE n = 0
  <2>1. p1' = p1 /\ n' = n /\ pc' = "done" /\ answer' = call.s1 /\ memory' = memory
    BY <1>1, <1>2, <1>4 DEF Memset, Return
  <2>2. TypeOK'
    BY <1>1, <1>2, <2>1, SameCall DEF TypeOK
  <2>3. MemsetLoop'
    BY <1>1, <1>2, <1>4, <2>1 DEF MemsetLoop, Entered
  <2> QED BY <1>3, <2>2, <2>3 DEF IInv
<1>5. CASE n > 0
  <2>1. p1 \in Addresses
    BY <1>1, <1>2, <1>5 DEF Addresses
  <2>2. /\ p1' = p1 + 1 /\ n' = n - 1 /\ pc' = pc /\ answer' = answer
        /\ memory' = [memory EXCEPT ![p1] = call.c % 256]
    BY <1>2, <1>5, <2>1 DEF Memset
  <2>3. call.c % 256 \in 0 .. 255
    BY <1>2
  <2>4. /\ memory' \in [Addresses -> 0 .. 255]
        /\ memory'[p1] = call.c % 256
        /\ \A k \in Addresses \ {p1} : memory'[k] = memory[k]
    BY <1>2, <2>1, <2>2, <2>3
  <2>5. TypeOK'
    BY <1>1, <1>2, <1>5, <2>1, <2>2, <2>4, SameCall DEF TypeOK, Addresses
  <2>6. \A k \in Addresses :
            memory'[k] = IF call.s1 <= k /\ k < p1 + 1 THEN call.c % 256 ELSE before[k]
    <3> TAKE k \in Addresses
    <3>1. CASE k = p1
      <4>1. call.s1 <= k /\ k < p1 + 1
        BY <1>1, <1>2, <2>1, <3>1 DEF Addresses
      <4> QED BY <2>4, <3>1, <4>1
    <3>2. CASE k # p1
      <4>1. (k < p1 + 1) <=> (k < p1)
        BY <1>2, <2>1, <3>2 DEF Addresses
      <4> QED BY <1>1, <2>4, <3>2, <4>1
    <3> QED BY <3>1, <3>2
  <2>7. MemsetLoop'
    BY <1>1, <1>2, <1>5, <2>2, <2>6 DEF MemsetLoop, Entered
  <2> QED BY <1>3, <2>5, <2>7 DEF IInv
<1> QED BY <1>2, <1>4, <1>5

LEMMA MemcpyKeeps == IInv /\ Memcpy => IInv'
<1> SUFFICES ASSUME IInv, Memcpy PROVE IInv'
  OBVIOUS
<1>1. /\ pc = "loop" /\ call.fn = "memcpy" /\ call' = call /\ before' = before
      /\ n' = n /\ TypeOK /\ MayProceed
      /\ n = call.n /\ p1 >= call.s1 /\ p2 = call.s2 + (p1 - call.s1)
      /\ n = 0 => p1 = call.s1
      /\ \A k \in Addresses : ~(call.s1 <= k /\ k < p1) => memory[k] = before[k]
      /\ \A j \in 0 .. call.n - 1 :
            call.s1 + j < p1 => memory[call.s1 + j] = before[call.s2 + j]
  BY DEF Memcpy, Stop, Return, IInv, BeforeTheLoop, MemcpyLoop, Entered
<1>2. /\ SIZE \in Nat /\ call.s1 \in 1 .. SIZE /\ call.s2 \in 1 .. SIZE
      /\ call.n \in 0 .. SIZE /\ n \in Nat /\ p1 \in Nat /\ p2 \in Nat
      /\ call.s1 + call.n <= SIZE + 1 /\ call.s2 + call.n <= SIZE + 1
      /\ \/ call.s1 + call.n <= call.s2
         \/ call.s2 + call.n <= call.s1
      /\ memory \in [Addresses -> 0 .. 255]
  BY <1>1, CallFacts DEF TypeOK, MayProceed
<1>3. BeforeTheLoop' /\ StrlenLoop' /\ MemsetLoop'
  BY <1>1, <1>2 DEF Memcpy, Stop, Return, BeforeTheLoop, StrlenLoop, MemsetLoop,
                    Entered, MayProceed
<1>4. CASE n = 0
  <2>1. /\ p1' = p1 /\ p2' = p2 /\ pc' = "done" /\ answer' = call.s1
        /\ memory' = memory
    BY <1>1, <1>2, <1>4 DEF Memcpy, Return
  <2>2. TypeOK'
    BY <1>1, <1>2, <2>1, SameCall DEF TypeOK
  <2>3. MemcpyLoop'
    BY <1>1, <1>2, <1>4, <2>1 DEF MemcpyLoop, Entered
  <2> QED BY <1>3, <2>2, <2>3 DEF IInv
<1>5. CASE n > 0 /\ ~(p1 \in Addresses /\ p2 \in Addresses)
  <2>1. /\ p1' = p1 /\ p2' = p2 /\ pc' = "fault" /\ answer' = answer
        /\ memory' = memory
    BY <1>2, <1>5 DEF Memcpy, Stop
  <2>2. TypeOK'
    BY <1>1, <1>2, <2>1, SameCall DEF TypeOK
  <2>3. p1 >= call.s1 + call.n
    BY <1>1, <1>2, <1>5 DEF Addresses
  <2>4. MemcpyLoop'
    BY <1>1, <1>2, <1>5, <2>1, <2>3 DEF MemcpyLoop, Entered
  <2> QED BY <1>3, <2>2, <2>4 DEF IInv
<1>6. CASE n > 0 /\ p1 \in Addresses /\ p2 \in Addresses
  <2>1. /\ p1' = p1 + 1 /\ p2' = p2 + 1 /\ pc' = pc /\ answer' = answer
        /\ memory' = [memory EXCEPT ![p1] = memory[p2]]
    BY <1>2, <1>6 DEF Memcpy
  <2>2. /\ memory' \in [Addresses -> 0 .. 255]
        /\ memory'[p1] = memory[p2]
        /\ \A k \in Addresses \ {p1} : memory'[k] = memory[k]
    BY <1>2, <1>6, <2>1
  <2>3. TypeOK'
    BY <1>1, <1>2, <1>6, <2>1, <2>2, SameCall DEF TypeOK, Addresses
  <2>4. \A k \in Addresses : ~(call.s1 <= k /\ k < p1 + 1) => memory'[k] = before[k]
    BY <1>1, <1>2, <1>6, <2>2 DEF Addresses
  <2>5. ASSUME NEW j \in 0 .. call.n - 1, call.s1 + j < p1 + 1
        PROVE  memory'[call.s1 + j] = before[call.s2 + j]
    <3>1. CASE call.s1 + j < p1
      <4>1. call.s1 + j \in Addresses \ {p1}
        BY <1>2, <3>1 DEF Addresses
      <4> QED BY <1>1, <2>2, <3>1, <4>1
    <3>2. CASE call.s1 + j = p1
      <4>1. p2 = call.s2 + j /\ ~(call.s1 <= p2 /\ p2 < p1)
        BY <1>1, <1>2, <3>2
      <4>2. memory[p2] = before[p2]
        BY <1>1, <1>6, <4>1
      <4> QED BY <2>2, <3>2, <4>1, <4>2
    <3> QED BY <1>2, <2>5, <3>1, <3>2
  <2>6. MemcpyLoop'
    <3>1. /\ p1' >= call.s1 /\ p2' = call.s2 + (p1' - call.s1)
          /\ ~(n = 0) /\ pc' = "loop"
      BY <1>1, <1>2, <1>6, <2>1
    <3> QED BY <1>1, <2>1, <2>4, <2>5, <3>1 DEF MemcpyLoop, Addresses
  <2> QED BY <1>3, <2>3, <2>6 DEF IInv
<1> QED BY <1>2, <1>4, <1>5, <1>6

LEMMA NextKeepsIInv == IInv /\ [Next]_vars => IInv'
<1>1. CASE UNCHANGED vars
  BY <1>1 DEF vars, IInv, TypeOK, BeforeTheLoop, StrlenLoop, MemsetLoop, MemcpyLoop,
              Entered, MayProceed, StrlenCalls, MemsetCalls, MemcpyCalls
<1> QED BY <1>1, EnterKeeps, PanicKeeps, StrlenKeeps, MemsetKeeps, MemcpyKeeps DEF Next
-----------------------------------------------------------------------------
LEMMA ContractFromIInv == IInv => ContractKept
<1> SUFFICES ASSUME IInv PROVE ContractKept
  OBVIOUS
<1>1. TypeOK
  BY DEF IInv
<1>2. StrlenFindsFirstNul
  <2> SUFFICES ASSUME call.fn = "strlen" PROVE
        /\ memory = before
        /\ pc = "done" =>
            /\ before[call.s1 + answer] = 0
            /\ \A k \in call.s1 .. call.s1 + answer - 1 : before[k] # 0
    BY DEF StrlenFindsFirstNul
  <2>1. call.s1 \in Nat /\ n \in Nat
    BY <1>1, CallFacts DEF TypeOK
  <2>2. memory = before
    BY DEF IInv, StrlenLoop
  <2>3. ASSUME pc = "done"
        PROVE  /\ before[call.s1 + answer] = 0
               /\ \A k \in call.s1 .. call.s1 + answer - 1 : before[k] # 0
    <3>1. Entered
      BY <2>3 DEF Entered
    <3> QED BY <2>1, <2>3, <3>1 DEF IInv, StrlenLoop
  <2> QED BY <2>2, <2>3
<1>3. MemsetFillsItsObject
  <2> SUFFICES ASSUME call.fn = "memset" PROVE
        /\ memory = [k \in Addresses |-> IF call.s1 <= k /\ k < p1 THEN call.c % 256
                                         ELSE before[k]]
        /\ p1 <= call.s1 + call.n
        /\ pc = "done" => p1 = call.s1 + call.n /\ answer = call.s1
    BY DEF MemsetFillsItsObject
  <2>1. /\ call.s1 \in Nat /\ call.n \in Nat /\ n \in Nat /\ SIZE \in Nat
        /\ memory \in [Addresses -> 0 .. 255] /\ before \in [Addresses -> Bytes]
    BY <1>1, CallFacts DEF TypeOK
  <2>2. CASE Entered
    BY <2>1, <2>2 DEF IInv, MemsetLoop
  <2>3. CASE ~Entered
    <3>1. memory = before /\ p1 = 0 /\ pc # "done"
      BY <2>3 DEF IInv, BeforeTheLoop, Entered
    <3>2. \A k \in Addresses : ~(call.s1 <= k /\ k < p1)
      BY <2>1, <3>1 DEF Addresses
    <3> QED BY <2>1, <3>1, <3>2
  <2> QED BY <2>2, <2>3
<1>4. MemcpyCopiesItsObject
  <2> SUFFICES ASSUME call.fn = "memcpy" PROVE
        /\ p1 <= call.s1 + call.n =>
            memory = [k \in Addresses |-> IF call.s1 <= k /\ k < p1
                                          THEN before[call.s2 + (k - call.s1)] ELSE before[k]]
        /\ pc = "done" => p1 = call.s1 + call.n /\ answer = call.s1
    BY DEF MemcpyCopiesItsObject
  <2>1. /\ call.s1 \in Nat /\ call.s2 \in Nat /\ call.n \in Nat /\ p1 \in Nat
        /\ memory \in [Addresses -> 0 .. 255]
    BY <1>1, CallFacts DEF TypeOK
  <2>2. CASE Entered
    <3>1. ASSUME p1 <= call.s1 + call.n, NEW k \in Addresses, call.s1 <= k, k < p1
          PROVE  memory[k] = before[call.s2 + (k - call.s1)]
      <4>1. PICK j : j = k - call.s1
        OBVIOUS
      <4>2. j \in 0 .. call.n - 1 /\ k = call.s1 + j
        BY <2>1, <3>1, <4>1, StringAssumption DEF Addresses
      <4> QED BY <2>2, <3>1, <4>1, <4>2 DEF IInv, MemcpyLoop
    <3>2. \A k \in Addresses : ~(call.s1 <= k /\ k < p1) => memory[k] = before[k]
      BY <2>2 DEF IInv, MemcpyLoop
    <3>3. pc = "done" => p1 = call.s1 + call.n /\ answer = call.s1
      BY <2>1, <2>2 DEF IInv, MemcpyLoop
    <3> QED BY <2>1, <3>1, <3>2, <3>3
  <2>3. CASE ~Entered
    <3>1. memory = before /\ p1 = 0 /\ pc # "done"
      BY <2>3 DEF IInv, BeforeTheLoop, Entered
    <3>2. \A k \in Addresses : ~(call.s1 <= k /\ k < p1)
      BY <2>1, <3>1 DEF Addresses
    <3> QED BY <2>1, <3>1, <3>2
  <2> QED BY <2>2, <2>3
<1> QED BY <1>1, <1>2, <1>3, <1>4 DEF ContractKept

\* Whatever memory holds: strlen finds the first NUL, memset fills its object and
\* nothing else, and memcpy copies its object up to the end, at every step of their
\* loops.
THEOREM KeepsContract == Spec => []ContractKept
BY InitIInv, NextKeepsIInv, ContractFromIInv, PTL DEF Spec

-----------------------------------------------------------------------------
(***************************************************************************)
(* The part of CallsEnd that needs no fairness: how a call ends, and that  *)
(* every step brings its end nearer.  memcpy's endless loop is no          *)
(* exception, as the pointer it moves leaves the memory.                   *)
(***************************************************************************)
\* A bound of the steps to come.
StepsLeft ==
    IF pc = "entry" THEN SIZE + 3 ELSE IF pc = "loop" THEN SIZE + 2 - p1 ELSE 0

LEMMA EndingFromIInv ==
    IInv => IF CopiesSomething THEN pc \in {"entry", "loop", "fault"}
            ELSE pc \in {"entry", "loop", IF MayProceed THEN "done" ELSE "panic"}
<1> SUFFICES ASSUME IInv, pc \notin {"entry", "loop"}
             PROVE  pc = IF CopiesSomething THEN "fault" ELSE IF MayProceed THEN "done" ELSE "panic"
  BY DEF CopiesSomething
<1>1. /\ pc \in {"done", "panic", "fault"}
      /\ call.fn \in {"strlen", "memset", "memcpy"} /\ call.n \in Nat
  BY CallFacts DEF IInv, TypeOK
<1>2. CASE pc = "panic"
  BY <1>2 DEF IInv, BeforeTheLoop, Entered, CopiesSomething
<1>3. CASE pc = "fault"
  <2>1. MayProceed /\ call.fn = "memcpy" /\ n = call.n /\ n > 0
    BY <1>1, <1>3 DEF IInv, BeforeTheLoop, StrlenLoop, MemsetLoop, MemcpyLoop, Entered
  <2> QED BY <1>3, <2>1 DEF CopiesSomething
<1>4. CASE pc = "done"
  <2>1. MayProceed /\ (call.fn = "memcpy" => call.n = 0)
    BY <1>1, <1>4 DEF IInv, BeforeTheLoop, MemcpyLoop, Entered
  <2> QED BY <1>1, <1>4, <2>1 DEF CopiesSomething
<1> QED BY <1>1, <1>2, <1>3, <1>4

LEMMA StepsRunOut == IInv /\ Next => StepsLeft' \in Nat /\ StepsLeft' < StepsLeft
<1> SUFFICES ASSUME IInv, Next PROVE StepsLeft' \in Nat /\ StepsLeft' < StepsLeft
  OBVIOUS
<1>1. /\ SIZE \in Nat /\ call.s1 \in 0 .. SIZE /\ p1 \in 0 .. SIZE + 1
  BY CallFacts DEF IInv, TypeOK
<1>2. p1' \in 0 .. SIZE + 1
  BY <1>1, NextKeepsIInv DEF IInv, TypeOK
<1>3. CASE Enter
  BY <1>1, <1>3 DEF Enter, MayProceed, StepsLeft
<1>4. CASE AssertFails
  BY <1>1, <1>4 DEF AssertFails, Stop, StepsLeft
<1>5. CASE Strlen \/ Memcpy \/ Memset
  <2>1. pc = "loop" /\ ((pc' = "loop" /\ p1' = p1 + 1) \/ pc' \in {"done", "fault"})
    BY <1>5 DEF Strlen, Memcpy, Memset, Stop, Return
  <2>2. CASE pc' = "loop" /\ p1' = p1 + 1
    <3>1. StepsLeft = SIZE + 2 - p1 /\ StepsLeft' = SIZE + 2 - p1'
      BY <2>1, <2>2 DEF StepsLeft
    <3> QED BY <1>1, <1>2, <2>2, <3>1
  <2>3. CASE pc' \in {"done", "fault"}
    <3>1. StepsLeft = SIZE + 2 - p1 /\ StepsLeft' = 0
      BY <2>1, <2>3 DEF StepsLeft
    <3> QED BY <1>1, <3>1
  <2> QED BY <2>1, <2>2, <2>3
<1> QED BY <1>3, <1>4, <1>5 DEF Next

\* A call that has ended has ended as it must: a NULL pointer in a panic, everything
\* else, memcpy of something excepted, in a return.
EndsWell == ~CopiesSomething => pc \in {"entry", "loop", IF MayProceed THEN "done" ELSE "panic"}

\* For every size and content of memory.
THEOREM EndsAsItMust == Spec => []EndsWell
<1>1. IInv => EndsWell
  BY EndingFromIInv DEF EndsWell
<1> QED BY <1>1, InitIInv, NextKeepsIInv, PTL DEF Spec

\* What memcpy's loop amounts to: a call that copies something does not return.
NeverReturns == CopiesSomething => pc # "done"

\* No call of memcpy with n > 0 ever returns, whatever the objects: the violation
\* that TLC shows for one is the rule.
THEOREM MemcpyNeverReturns == Spec => []NeverReturns
<1>1. IInv => NeverReturns
  BY EndingFromIInv DEF NeverReturns
<1> QED BY <1>1, InitIInv, NextKeepsIInv, PTL DEF Spec

\* Every step of a call lowers a number that starts at SIZE + 3: no call, memcpy's
\* included, takes more steps than that.
THEOREM CallsRunOut == Spec => [][StepsLeft' \in Nat /\ StepsLeft' < StepsLeft]_vars
<1>1. IInv /\ [Next]_vars => [StepsLeft' \in Nat /\ StepsLeft' < StepsLeft]_vars
  BY StepsRunOut
<1> QED BY <1>1, InitIInv, NextKeepsIInv, PTL DEF Spec
=============================================================================
