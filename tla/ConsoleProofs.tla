--------------------------- MODULE ConsoleProofs ---------------------------
(***************************************************************************)
(* Theorems about the console registry, for every set of consoles and      *)
(* every array size.  The inductive invariant is the conjunction of the    *)
(* four invariants of module Console: each needs the others.               *)
(***************************************************************************)
EXTENDS Console, TLAPS

IInv ==
    /\ TypeOK
    /\ RegistryWellFormed
    /\ ActiveIsRegistered
    /\ DriversFollowActive

-----------------------------------------------------------------------------
(* The loop of deregister_console, in closed form: slots before k stay,    *)
(* slots from k on take their successor.                                   *)
LEMMA WithoutClosedForm ==
    ASSUME IInv, NEW c \in Consoles, NEW k \in InUse, consoles[k] = c
    PROVE  Without(c) =
             [i \in Slots |->
                IF i < k THEN consoles[i]
                ELSE IF i + 1 < console_count THEN consoles[i + 1] ELSE NULL]
<1>1. k \in Slots /\ c # NULL /\ console_count \in Nat /\ MAX_CONSOLES \in Nat
  BY ConsoleAssumption DEF IInv, TypeOK, InUse, Slots
<1>2. ASSUME NEW i \in Slots
      PROVE  AtOrPast(c, i) <=> i \in InUse /\ k <= i
  <2>1. ASSUME NEW j \in 0 .. i, consoles[j] = c PROVE j = k
    <3>1. j \in Slots
      BY <1>1 DEF Slots
    <3> QED
      BY <1>1, <2>1, <3>1 DEF IInv, RegistryWellFormed
  <2>2. k <= i => k \in 0 .. i
    BY <1>1 DEF Slots
  <2> QED
    BY <1>1, <2>1, <2>2 DEF AtOrPast, InUse, Slots
<1>3. ASSUME NEW i \in Slots, i \notin InUse
      PROVE  consoles[i] = NULL /\ ~(i < k) /\ ~(i + 1 < console_count)
  BY <1>1, <1>3 DEF IInv, RegistryWellFormed, InUse, Slots
<1>4. ASSUME NEW i \in Slots
      PROVE  (IF ~AtOrPast(c, i) THEN consoles[i]
              ELSE IF i + 1 < console_count THEN consoles[i + 1] ELSE NULL)
             = (IF i < k THEN consoles[i]
                ELSE IF i + 1 < console_count THEN consoles[i + 1] ELSE NULL)
  <2>1. CASE i \in InUse
    <3>1. AtOrPast(c, i) <=> ~(i < k)
      BY <1>1, <1>2, <2>1 DEF Slots
    <3> QED
      BY <3>1
  <2>2. CASE i \notin InUse
    BY <1>2, <1>3, <2>2
  <2> QED
    BY <2>1, <2>2
<1> QED
  BY <1>4 DEF Without

(* Removing c keeps the array a well-formed registry and removes c alone.  *)
LEMMA RemovalKeepsShape ==
    ASSUME IInv, NEW c \in Consoles, IsRegistered(c),
           consoles' = Without(c), console_count' = console_count
    PROVE  /\ consoles' \in [Slots -> Pointers]
           /\ RegistryWellFormed'
           /\ \A d \in Consoles : IsRegistered(d)' <=> IsRegistered(d) /\ d # c
<1>1. PICK k \in InUse : consoles[k] = c
  BY DEF IsRegistered
<1>2. /\ console_count \in Nat /\ MAX_CONSOLES \in Nat
      /\ console_count <= MAX_CONSOLES /\ k \in Slots
      /\ consoles \in [Slots -> Pointers] /\ NULL \notin Consoles
  BY ConsoleAssumption DEF IInv, TypeOK, InUse, Slots
<1>3. consoles' = [i \in Slots |->
                    IF i < k THEN consoles[i]
                    ELSE IF i + 1 < console_count THEN consoles[i + 1] ELSE NULL]
  BY <1>1, WithoutClosedForm
<1>4. \A i, j \in Slots : consoles[i] = consoles[j] /\ consoles[i] # NULL => i = j
  BY DEF IInv, RegistryWellFormed
<1>5. consoles' \in [Slots -> Pointers]
  BY <1>2, <1>3 DEF Slots, Pointers
<1>6. ASSUME NEW i \in Slots, NEW j \in Slots,
             consoles'[i] = consoles'[j], consoles'[i] # NULL
      PROVE  i = j
  <2> DEFINE from(n) == IF n < k THEN n ELSE n + 1
  <2>1. ASSUME NEW n \in Slots, consoles'[n] # NULL
        PROVE  from(n) \in Slots /\ consoles'[n] = consoles[from(n)]
    BY <1>2, <1>3, <2>1 DEF Slots
  <2>2. from(i) = from(j)
    BY <1>4, <1>6, <2>1
  <2> QED
    BY <1>2, <2>2 DEF Slots
<1>7. \A i \in Slots \ InUse' : consoles'[i] = NULL
  BY <1>2, <1>3 DEF Slots, InUse, IInv, RegistryWellFormed
<1>8. ASSUME NEW d \in Consoles, IsRegistered(d)'
      PROVE  IsRegistered(d) /\ d # c
  <2>1. PICK i \in InUse : consoles'[i] = d
    BY <1>8 DEF IsRegistered, InUse
  <2>2. i \in Slots /\ d # NULL
    BY <1>2 DEF InUse, Slots
  <2>3. CASE i < k
    BY <1>1, <1>2, <1>3, <1>4, <2>1, <2>2, <2>3 DEF IsRegistered, InUse, Slots
  <2>4. CASE ~(i < k)
    <3>1. i + 1 < console_count /\ consoles[i + 1] = d
      BY <1>3, <2>1, <2>2, <2>4
    <3>2. i + 1 \in InUse /\ i + 1 \in Slots /\ i + 1 # k
      BY <1>2, <2>2, <2>4, <3>1 DEF InUse, Slots
    <3> QED
      BY <1>1, <1>2, <1>4, <2>2, <3>1, <3>2 DEF IsRegistered
  <2> QED
    BY <2>3, <2>4
<1>9. ASSUME NEW d \in Consoles, IsRegistered(d), d # c
      PROVE  IsRegistered(d)'
  <2>1. PICK j \in InUse : consoles[j] = d
    BY <1>9 DEF IsRegistered
  <2>2. j \in Slots /\ j # k /\ d # NULL
    BY <1>1, <1>2, <1>9, <2>1 DEF InUse, Slots
  <2>3. CASE j < k
    BY <1>2, <1>3, <2>1, <2>2, <2>3 DEF IsRegistered, InUse
  <2>4. CASE k < j
    <3>1. j - 1 \in InUse /\ j - 1 \in Slots /\ consoles'[j - 1] = d
      BY <1>2, <1>3, <2>1, <2>2, <2>4 DEF InUse, Slots
    <3> QED
      BY <2>2, <3>1 DEF IsRegistered, InUse
  <2> QED
    BY <1>2, <2>2, <2>3, <2>4 DEF InUse
<1> QED
  BY <1>5, <1>6, <1>7, <1>8, <1>9 DEF RegistryWellFormed

-----------------------------------------------------------------------------
LEMMA InitInv == Init => IInv
  BY ConsoleAssumption
  DEF Init, IInv, TypeOK, RegistryWellFormed, ActiveIsRegistered,
      DriversFollowActive, Slots, InUse, Pointers, Calls

(* What a call does to the drivers, given that they follow the active      *)
(* console before it.                                                      *)
LEMMA SwitchedOffIsAllOff ==
    ASSUME IInv
    PROVE  /\ SwitchedOff \in [Consoles -> Int]
           /\ \A d \in Consoles : SwitchedOff[d] = 0
<1>1. /\ activations \in [Consoles -> Int]
      /\ \A d \in Consoles : activations[d] = IF d = active_console THEN 1 ELSE 0
  BY DEF IInv, TypeOK, DriversFollowActive
<1>2. CASE active_console = NULL
  BY <1>1, <1>2, ConsoleAssumption DEF SwitchedOff
<1>3. CASE active_console # NULL
  <2>1. SwitchedOff = [activations EXCEPT ![active_console] = @ - 1]
    BY <1>3 DEF SwitchedOff
  <2>2. active_console \in Consoles /\ activations[active_console] = 1
    BY <1>1, <1>3 DEF IInv, TypeOK, Pointers
  <2> QED
    BY <1>1, <2>1, <2>2
<1> QED
  BY <1>2, <1>3

LEMMA SwitchOnFollows ==
    ASSUME IInv, NEW c \in Consoles, SwitchOn(c)
    PROVE  activations' \in [Consoles -> Int] /\ DriversFollowActive'
<1>1. /\ active_console' = c
      /\ activations' = [SwitchedOff EXCEPT ![c] = @ + 1]
  BY DEF SwitchOn
<1>2. /\ activations' \in [Consoles -> Int]
      /\ \A d \in Consoles : activations'[d] = IF d = c THEN 1 ELSE 0
  BY <1>1, SwitchedOffIsAllOff
<1> QED
  BY <1>1, <1>2 DEF DriversFollowActive

LEMMA SwitchOffFollows ==
    ASSUME IInv, SwitchOff
    PROVE  activations' \in [Consoles -> Int] /\ DriversFollowActive'
<1>1. active_console' = NULL /\ activations' = SwitchedOff
  BY DEF SwitchOff
<1> QED
  BY <1>1, SwitchedOffIsAllOff, ConsoleAssumption DEF DriversFollowActive

(* A successful registration appends c and touches no other entry.         *)
LEMMA EntryKeepsShape ==
    ASSUME IInv, NEW c \in Consoles, MayRegister(c),
           consoles' = [consoles EXCEPT ![console_count] = c],
           console_count' = console_count + 1
    PROVE  /\ consoles' \in [Slots -> Pointers]
           /\ console_count' \in 0 .. MAX_CONSOLES
           /\ RegistryWellFormed'
           /\ \A d \in Consoles : IsRegistered(d)' <=> IsRegistered(d) \/ d = c
<1>1. /\ console_count \in Slots /\ MAX_CONSOLES \in Nat
      /\ consoles \in [Slots -> Pointers] /\ NULL \notin Consoles
  BY ConsoleAssumption DEF IInv, TypeOK, MayRegister, Slots
<1>2. consoles' \in [Slots -> Pointers] /\ console_count' \in 0 .. MAX_CONSOLES
  BY <1>1 DEF Pointers, Slots
<1>3. \A i \in InUse : consoles[i] # c
  BY DEF MayRegister, IsRegistered
<1>4. \A i \in Slots : consoles[i] # c
  BY <1>1, <1>3 DEF IInv, RegistryWellFormed
<1>5. RegistryWellFormed'
  BY <1>1, <1>4 DEF IInv, RegistryWellFormed, InUse, Slots
<1>6. ASSUME NEW d \in Consoles
      PROVE  IsRegistered(d)' <=> IsRegistered(d) \/ d = c
  <2>1. InUse' = InUse \cup {console_count}
    BY <1>1 DEF InUse, Slots
  <2>2. /\ consoles'[console_count] = c
        /\ \A i \in InUse : i \in Slots /\ consoles'[i] = consoles[i]
    BY <1>1 DEF InUse, Slots
  <2> QED
    BY <1>1, <2>1, <2>2 DEF IsRegistered
<1> QED
  BY <1>2, <1>5, <1>6

LEMMA NextInv == IInv /\ [Next]_vars => IInv'
<1> SUFFICES ASSUME IInv, [Next]_vars PROVE IInv'
  OBVIOUS
<1> USE DEF IInv
<1>0. ASSUME NEW op \in RegistryOps \cup IOOps, NEW c \in Pointers,
             NEW ok \in BOOLEAN, Answer(op, c, ok)
      PROVE  call' \in Calls
  BY <1>0 DEF Answer, Calls
<1>1. ASSUME UNCHANGED <<consoles, console_count, active_console, activations>>,
             call' \in Calls
      PROVE  IInv'
  BY <1>1 DEF TypeOK, RegistryWellFormed, ActiveIsRegistered,
              DriversFollowActive, IsRegistered, InUse
<1>2. ASSUME NEW c \in Pointers, RegisterConsole(c) PROVE IInv'
  <2>1. CASE MayRegister(c)
    <3>1. /\ consoles' = [consoles EXCEPT ![console_count] = c]
          /\ console_count' = console_count + 1
          /\ IF console_count' = 1
             THEN SwitchOn(c) ELSE UNCHANGED <<active_console, activations>>
          /\ Answer("register", c, TRUE)
      BY <1>2, <2>1 DEF RegisterConsole
    <3>2. c \in Consoles
      BY <2>1 DEF MayRegister, Pointers
    <3>3. /\ consoles' \in [Slots -> Pointers]
          /\ console_count' \in 0 .. MAX_CONSOLES
          /\ RegistryWellFormed'
          /\ \A d \in Consoles : IsRegistered(d)' <=> IsRegistered(d) \/ d = c
      BY <2>1, <3>1, <3>2, EntryKeepsShape
    <3>4. call' \in Calls
      BY <1>0, <3>1 DEF RegistryOps
    <3>5. CASE console_count' = 1
      <4>1. SwitchOn(c)
        BY <3>1, <3>5
      <4>2. active_console' = c
        BY <4>1 DEF SwitchOn
      <4>3. activations' \in [Consoles -> Int] /\ DriversFollowActive'
        BY <3>2, <4>1, SwitchOnFollows
      <4>4. TypeOK'
        BY <3>3, <3>4, <4>2, <4>3 DEF TypeOK
      <4>5. ActiveIsRegistered'
        BY <3>2, <3>3, <4>2 DEF ActiveIsRegistered, IsRegistered
      <4> QED
        BY <3>3, <4>3, <4>4, <4>5
    <3>6. CASE console_count' # 1
      <4>1. UNCHANGED <<active_console, activations>>
        BY <3>1, <3>6
      <4>2. TypeOK' /\ DriversFollowActive'
        BY <3>3, <3>4, <4>1 DEF TypeOK, DriversFollowActive
      <4>3. active_console # NULL => active_console \in Consoles
        BY DEF TypeOK, Pointers
      <4>4. ActiveIsRegistered'
        BY <3>3, <4>1, <4>3 DEF ActiveIsRegistered, IsRegistered
      <4> QED
        BY <3>3, <4>2, <4>4
    <3> QED
      BY <3>5, <3>6
  <2>2. CASE ~MayRegister(c)
    BY <1>0, <1>1, <1>2, <2>2 DEF RegisterConsole, RegistryOps
  <2> QED
    BY <2>1, <2>2
<1>3. ASSUME NEW c \in Pointers, DeregisterConsole(c) PROVE IInv'
  <2>1. CASE IsRegistered(c)
    <3>1. /\ consoles' = Without(c) /\ console_count' = console_count
          /\ SwitchOff /\ Answer("deregister", c, TRUE)
      BY <1>3, <2>1 DEF DeregisterConsole, RefuseToDeregister
    <3>2. c \in Consoles
      BY <2>1 DEF IsRegistered, Pointers
    <3>3. consoles' \in [Slots -> Pointers] /\ RegistryWellFormed'
      BY <2>1, <3>1, <3>2, RemovalKeepsShape
    <3>4. activations' \in [Consoles -> Int] /\ DriversFollowActive'
      BY <3>1, SwitchOffFollows
    <3>5. active_console' = NULL
      BY <3>1 DEF SwitchOff
    <3>6. call' \in Calls
      BY <1>0, <3>1 DEF RegistryOps
    <3>7. TypeOK' /\ ActiveIsRegistered'
      BY <3>1, <3>3, <3>4, <3>5, <3>6 DEF TypeOK, ActiveIsRegistered, Pointers
    <3> QED
      BY <3>3, <3>4, <3>7
  <2>2. CASE ~IsRegistered(c)
    BY <1>0, <1>1, <1>3, <2>2
    DEF DeregisterConsole, RefuseToDeregister, RegistryOps
  <2> QED
    BY <2>1, <2>2
<1>4. ASSUME NEW c \in Pointers, ActivateConsole(c) PROVE IInv'
  <2>1. CASE IsRegistered(c)
    <3>1. /\ UNCHANGED <<consoles, console_count>>
          /\ SwitchOn(c) /\ Answer("activate", c, TRUE)
      BY <1>4, <2>1 DEF ActivateConsole
    <3>2. c \in Consoles
      BY <2>1 DEF IsRegistered, Pointers
    <3>3. activations' \in [Consoles -> Int] /\ DriversFollowActive'
      BY <3>1, <3>2, SwitchOnFollows
    <3>4. active_console' = c
      BY <3>1 DEF SwitchOn
    <3>5. call' \in Calls
      BY <1>0, <3>1 DEF RegistryOps
    <3>6. TypeOK' /\ RegistryWellFormed'
      BY <3>1, <3>3, <3>4, <3>5 DEF TypeOK, RegistryWellFormed, InUse
    <3>7. ActiveIsRegistered'
      BY <2>1, <3>1, <3>4 DEF ActiveIsRegistered, IsRegistered, InUse
    <3> QED
      BY <3>3, <3>6, <3>7
  <2>2. CASE ~IsRegistered(c)
    BY <1>0, <1>1, <1>4, <2>2 DEF ActivateConsole, RegistryOps
  <2> QED
    BY <2>1, <2>2
<1>5. ASSUME DeactivateConsole PROVE IInv'
  <2>1. activations' \in [Consoles -> Int] /\ DriversFollowActive'
    BY <1>5, SwitchOffFollows DEF DeactivateConsole
  <2>2. NULL \in Pointers /\ (active_console # NULL) \in BOOLEAN
    BY DEF Pointers
  <2>3. call' \in Calls
    BY <1>0, <1>5, <2>2 DEF DeactivateConsole, RegistryOps
  <2> QED
    BY <1>5, <2>1, <2>2, <2>3
    DEF DeactivateConsole, SwitchOff, TypeOK, RegistryWellFormed,
        ActiveIsRegistered, InUse
<1>6. ASSUME NEW op \in IOOps, UseConsole(op) PROVE IInv'
  <2>1. active_console \in Pointers /\ (active_console # NULL) \in BOOLEAN
    BY DEF TypeOK
  <2> QED
    BY <1>0, <1>1, <1>6, <2>1 DEF UseConsole
<1>7. CASE UNCHANGED vars
  BY <1>1, <1>7 DEF vars, TypeOK
<1> QED
  BY <1>2, <1>3, <1>4, <1>5, <1>6, <1>7 DEF Next

(* After any sequence of calls the registry is in a consistent state.      *)
THEOREM Invariance == Spec => []IInv
<1> QED
  BY InitInv, NextInv, PTL DEF Spec

(* Every variable keeps its type: the count never passes the array.        *)
THEOREM TypeCorrect == Spec => []TypeOK
<1>1. IInv => TypeOK
  BY DEF IInv
<1> QED
  BY <1>1, Invariance, PTL

(* No console holds two slots, whatever was registered and deregistered.   *)
THEOREM RegistryConsistent == Spec => []RegistryWellFormed
<1>1. IInv => RegistryWellFormed
  BY DEF IInv
<1> QED
  BY <1>1, Invariance, PTL

(* Input and output never dispatch to a console that has left.             *)
THEOREM NoDanglingActive == Spec => []ActiveIsRegistered
<1>1. IInv => ActiveIsRegistered
  BY DEF IInv
<1> QED
  BY <1>1, Invariance, PTL

(* Exactly the driver of the active console is started.                    *)
THEOREM DriversInStep == Spec => []DriversFollowActive
<1>1. IInv => DriversFollowActive
  BY DEF IInv
<1> QED
  BY <1>1, Invariance, PTL

-----------------------------------------------------------------------------
Appends(c) ==
    /\ MayRegister(c)
    /\ consoles' = [consoles EXCEPT ![console_count] = c]
    /\ console_count' = console_count + 1

Removes(c) ==
    /\ IsRegistered(c)
    /\ consoles' = Without(c)
    /\ console_count' = console_count
    /\ call'.op = "deregister" /\ call'.console = c

(* A step changes the array in one of two ways or not at all.              *)
LEMMA ArraySteps ==
    ASSUME IInv, [Next]_vars
    PROVE  \/ UNCHANGED <<consoles, console_count>>
           \/ \E c \in Consoles : Appends(c)
           \/ \E c \in Consoles : Removes(c)
<1>1. ASSUME NEW c \in Pointers, RegisterConsole(c)
      PROVE  UNCHANGED <<consoles, console_count>> \/ (c \in Consoles /\ Appends(c))
  BY <1>1 DEF RegisterConsole, Appends, MayRegister, Pointers
<1>2. ASSUME NEW c \in Pointers, DeregisterConsole(c)
      PROVE  UNCHANGED <<consoles, console_count>> \/ (c \in Consoles /\ Removes(c))
  BY <1>2
  DEF DeregisterConsole, RefuseToDeregister, Removes, IsRegistered, Pointers, Answer
<1> QED
  BY <1>1, <1>2
  DEF Next, vars, ActivateConsole, DeactivateConsole, UseConsole

LEMMA OrderKeptByEntry ==
    ASSUME IInv, NEW c \in Consoles, Appends(c),
           NEW a \in Consoles, NEW b \in Consoles, Before(a, b)
    PROVE  Before(a, b)'
<1>1. console_count \in Slots /\ consoles \in [Slots -> Pointers]
  BY ConsoleAssumption DEF IInv, TypeOK, Appends, MayRegister, Slots
<1>2. \A i \in InUse : i \in InUse' /\ consoles'[i] = consoles[i]
  BY <1>1 DEF Appends, InUse, Slots
<1> QED
  BY <1>2 DEF Before

LEMMA OrderKeptByRemoval ==
    ASSUME IInv, NEW c \in Consoles, Removes(c),
           NEW a \in Consoles \ {c}, NEW b \in Consoles \ {c}, Before(a, b)
    PROVE  Before(a, b)'
<1>1. PICK k \in InUse : consoles[k] = c
  BY DEF Removes, IsRegistered
<1>2. PICK i \in InUse, j \in InUse : i < j /\ consoles[i] = a /\ consoles[j] = b
  BY DEF Before
<1>3. /\ console_count \in Nat /\ MAX_CONSOLES \in Nat
      /\ console_count <= MAX_CONSOLES /\ i # k /\ j # k
  BY <1>1, <1>2, ConsoleAssumption DEF IInv, TypeOK
<1>4. consoles' = [n \in Slots |->
                    IF n < k THEN consoles[n]
                    ELSE IF n + 1 < console_count THEN consoles[n + 1] ELSE NULL]
  BY <1>1, WithoutClosedForm DEF Removes
<1> DEFINE to(n) == IF n < k THEN n ELSE n - 1
<1>5. ASSUME NEW n \in InUse, n # k
      PROVE  to(n) \in InUse' /\ consoles'[to(n)] = consoles[n]
  BY <1>1, <1>3, <1>4, <1>5 DEF InUse, Slots, Removes
<1>6. to(i) < to(j)
  BY <1>1, <1>2, <1>3 DEF InUse
<1> QED
  BY <1>2, <1>3, <1>5, <1>6 DEF Before

(* Whoever leaves, the consoles that stay keep their order.                *)
THEOREM OrderIsStable == Spec => OrderStable
<1>1. ASSUME IInv, [Next]_vars, NEW a \in Consoles, NEW b \in Consoles,
             Before(a, b), IsRegistered(a)', IsRegistered(b)'
      PROVE  Before(a, b)'
  <2>1. CASE UNCHANGED <<consoles, console_count>>
    BY <1>1, <2>1 DEF Before, InUse
  <2>2. ASSUME NEW c \in Consoles, Appends(c) PROVE Before(a, b)'
    BY <1>1, <2>2, OrderKeptByEntry
  <2>3. ASSUME NEW c \in Consoles, Removes(c) PROVE Before(a, b)'
    <3>1. a # c /\ b # c
      BY <1>1, <2>3, RemovalKeepsShape DEF Removes
    <3> QED
      BY <1>1, <2>3, <3>1, OrderKeptByRemoval
  <2> QED
    BY <1>1, <2>1, <2>2, <2>3, ArraySteps
<1>2. IInv /\ [Next]_vars =>
        \A a, b \in Consoles :
          Before(a, b) /\ IsRegistered(a)' /\ IsRegistered(b)' => Before(a, b)'
  BY <1>1
<1> QED
  BY <1>2, Invariance, PTL DEF Spec, OrderStable

(* Deregistering one console never drops another.                          *)
THEOREM OnlyOwnCallRemoves == Spec => LeavesOnlyByOwnCall
<1>1. ASSUME IInv, [Next]_vars, NEW d \in Consoles,
             IsRegistered(d), ~IsRegistered(d)'
      PROVE  call'.op = "deregister" /\ call'.console = d
  <2>1. CASE UNCHANGED <<consoles, console_count>>
    BY <1>1, <2>1 DEF IsRegistered, InUse
  <2>2. ASSUME NEW c \in Consoles, Appends(c) PROVE FALSE
    BY <1>1, <2>2, EntryKeepsShape DEF Appends
  <2>3. ASSUME NEW c \in Consoles, Removes(c)
        PROVE  call'.op = "deregister" /\ call'.console = d
    <3>1. c = d
      BY <1>1, <2>3, RemovalKeepsShape DEF Removes
    <3> QED
      BY <2>3, <3>1 DEF Removes
  <2> QED
    BY <1>1, <2>1, <2>2, <2>3, ArraySteps
<1>2. IInv /\ [Next]_vars =>
        \A c \in Consoles :
          IsRegistered(c) /\ ~IsRegistered(c)' =>
            call'.op = "deregister" /\ call'.console = c
  BY <1>1
<1> QED
  BY <1>2, Invariance, PTL DEF Spec, LeavesOnlyByOwnCall

(* A used-up registry accepts nobody, however many consoles have left.     *)
THEOREM SlotsRunOutForGood == Spec => ExhaustionIsPermanent
<1>1. ASSUME IInv, [Next]_vars, console_count = MAX_CONSOLES
      PROVE  console_count' = MAX_CONSOLES /\ Registered' \subseteq Registered
  <2>1. CASE UNCHANGED <<consoles, console_count>>
    BY <1>1, <2>1 DEF Registered, InUse
  <2>2. ASSUME NEW c \in Consoles, Appends(c) PROVE FALSE
    BY <1>1, <2>2, ConsoleAssumption DEF Appends, MayRegister
  <2>3. ASSUME NEW c \in Consoles, Removes(c)
        PROVE  console_count' = MAX_CONSOLES /\ Registered' \subseteq Registered
    <3>1. /\ console_count' = console_count
          /\ consoles' \in [Slots -> Pointers]
          /\ \A d \in Consoles : IsRegistered(d)' => IsRegistered(d)
      BY <1>1, <2>3, RemovalKeepsShape DEF Removes
    <3>2. ASSUME NEW r \in Registered' PROVE r \in Registered
      <4>1. PICK i \in InUse' : consoles'[i] = r
        BY DEF Registered
      <4>2. r # NULL /\ r \in Consoles
        BY <1>1, <3>1, <4>1, ConsoleAssumption
        DEF Registered, InUse, Slots, Pointers
      <4>3. IsRegistered(r)
        BY <3>1, <4>1, <4>2 DEF IsRegistered
      <4> QED
        BY <4>3 DEF IsRegistered, Registered
    <3> QED
      BY <1>1, <3>1, <3>2
  <2> QED
    BY <1>1, <2>1, <2>2, <2>3, ArraySteps
<1>2. IInv /\ [Next]_vars =>
        (console_count = MAX_CONSOLES =>
          console_count' = MAX_CONSOLES /\ Registered' \subseteq Registered)
  BY <1>1
<1> QED
  BY <1>2, Invariance, PTL DEF Spec, ExhaustionIsPermanent

-----------------------------------------------------------------------------
(* The array implements the abstract registry: each call maps to the call  *)
(* of the same name, refused calls to refused calls.                       *)
LEMMA MemberIffRegistered ==
    ASSUME NEW d
    PROVE  d \in Registered <=> IsRegistered(d)
  BY DEF Registered, IsRegistered

LEMMA MembersAreConsoles == IInv => Registered \subseteq Consoles
<1>1. ASSUME IInv, NEW i \in InUse PROVE consoles[i] \in Pointers
  BY <1>1, ConsoleAssumption DEF IInv, TypeOK, InUse, Slots
<1> QED
  BY <1>1 DEF Registered, Pointers

LEMMA MembersAreConsolesNext == IInv' => (Registered \subseteq Consoles)'
  BY MembersAreConsoles, PTL

LEMMA EntryIsEnter ==
    ASSUME IInv, IInv', NEW c \in Pointers, RegisterConsole(c), MayRegister(c)
    PROVE  c \in Consoles /\ Registry!Enter(c)
<1>1. /\ Appends(c) /\ Answer("register", c, TRUE) /\ c \in Consoles
      /\ IF console_count' = 1
         THEN SwitchOn(c) ELSE UNCHANGED <<active_console, activations>>
  BY DEF RegisterConsole, Appends, MayRegister, Pointers
<1>2. \A d \in Consoles : IsRegistered(d)' <=> IsRegistered(d) \/ d = c
  BY <1>1, EntryKeepsShape DEF Appends
<1>3. \A d : d \in Registered' <=> IsRegistered(d)'
  BY DEF Registered, IsRegistered
<1>4. Registered' = Registered \cup {c}
  BY <1>1, <1>2, <1>3, MemberIffRegistered, MembersAreConsoles,
     MembersAreConsolesNext
<1>5. c \notin Registered /\ console_count < MAX_CONSOLES
  BY <1>1, MemberIffRegistered DEF MayRegister
<1>6. active_console' = IF console_count = 0 THEN c ELSE active_console
  BY <1>1 DEF Appends, SwitchOn, IInv, TypeOK
<1> QED
  BY <1>1, <1>4, <1>5, <1>6
  DEF Registry!Enter, Registry!Answered, Answer, Appends

LEMMA RemovalIsLeave ==
    ASSUME IInv, IInv', NEW c \in Pointers, DeregisterConsole(c), IsRegistered(c)
    PROVE  c \in Consoles /\ Registry!Leave(c)
<1>1. /\ Removes(c) /\ Answer("deregister", c, TRUE) /\ SwitchOff
      /\ c \in Consoles
  BY DEF DeregisterConsole, RefuseToDeregister, Removes, Answer, IsRegistered,
         Pointers
<1>2. \A d \in Consoles : IsRegistered(d)' <=> IsRegistered(d) /\ d # c
  BY <1>1, RemovalKeepsShape DEF Removes
<1>3. \A d : d \in Registered' <=> IsRegistered(d)'
  BY DEF Registered, IsRegistered
<1>4. Registered' = Registered \ {c}
  BY <1>1, <1>2, <1>3, MemberIffRegistered, MembersAreConsoles,
     MembersAreConsolesNext
<1> QED
  BY <1>1, <1>4, MemberIffRegistered
  DEF Registry!Leave, Registry!Answered, Answer, Removes, SwitchOff

LEMMA InitRefines == Init => Registry!Init
<1>1. Init => Registered = {}
  BY DEF Init, Registered, InUse, Slots
<1> QED
  BY <1>1 DEF Init, Registry!Init

LEMMA StepRefines ==
    IInv /\ IInv' /\ [Next]_vars => [Registry!Next]_(Registry!vars)
<1> SUFFICES ASSUME IInv, IInv', [Next]_vars
             PROVE  Registry!Next \/ UNCHANGED Registry!vars
  OBVIOUS
<1>1. UNCHANGED <<consoles, console_count>> => Registered' = Registered
  BY DEF Registered, InUse
<1>2. ASSUME NEW c \in Pointers, RegisterConsole(c) PROVE Registry!Next
  <2>1. CASE MayRegister(c)
    BY <1>2, <2>1, EntryIsEnter DEF Registry!Next
  <2>2. CASE ~MayRegister(c)
    <3>1. Registry!Refused("register", c)
      BY <1>1, <1>2, <2>2
      DEF RegisterConsole, Registry!Refused, Registry!Answered, Answer
    <3>2. c \in Registered \cup {NULL} \/ console_count = MAX_CONSOLES
      BY <2>2, MemberIffRegistered, ConsoleAssumption
      DEF MayRegister, IInv, TypeOK
    <3> QED
      BY <3>1, <3>2 DEF Registry!Next, Pointers
  <2> QED
    BY <2>1, <2>2
<1>3. ASSUME NEW c \in Pointers, DeregisterConsole(c) PROVE Registry!Next
  <2>1. CASE IsRegistered(c)
    BY <1>3, <2>1, RemovalIsLeave DEF Registry!Next
  <2>2. CASE ~IsRegistered(c)
    <3>1. Registry!Refused("deregister", c)
      BY <1>1, <1>3, <2>2
      DEF DeregisterConsole, RefuseToDeregister, Registry!Refused,
          Registry!Answered, Answer
    <3> QED
      BY <2>2, <3>1, MemberIffRegistered DEF Registry!Next, Pointers
  <2> QED
    BY <2>1, <2>2
<1>4. ASSUME NEW c \in Pointers, ActivateConsole(c) PROVE Registry!Next
  <2>1. CASE IsRegistered(c)
    <3>1. c \in Consoles
      BY <2>1 DEF IsRegistered, Pointers
    <3>2. Registry!Activate(c)
      BY <1>1, <1>4, <2>1, MemberIffRegistered
      DEF ActivateConsole, SwitchOn, Registry!Activate, Registry!Answered, Answer
    <3> QED
      BY <3>1, <3>2 DEF Registry!Next
  <2>2. CASE ~IsRegistered(c)
    <3>1. Registry!Refused("activate", c)
      BY <1>1, <1>4, <2>2
      DEF ActivateConsole, Registry!Refused, Registry!Answered, Answer
    <3> QED
      BY <2>2, <3>1, MemberIffRegistered DEF Registry!Next, Pointers
  <2> QED
    BY <2>1, <2>2
<1>5. ASSUME DeactivateConsole PROVE Registry!Next
  BY <1>1, <1>5
  DEF DeactivateConsole, SwitchOff, Answer, Registry!Next, Registry!Deactivate,
      Registry!Answered
<1>6. ASSUME NEW op \in IOOps, UseConsole(op) PROVE Registry!Next
  <2>1. active_console # NULL => active_console \in Registered
    BY MemberIffRegistered DEF IInv, ActiveIsRegistered
  <2> QED
    BY <1>1, <1>6, <2>1
    DEF UseConsole, Answer, IOOps, Registry!Next, Registry!Serve,
        Registry!Answered
<1>7. CASE UNCHANGED vars
  BY <1>1, <1>7 DEF vars, Registry!vars
<1> QED
  BY <1>2, <1>3, <1>4, <1>5, <1>6, <1>7 DEF Next

(* Every behaviour of the array, its shifts and its driver callbacks is a   *)
(* behaviour of the abstract registry with a lifetime budget.              *)
THEOREM Refinement == Spec => RefinesRegistry
  BY InitRefines, StepRefines, Invariance, PTL
  DEF Spec, RefinesRegistry, Registry!Spec
=============================================================================
