----------------------------- MODULE PmmProofs -----------------------------
(***************************************************************************)
(* Theorems about the physical memory manager, for every word width, page  *)
(* size and end of the kernel that PmmAssumption allows.                   *)
(***************************************************************************)
EXTENDS Pmm, TLAPS

-----------------------------------------------------------------------------
(***************************************************************************)
(* Facts about quotients and remainders that the proofs about page         *)
(* addresses rest on.                                                      *)
(***************************************************************************)

\* Division with a remainder.
LEMMA DivMod ==
    ASSUME NEW a \in Nat, NEW b \in Nat \ {0}
    PROVE  /\ a \div b \in Nat /\ a % b \in 0 .. b - 1
           /\ a = b * (a \div b) + (a % b)
OBVIOUS

\* Successive multiples are a divisor apart.
LEMMA NextMultiple ==
    ASSUME NEW b \in Nat \ {0}, NEW x \in Int, NEW y \in Int, x < y
    PROVE  b * x + b <= b * y
OBVIOUS

\* Quotient and remainder are unique.
LEMMA DivModUnique ==
    ASSUME NEW a \in Nat, NEW b \in Nat \ {0}, NEW q \in Int, NEW r \in 0 .. b - 1,
           a = b * q + r
    PROVE  a % b = r /\ a \div b = q
<1> DEFINE d == a \div b
           m == a % b
<1>1. d \in Int /\ m \in 0 .. b - 1 /\ b * d + m = b * q + r
  BY DivMod
<1> HIDE DEF d, m
<1>2. ~(d < q)
  <2> SUFFICES ASSUME d < q PROVE FALSE
    OBVIOUS
  <2>1. b * d + b <= b * q
    BY <1>1, NextMultiple
  <2> QED BY <1>1, <2>1
<1>3. ~(q < d)
  <2> SUFFICES ASSUME q < d PROVE FALSE
    OBVIOUS
  <2>1. b * q + b <= b * d
    BY <1>1, NextMultiple
  <2> QED BY <1>1, <2>1
<1>4. d = q
  BY <1>1, <1>2, <1>3
<1> QED BY <1>1, <1>4 DEF d, m

\* What is smaller than the divisor is its own remainder.
LEMMA ModSmall ==
    ASSUME NEW b \in Nat \ {0}, NEW a \in 0 .. b - 1
    PROVE  a % b = a
<1>1. a = b * 0 + a
  OBVIOUS
<1> QED BY <1>1, DivModUnique

\* Remainders may be taken before or after an addition.
LEMMA ModOfSum ==
    ASSUME NEW a \in Nat, NEW c \in Nat, NEW b \in Nat \ {0}
    PROVE  ((a % b) + c) % b = (a + c) % b
<1> DEFINE q == a \div b
           r == a % b
           s == (r + c) \div b
           t == (r + c) % b
<1>1. q \in Nat /\ r \in 0 .. b - 1 /\ a = b * q + r
  BY DivMod
<1>2. s \in Nat /\ t \in 0 .. b - 1 /\ r + c = b * s + t
  <2>1. r + c \in Nat
    BY <1>1
  <2> HIDE DEF r
  <2> QED BY <2>1, DivMod
<1> HIDE DEF q, s
<1>3. a + c = b * (q + s) + t
  BY <1>1, <1>2
<1>4. a + c \in Nat /\ q + s \in Int
  BY <1>1, <1>2
<1>5. (a + c) % b = t
  BY <1>2, <1>3, <1>4, DivModUnique
<1> QED BY <1>5

\* Different numbers with the same remainder are at least a divisor apart.
LEMMA ModEqual ==
    ASSUME NEW b \in Nat \ {0}, NEW x \in Nat, NEW y \in Nat, x < y, x % b = y % b
    PROVE  y - x >= b
<1> DEFINE d == x \div b
           e == y \div b
           r == x % b
<1>1. /\ d \in Nat /\ e \in Nat /\ r \in 0 .. b - 1
      /\ x = b * d + r /\ y = b * e + r
  BY DivMod
<1> HIDE DEF d, e, r
<1>2. d < e
  <2> SUFFICES ASSUME ~(d < e) PROVE FALSE
    OBVIOUS
  <2>1. CASE d = e
    BY <1>1, <2>1
  <2>2. CASE e < d
    <3>1. b * e + b <= b * d
      BY <1>1, <2>2, NextMultiple
    <3> QED BY <1>1, <3>1
  <2> QED BY <1>1, <2>1, <2>2
<1>3. b * d + b <= b * e
  BY <1>1, <1>2, NextMultiple
<1> QED BY <1>1, <1>3

\* A multiple leaves no remainder.
LEMMA MultipleMod ==
    ASSUME NEW b \in Nat \ {0}, NEW q \in Nat
    PROVE  b * q \in Nat /\ (b * q) % b = 0 /\ (b * q) \div b = q
<1>1. b * q \in Nat /\ b * q = b * q + 0 /\ 0 \in 0 .. b - 1
  OBVIOUS
<1> DEFINE a == b * q
<1>2. a \in Nat /\ a = b * q + 0
  BY <1>1
<1> HIDE DEF a
<1>3. a % b = 0 /\ a \div b = q
  BY <1>1, <1>2, DivModUnique
<1> QED BY <1>1, <1>3 DEF a

\* Rounding up adds less than a divisor.
LEMMA RoundedBounds ==
    ASSUME NEW b \in Nat \ {0}, NEW x \in Nat, NEW q \in Nat, NEW r \in 0 .. b - 1,
           x + (b - 1) = b * q + r
    PROVE  b * q >= x /\ b * q <= x + (b - 1)
<1> DEFINE m == b * q
<1>1. m \in Nat /\ x + (b - 1) = m + r
  OBVIOUS
<1> HIDE DEF m
<1>2. m >= x /\ m <= x + (b - 1)
  BY <1>1
<1> QED BY <1>2 DEF m

\* Rounding down adds nothing.
LEMMA FloorFits ==
    ASSUME NEW b \in Nat \ {0}, NEW w \in Nat
    PROVE  w \div b \in Nat /\ b * (w \div b) <= w
<1> DEFINE q == w \div b
           m == b * q
<1>1. q \in Nat /\ w % b \in 0 .. b - 1 /\ w = b * q + (w % b)
  BY DivMod
<1> HIDE DEF q
<1>2. m \in Nat /\ w = m + (w % b)
  BY <1>1
<1> HIDE DEF m
<1>3. m <= w
  BY <1>1, <1>2
<1> QED BY <1>1, <1>3 DEF m, q

\* x rounded up to a multiple of b.
LEMMA RoundingUp ==
    ASSUME NEW b \in Nat \ {0}, NEW x \in Nat
    PROVE  LET p == ((x + (b - 1)) \div b) * b
           IN p \in Nat /\ p >= x /\ p <= x + (b - 1) /\ p % b = 0
<1> DEFINE y == x + (b - 1)
           q == y \div b
           p == b * q
<1>1. y \in Nat
  OBVIOUS
<1> HIDE DEF y
<1>2. q \in Nat /\ y % b \in 0 .. b - 1 /\ y = b * q + (y % b)
  BY <1>1, DivMod
<1> HIDE DEF q
<1>3. p \in Nat /\ p % b = 0
  BY <1>2, MultipleMod
<1>4. p >= x /\ p <= x + (b - 1)
  BY <1>2, RoundedBounds DEF y
<1>5. q * b = p
  BY <1>2
<1> HIDE DEF p
<1> QED BY <1>3, <1>4, <1>5 DEF q, y

-----------------------------------------------------------------------------
\* The first page boundary at or behind an address.
LEMMA RoundedUp ==
    ASSUME NEW x \in Ends
    PROVE  /\ RoundPageUp(x) \in 1 .. WORD - 1
           /\ RoundPageUp(x) >= x
           /\ RoundPageUp(x) % PAGE_SIZE = 0
<1> DEFINE y == x + (PAGE_SIZE - 1)
           p == (y \div PAGE_SIZE) * PAGE_SIZE
<1>1. /\ PAGE_SIZE \in Nat \ {0} /\ WORD \in Nat \ {0}
      /\ x \in Nat /\ x >= 1 /\ y \in 0 .. WORD - 1
  BY PmmAssumption
<1>2. p \in Nat /\ p >= x /\ p <= y /\ p % PAGE_SIZE = 0
  BY <1>1, RoundingUp
<1> HIDE DEF y
<1>3. y % WORD = y
  BY <1>1, ModSmall
<1>4. RoundPageUp(x) = p
  BY <1>3 DEF RoundPageUp, RoundPageDown, y
<1> HIDE DEF p
<1> QED BY <1>1, <1>2, <1>4
-----------------------------------------------------------------------------
(***************************************************************************)
(* The inductive invariant: the pages handed out are the successive pages  *)
(* from the first one past the kernel, and the cursor is at the next one,  *)
(* all modulo the number of addresses.  The cursor alone says nothing of   *)
(* the pages handed out before, and the properties are about those.        *)
(***************************************************************************)
PageNumber(n) == (start + (n - 1) * PAGE_SIZE) % WORD

StartIsPastEnd ==
    state # "off" => start \in 1 .. WORD - 1 /\ start >= end /\ start % PAGE_SIZE = 0

HandedInOrder == \A n \in DOMAIN handed : handed[n] = PageNumber(n)

NothingHandedEarly == state = "off" => handed = <<>> /\ start = 0

IInv ==
    /\ TypeOK
    /\ StartIsPastEnd
    /\ NothingHandedEarly
    /\ HandedInOrder
    /\ next = PageNumber(Len(handed) + 1)

LEMMA NextPage ==
    ASSUME TypeOK, next = PageNumber(Len(handed) + 1), NEW i \in Nat
    PROVE  (next + i * PAGE_SIZE) % WORD = PageNumber(Len(handed) + 1 + i)
<1>1. /\ PAGE_SIZE \in Nat \ {0} /\ WORD \in Nat \ {0}
      /\ start \in Nat /\ Len(handed) \in Nat
  BY PmmAssumption DEF TypeOK, Addresses
<1> DEFINE a == start + Len(handed) * PAGE_SIZE
           c == i * PAGE_SIZE
<1>2. a \in Nat /\ c \in Nat
  BY <1>1
<1>3. next = a % WORD
  BY <1>1 DEF PageNumber
<1>4. start + (Len(handed) + 1 + i - 1) * PAGE_SIZE = a + c
  BY <1>1
<1> HIDE DEF a, c
<1>5. ((a % WORD) + c) % WORD = (a + c) % WORD
  <2>1. WORD \in Nat \ {0}
    BY <1>1
  <2> QED BY <1>2, <2>1, ModOfSum
<1> QED BY <1>3, <1>4, <1>5 DEF PageNumber, c

-----------------------------------------------------------------------------
LEMMA InitIInv == Init => IInv
<1> SUFFICES ASSUME Init PROVE IInv
  OBVIOUS
<1>1. WORD \in Nat \ {0} /\ 0 \in Addresses
  BY PmmAssumption DEF Init, Addresses
<1>2. TypeOK
  BY <1>1, PmmAssumption DEF Init, TypeOK, Pages
<1>3. PageNumber(Len(handed) + 1) = 0
  <2>1. start + (Len(handed) + 1 - 1) * PAGE_SIZE = 0
    BY PmmAssumption DEF Init
  <2>2. 0 % WORD = 0
    BY <1>1, ModSmall
  <2> QED BY <2>1, <2>2 DEF PageNumber
<1> QED BY <1>2, <1>3
        DEF Init, IInv, StartIsPastEnd, NothingHandedEarly, HandedInOrder

LEMMA InitializeKeeps == IInv /\ InitializePmm => IInv'
<1> SUFFICES ASSUME IInv, InitializePmm PROVE IInv'
  OBVIOUS
<1> DEFINE s == RoundPageUp(end)
<1>1. s \in 1 .. WORD - 1 /\ s >= end /\ s % PAGE_SIZE = 0
  BY RoundedUp DEF IInv, TypeOK
<1> HIDE DEF s
<1>2. /\ start' = s /\ next' = s /\ state' = "on"
      /\ end' = end /\ handed' = handed /\ freed' = freed /\ answer' = answer
      /\ handed = <<>>
  BY DEF InitializePmm, IInv, NothingHandedEarly, s
<1>3. TypeOK'
  BY <1>1, <1>2, PmmAssumption DEF IInv, TypeOK, Addresses, Pages
<1>4. PageNumber(Len(handed) + 1)' = s
  <2>1. start' + (Len(handed') + 1 - 1) * PAGE_SIZE = s
    BY <1>1, <1>2, PmmAssumption
  <2>2. s % WORD = s
    BY <1>1, PmmAssumption, ModSmall
  <2> QED BY <2>1, <2>2 DEF PageNumber
<1> QED BY <1>1, <1>2, <1>3, <1>4
        DEF IInv, StartIsPastEnd, NothingHandedEarly, HandedInOrder

LEMMA AllocateKeeps ==
    ASSUME NEW count \in 0 .. MaxCount, IInv, AllocatePages(count)
    PROVE  IInv'
<1> DEFINE new == AddressesFrom(next, count)
<1>1. /\ WORD \in Nat \ {0} /\ PAGE_SIZE \in Nat \ {0} /\ count \in Nat
      /\ next \in Nat /\ handed \in Seq(Addresses) /\ Len(handed) \in Nat
  BY PmmAssumption DEF IInv, TypeOK, Addresses
<1>2. /\ state = "on" /\ state' = state /\ end' = end /\ start' = start
      /\ freed' = freed /\ answer' = count
      /\ handed' = handed \o new
      /\ next' = (next + count * PAGE_SIZE) % WORD
  BY DEF AllocatePages
<1>3. new \in Seq(Addresses) /\ Len(new) = count
  <2>1. \A x \in Nat : x % WORD \in Addresses
    BY <1>1, DivMod DEF Addresses
  <2>2. \A i \in 1 .. count : next + (i - 1) * PAGE_SIZE \in Nat
    BY <1>1
  <2>3. new \in [1 .. count -> Addresses]
    BY <2>1, <2>2 DEF AddressesFrom
  <2> QED BY <1>1, <2>3
<1>4. \A i \in 1 .. count : new[i] = PageNumber(Len(handed) + i)
  <2> TAKE i \in 1 .. count
  <2>1. new[i] = (next + (i - 1) * PAGE_SIZE) % WORD
    BY DEF AddressesFrom
  <2>2. (next + (i - 1) * PAGE_SIZE) % WORD = PageNumber(Len(handed) + 1 + (i - 1))
    BY NextPage DEF IInv
  <2>3. Len(handed) + 1 + (i - 1) = Len(handed) + i
    BY <1>1
  <2> QED BY <2>1, <2>2, <2>3
<1>5. next' = PageNumber(Len(handed) + 1 + count)
  BY <1>1, <1>2, NextPage DEF IInv
<1> HIDE DEF new
<1>6. /\ handed' \in Seq(Addresses) /\ Len(handed') = Len(handed) + count
      /\ \A n \in DOMAIN handed : n \in DOMAIN handed' /\ handed'[n] = handed[n]
      /\ \A n \in DOMAIN handed' \ DOMAIN handed :
            n - Len(handed) \in 1 .. count /\ handed'[n] = new[n - Len(handed)]
  <2>1. /\ handed' \in Seq(Addresses) /\ Len(handed') = Len(handed) + count
        /\ DOMAIN handed' = 1 .. Len(handed) + count
        /\ DOMAIN handed = 1 .. Len(handed)
    <3>1. handed \o new \in Seq(Addresses)
      BY <1>1, <1>3
    <3>2. Len(handed \o new) = Len(handed) + count
      BY <1>1, <1>3
    <3>3. \A t \in Seq(Addresses) : DOMAIN t = 1 .. Len(t)
      OBVIOUS
    <3> QED BY <1>1, <1>2, <3>1, <3>2, <3>3
  <2>2. \A n \in 1 .. Len(handed) + count :
            handed'[n] = IF n <= Len(handed) THEN handed[n]
                         ELSE new[n - Len(handed)]
    BY <1>1, <1>2, <1>3
  <2>3. \A n \in DOMAIN handed' \ DOMAIN handed :
            n - Len(handed) \in 1 .. count /\ ~(n <= Len(handed))
    BY <1>1, <2>1
  <2>4. \A n \in DOMAIN handed : n \in DOMAIN handed' /\ n <= Len(handed)
    BY <1>1, <2>1
  <2> QED BY <2>1, <2>2, <2>3, <2>4
<1>7. TypeOK'
  <2>1. freed' \subseteq Pages'
    BY <1>2, <1>6 DEF IInv, TypeOK, Pages
  <2>2. next' \in Addresses
    <3>1. next + count * PAGE_SIZE \in Nat
      BY <1>1
    <3> QED BY <1>1, <1>2, <3>1, DivMod DEF Addresses
  <2> QED BY <1>2, <1>6, <2>1, <2>2 DEF IInv, TypeOK
<1>8. HandedInOrder'
  <2> SUFFICES ASSUME NEW n \in DOMAIN handed'
               PROVE  handed'[n] = PageNumber(n)'
    BY DEF HandedInOrder
  <2>1. PageNumber(n)' = PageNumber(n)
    BY <1>2 DEF PageNumber
  <2>2. CASE n \in DOMAIN handed
    BY <1>6, <2>1, <2>2 DEF IInv, HandedInOrder
  <2>3. CASE n \notin DOMAIN handed
    <3>1. n - Len(handed) \in 1 .. count /\ handed'[n] = new[n - Len(handed)]
      BY <1>6, <2>3
    <3>2. Len(handed) + (n - Len(handed)) = n
      BY <1>1, <1>6
    <3> QED BY <1>4, <2>1, <3>1, <3>2
  <2> QED BY <2>2, <2>3
<1>9. next' = PageNumber(Len(handed) + 1)'
  <2>1. Len(handed') + 1 = Len(handed) + 1 + count
    BY <1>1, <1>6
  <2> QED BY <1>2, <1>5, <2>1 DEF PageNumber
<1> QED BY <1>2, <1>7, <1>8, <1>9
        DEF IInv, StartIsPastEnd, NothingHandedEarly

\* Freeing and a panic leave the cursor and the pages handed out alone.
LEMMA OthersKeep ==
    ASSUME IInv,
           end' = end, start' = start, next' = next, handed' = handed,
           answer' = answer,
           \/ state' = state
           \/ state = "on" /\ state' = "halted",
           freed' \subseteq Pages
    PROVE  IInv'
<1>1. TypeOK'
  BY DEF IInv, TypeOK, Pages
<1>2. HandedInOrder' /\ (next = PageNumber(Len(handed) + 1))'
  BY DEF IInv, HandedInOrder, PageNumber
<1>3. StartIsPastEnd' /\ NothingHandedEarly'
  BY DEF IInv, StartIsPastEnd, NothingHandedEarly
<1> QED BY <1>1, <1>2, <1>3 DEF IInv

LEMMA NextKeepsIInv == IInv /\ [Next]_vars => IInv'
<1> SUFFICES ASSUME IInv, [Next]_vars PROVE IInv'
  OBVIOUS
<1>1. CASE InitializePmm
  BY <1>1, InitializeKeeps
<1>2. ASSUME NEW count \in 0 .. MaxCount, AllocatePages(count) PROVE IInv'
  BY <1>2, AllocateKeeps
<1>3. ASSUME NEW p \in Pages, FreePage(p) PROVE IInv'
  <2>1. freed' = freed \cup {p} /\ freed \subseteq Pages
    BY <1>3 DEF FreePage, IInv, TypeOK
  <2>2. freed' \subseteq Pages
    BY <2>1
  <2>3. /\ end' = end /\ start' = start /\ next' = next
        /\ handed' = handed /\ answer' = answer /\ state' = state
    BY <1>3 DEF FreePage
  <2> QED BY <2>2, <2>3, OthersKeep
<1>4. CASE PanicOnNull
  BY <1>4, OthersKeep DEF PanicOnNull, IInv, TypeOK
<1>5. CASE UNCHANGED vars
  <2>1. /\ end' = end /\ start' = start /\ next' = next
        /\ handed' = handed /\ answer' = answer /\ state' = state
        /\ freed' = freed
    BY <1>5 DEF vars
  <2>2. freed' \subseteq Pages
    BY <2>1 DEF IInv, TypeOK
  <2> QED BY <2>1, <2>2, OthersKeep
<1> QED BY <1>1, <1>2, <1>3, <1>4, <1>5 DEF Next

-----------------------------------------------------------------------------
LEMMA UsableFromIInv == IInv => PagesAreUsable
<1> SUFFICES ASSUME IInv, Len(handed) <= PagesAbove, NEW n \in DOMAIN handed
             PROVE  /\ handed[n] % PAGE_SIZE = 0
                    /\ handed[n] >= end /\ handed[n] # 0
  BY DEF PagesAreUsable, Pages
<1> DEFINE k == (n - 1) * PAGE_SIZE
<1>1. /\ WORD \in Nat \ {0} /\ PAGE_SIZE \in Nat \ {0} /\ end \in Nat
      /\ Len(handed) \in Nat /\ n \in 1 .. Len(handed)
  BY PmmAssumption DEF IInv, TypeOK
<1>2. start \in 1 .. WORD - 1 /\ start >= end /\ start % PAGE_SIZE = 0
  BY <1>1 DEF IInv, StartIsPastEnd, NothingHandedEarly
<1>3. WORD - start \in Nat /\ PagesAbove \in Nat
      /\ WORD - start >= PAGE_SIZE * PagesAbove
  <2> DEFINE w == WORD - start
  <2>1. w \in Nat
    BY <1>1, <1>2
  <2> HIDE DEF w
  <2>2. w \div PAGE_SIZE \in Nat /\ PAGE_SIZE * (w \div PAGE_SIZE) <= w
    BY <1>1, <2>1, FloorFits
  <2> QED BY <2>1, <2>2 DEF w, PagesAbove
<1>4. k \in Nat /\ k + PAGE_SIZE <= PAGE_SIZE * PagesAbove
  <2>1. n - 1 < PagesAbove
    BY <1>1, <1>3
  <2>2. PAGE_SIZE * (n - 1) + PAGE_SIZE <= PAGE_SIZE * PagesAbove
    BY <1>1, <1>3, <2>1, NextMultiple
  <2> QED BY <1>1, <2>2
<1> HIDE DEF k
<1>5. start + k \in 0 .. WORD - 1
  <2> DEFINE m == PAGE_SIZE * PagesAbove
  <2>1. m \in Nat
    BY <1>1, <1>3
  <2> HIDE DEF m
  <2>2. k + PAGE_SIZE <= m /\ WORD - start >= m
    BY <1>3, <1>4 DEF m
  <2> QED BY <1>1, <1>2, <1>4, <2>1, <2>2
<1>6. handed[n] = start + k
  <2>1. (start + k) % WORD = start + k
    BY <1>1, <1>5, ModSmall
  <2> QED BY <2>1 DEF IInv, HandedInOrder, PageNumber, k
<1>7. (start + k) % PAGE_SIZE = 0
  <2>1. start \in Nat
    BY <1>2
  <2>2. k = PAGE_SIZE * (n - 1) /\ n - 1 \in Nat
    BY <1>1 DEF k
  <2>3. k % PAGE_SIZE = 0
    BY <1>1, <2>2, MultipleMod
  <2>4. ((start % PAGE_SIZE) + k) % PAGE_SIZE = (start + k) % PAGE_SIZE
    BY <1>1, <1>4, <2>1, ModOfSum
  <2> QED BY <1>2, <1>4, <2>3, <2>4
<1> QED BY <1>1, <1>2, <1>4, <1>6, <1>7

LEMMA NeverTwiceFromIInv == IInv => NeverTwice
<1> SUFFICES ASSUME IInv, NEW m \in DOMAIN handed, NEW n \in DOMAIN handed,
                    m < n, handed[m] = handed[n]
             PROVE  n - m >= WORD \div PAGE_SIZE
  BY DEF NeverTwice
<1> DEFINE x == start + (m - 1) * PAGE_SIZE
           y == start + (n - 1) * PAGE_SIZE
           d == (n - m) * PAGE_SIZE
<1>1. /\ WORD \in Nat \ {0} /\ PAGE_SIZE \in Nat \ {0} /\ start \in Nat
      /\ Len(handed) \in Nat /\ m \in Nat \ {0} /\ n \in Nat \ {0}
  BY PmmAssumption DEF IInv, TypeOK, Addresses
<1>2. n - m \in Nat \ {0}
  BY <1>1
<1>3. x \in Nat /\ d \in Nat \ {0}
  BY <1>1, <1>2
<1>4. y = x + d
  BY <1>1
<1>5. x % WORD = y % WORD
  BY DEF IInv, HandedInOrder, PageNumber
<1> HIDE DEF x, y, d
<1>6. d >= WORD
  <2>1. y \in Nat /\ x < y
    BY <1>3, <1>4
  <2>2. y - x >= WORD
    BY <1>1, <1>3, <1>5, <2>1, ModEqual
  <2> QED BY <1>3, <1>4, <2>2
<1>7. /\ WORD \div PAGE_SIZE \in Nat /\ WORD % PAGE_SIZE = 0
      /\ WORD = PAGE_SIZE * (WORD \div PAGE_SIZE) + (WORD % PAGE_SIZE)
  BY <1>1, PmmAssumption, DivMod
<1> DEFINE q == WORD \div PAGE_SIZE
<1>8. q \in Nat /\ WORD = PAGE_SIZE * q
  BY <1>1, <1>7
<1> HIDE DEF q
<1>9. ~(n - m < q)
  <2> SUFFICES ASSUME n - m < q PROVE FALSE
    OBVIOUS
  <2>1. PAGE_SIZE * (n - m) + PAGE_SIZE <= PAGE_SIZE * q
    <3> DEFINE e == n - m
    <3>1. e \in Int /\ q \in Int /\ e < q
      BY <1>2, <1>8
    <3> HIDE DEF e
    <3>2. PAGE_SIZE * e + PAGE_SIZE <= PAGE_SIZE * q
      BY <1>1, <3>1, NextMultiple
    <3> QED BY <3>2 DEF e
  <2>2. PAGE_SIZE * (n - m) = d
    BY <1>1, <1>2 DEF d
  <2> QED BY <1>1, <1>3, <1>6, <1>8, <2>1, <2>2
<1> QED BY <1>2, <1>8, <1>9 DEF q

-----------------------------------------------------------------------------
\* The cursor and everything it handed out stay within the address space
\* (pmm.c allocates modulo 2^XLEN), and only pages handed out are freed.
THEOREM TypeCorrect == Spec => []TypeOK
<1>1. IInv => TypeOK
  BY DEF IInv
<1> QED BY <1>1, InitIInv, NextKeepsIInv, PTL DEF Spec

\* allocate_physical_pages hands out aligned pages past __end, none of them
\* 0, for every width of address, page size and end of the kernel, until the
\* cursor reaches the end of the address space.
THEOREM AllocatesUsablePages == Spec => []PagesAreUsable
BY InitIInv, NextKeepsIInv, UsableFromIInv, PTL DEF Spec

\* No page is handed out twice, whatever is freed in between, before the
\* cursor has gone through the whole address space.
THEOREM AllocatesNoPageTwice == Spec => []NeverTwice
BY InitIInv, NextKeepsIInv, NeverTwiceFromIInv, PTL DEF Spec
=============================================================================
