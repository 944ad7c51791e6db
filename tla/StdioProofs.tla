---------------------------- MODULE StdioProofs -----------------------------
(***************************************************************************)
(* Theorems about formatted output, for every format, buffer size, string  *)
(* and width of int: where the characters of a text end up.                *)
(***************************************************************************)
EXTENDS Stdio, WellFoundedInduction, SequenceTheorems, TLAPS

Streams == {"debug", "console"}

(***************************************************************************)
(* The inductive invariant: the length that decides whether a character    *)
(* fits is that of the whole text, and what has been written is the part   *)
(* of it that fits.                                                        *)
(***************************************************************************)
AreSequences == \E S : text \in Seq(S) /\ output \in Seq(S)

Counted == length = Len(text)

Opened ==
    /\ call.n \in Nat
    /\ pc = "entry" =>
        type = "measure" /\ text = <<>> /\ output = <<>> /\ string = <<>>
    /\ type \in {"measure", "string"} \cup Streams
    /\ type \in Streams => capacity = INT_MAX
    /\ type = "string" => capacity = call.n

Written ==
    pc # "done" /\ type = "string" =>
        LET kept == Smaller(Len(text), call.n - 1)
        IN /\ DOMAIN string = 0 .. kept - 1
           /\ \A k \in 1 .. kept : string[k - 1] = text[k]

IInv ==
    /\ AreSequences /\ Counted /\ Opened
    /\ Written /\ BufferContents /\ StreamIsPrefix

-----------------------------------------------------------------------------
\* One more character in the text.
LEMMA LongerText ==
    ASSUME NEW S, NEW c, NEW t \in Seq(S)
    PROVE  /\ Append(t, c) \in Seq(S \cup {c})
           /\ Len(t) \in Nat /\ Len(Append(t, c)) = Len(t) + 1
           /\ \A k \in 1 .. Len(t) : Append(t, c)[k] = t[k]
           /\ Append(t, c)[Len(t) + 1] = c
<1>1. t \in Seq(S \cup {c})
  OBVIOUS
<1> QED BY <1>1

LEMMA PrintChrKeeps ==
    ASSUME IInv, NEW c, PrintChr(c), pc \notin {"entry", "done"}, pc' # "entry",
           pc' # "done", call' = call, type' = type, capacity' = capacity
    PROVE  IInv'
<1> PICK S : text \in Seq(S) /\ output \in Seq(S)
  BY DEF IInv, AreSequences
<1> DEFINE l == Len(text)
<1>1. /\ l \in Nat /\ length = l /\ length' = l + 1 /\ text' = Append(text, c)
      /\ Len(text') = l + 1 /\ text'[l + 1] = c
      /\ \A k \in 1 .. l : text'[k] = text[k]
      /\ text' \in Seq(S \cup {c})
  BY LongerText DEF IInv, Counted, PrintChr
<1>2. /\ call.n \in Nat /\ type \in {"measure", "string"} \cup Streams
      /\ type \in Streams => capacity = INT_MAX
      /\ type = "string" => capacity = call.n
      /\ INT_MAX \in Nat \ {0}
  BY StdioAssumption DEF IInv, Opened
<1>3. Fits <=> l + 1 < capacity
  BY <1>1 DEF Fits
<1>4. /\ Len(output) = IF type \in Streams THEN Smaller(l, INT_MAX - 1) ELSE 0
      /\ \A k \in 1 .. Len(output) : output[k] = text[k]
  BY DEF IInv, StreamIsPrefix, Streams
<1> HIDE DEF l
<1>5. AreSequences' /\ StreamIsPrefix'
  <2>1. CASE type \in Streams /\ Fits
    <3>1. output' = Append(output, c)
      BY <2>1 DEF PrintChr, Streams
    <3>2. /\ output' \in Seq(S \cup {c}) /\ Len(output') = Len(output) + 1
          /\ \A k \in 1 .. Len(output) : output'[k] = output[k]
          /\ output'[Len(output) + 1] = c
      BY <3>1, LongerText
    <3>3. Len(output) = l /\ Smaller(l + 1, INT_MAX - 1) = l + 1
      BY <1>1, <1>2, <1>3, <1>4, <2>1 DEF Smaller
    <3>4. \A k \in 1 .. l + 1 : output'[k] = text'[k]
      BY <1>1, <1>4, <3>2, <3>3
    <3> QED BY <1>1, <2>1, <3>2, <3>3, <3>4 DEF AreSequences, StreamIsPrefix, Streams
  <2>2. CASE ~(type \in Streams /\ Fits)
    <3>1. output' = output
      BY <2>2 DEF PrintChr, Streams
    <3>2. output' \in Seq(S \cup {c})
      BY <3>1
    <3>3. type \in Streams =>
            Smaller(l + 1, INT_MAX - 1) = Smaller(l, INT_MAX - 1)
      BY <1>1, <1>2, <1>3, <2>2 DEF Smaller
    <3>4. \A k \in 1 .. Len(output) : k \in 1 .. l
      BY <1>1, <1>2, <1>4 DEF Smaller
    <3>5. \A k \in 1 .. Len(output) : output'[k] = text'[k]
      BY <1>1, <1>4, <3>1, <3>4
    <3> QED BY <1>1, <1>4, <3>1, <3>2, <3>3, <3>5
            DEF AreSequences, StreamIsPrefix, Streams
  <2> QED BY <2>1, <2>2
<1>6. Written'
  <2> SUFFICES ASSUME type = "string"
               PROVE  LET kept == Smaller(l + 1, call.n - 1)
                      IN /\ DOMAIN string' = 0 .. kept - 1
                         /\ \A k \in 1 .. kept : string'[k - 1] = text'[k]
    BY <1>1 DEF Written
  <2>1. LET kept == Smaller(l, call.n - 1)
        IN /\ DOMAIN string = 0 .. kept - 1
           /\ \A k \in 1 .. kept : string[k - 1] = text[k]
    BY DEF IInv, Written, l
  <2>2. CASE Fits
    <3>1. Smaller(l, call.n - 1) = l /\ Smaller(l + 1, call.n - 1) = l + 1
      BY <1>1, <1>2, <1>3, <2>2 DEF Smaller
    <3>2. string' = [k \in DOMAIN string \cup {l} |-> IF k = l THEN c ELSE string[k]]
      BY <1>1, <2>2 DEF PrintChr, Write
    <3>3. DOMAIN string' = 0 .. l
      BY <1>1, <2>1, <3>1, <3>2
    <3>4. string'[l] = c /\ \A k \in 0 .. l - 1 : string'[k] = string[k]
      BY <1>1, <2>1, <3>1, <3>2
    <3>5. \A k \in 1 .. l + 1 : string'[k - 1] = text'[k]
      <4> TAKE k \in 1 .. l + 1
      <4>1. CASE k = l + 1
        <5>1. k - 1 = l
          BY <1>1, <4>1
        <5> QED BY <1>1, <3>4, <4>1, <5>1
      <4>2. CASE k # l + 1
        <5>1. k \in 1 .. l /\ k - 1 \in 0 .. l - 1
          BY <1>1, <4>2
        <5> QED BY <1>1, <2>1, <3>1, <3>4, <5>1
      <4> QED BY <4>1, <4>2
    <3> QED BY <1>1, <3>1, <3>3, <3>5
  <2>3. CASE ~Fits
    <3>1. string' = string /\ Smaller(l + 1, call.n - 1) = Smaller(l, call.n - 1)
      BY <1>1, <1>2, <1>3, <2>3 DEF PrintChr, Smaller
    <3>2. \A k \in 1 .. Smaller(l, call.n - 1) : k \in 1 .. l
      BY <1>1, <1>2 DEF Smaller
    <3> QED BY <1>1, <2>1, <3>1, <3>2
  <2> QED BY <2>2, <2>3
<1>7. Counted' /\ Opened' /\ BufferContents'
  BY <1>1, <1>2 DEF Counted, Opened, BufferContents
<1> QED BY <1>5, <1>6, <1>7 DEF IInv

\* A step that prints nothing and does not end the call.
LEMMA SilentKeeps ==
    ASSUME IInv, length' = length, string' = string, output' = output, text' = text,
           call' = call, type' = type, capacity' = capacity,
           \/ pc \notin {"entry", "done"} /\ pc' \notin {"entry", "done"}
           \/ pc' = pc
    PROVE  IInv'
<1>1. AreSequences' /\ Counted' /\ Opened'
  BY DEF IInv, AreSequences, Counted, Opened
<1>2. Written' /\ BufferContents' /\ StreamIsPrefix'
  BY DEF IInv, Written, BufferContents, StreamIsPrefix
<1> QED BY <1>1, <1>2 DEF IInv

-----------------------------------------------------------------------------
LEMMA InitIInv == Init => IInv
<1> SUFFICES ASSUME Init PROVE IInv
  OBVIOUS
<1>1. /\ pc = "entry" /\ type = "measure" /\ text = <<>> /\ output = <<>>
      /\ string = <<>> /\ length = 0 /\ call.n \in Nat
  <2>1. call \in Calls
    BY DEF Init
  <2>2. CASE call \in [fn : {"vsnprintf"}, s : {NULL, "buffer"}, n : Sizes,
                      format : Formats \cup {NULL}]
    <3>1. call.n \in Sizes
      BY <2>2
    <3>2. Sizes \subseteq Nat
      BY StdioAssumption
    <3> QED BY <3>1, <3>2 DEF Init
  <2>3. CASE call \in [fn : {"vprintf", "vdprintf"}, s : {NULL}, n : {0},
                      format : Formats \cup {NULL}]
    BY <2>3 DEF Init
  <2> QED BY <2>1, <2>2, <2>3 DEF Calls
<1>2. Len(text) = 0 /\ Len(output) = 0 /\ text \in Seq({}) /\ output \in Seq({})
  BY <1>1
<1> QED BY <1>1, <1>2 DEF IInv, AreSequences, Counted, Opened, Written,
                          BufferContents, StreamIsPrefix, Streams

\* A call refused prints nothing; one that begins starts with an empty text.
LEMMA EntryKeeps == IInv /\ (Vsnprintf \/ Vprintf \/ Vdprintf) => IInv'
<1> SUFFICES ASSUME IInv, Vsnprintf \/ Vprintf \/ Vdprintf PROVE IInv'
  OBVIOUS
<1>1. /\ pc = "entry" /\ pc' \in {"format", "done"}
      /\ length' = length /\ string' = string /\ output' = output /\ text' = text
      /\ call' = call
      /\ \/ pc' = "done" /\ type' = type /\ capacity' = capacity
         \/ pc' = "format" /\ type' \in Streams /\ capacity' = INT_MAX
         \/ pc' = "format" /\ type' \in {"measure", "string"} /\ capacity' = call.n
  BY DEF Vsnprintf, Vprintf, Vdprintf, Refuse, Return, Begin, place, sinks, Streams
<1>2. /\ type = "measure" /\ text = <<>> /\ output = <<>> /\ string = <<>>
      /\ call.n \in Nat /\ INT_MAX \in Nat \ {0} /\ length = 0
      /\ Len(text) = 0 /\ Len(output) = 0
  BY <1>1, StdioAssumption DEF IInv, Opened, Counted
<1>3. AreSequences' /\ Counted' /\ Opened'
  BY <1>1, <1>2 DEF IInv, AreSequences, Counted, Opened, Streams
<1>4. StreamIsPrefix'
  BY <1>1, <1>2 DEF StreamIsPrefix, Smaller
<1>5. Written' /\ BufferContents'
  <2>1. DOMAIN string = {}
    BY <1>2
  <2>2. Smaller(0, call.n - 1) \in Int /\ Smaller(0, call.n - 1) <= 0
    BY <1>2 DEF Smaller
  <2> QED BY <1>1, <1>2, <2>1, <2>2 DEF Written, BufferContents, Streams
<1> QED BY <1>3, <1>4, <1>5 DEF IInv

\* _finalize_print.
LEMMA EndKeeps == IInv /\ (End \/ BadDirective) => IInv'
<1> SUFFICES ASSUME IInv, End \/ BadDirective PROVE IInv'
  OBVIOUS
<1> DEFINE l == Len(text)
<1>1. /\ pc = "format" /\ pc' = "done" /\ call' = call /\ type' = type
      /\ capacity' = capacity /\ length' = length /\ output' = output
      /\ text' = text /\ Finalize
  BY DEF End, BadDirective, Return, place
<1>2. /\ l \in Nat /\ length = l /\ call.n \in Nat
  BY DEF IInv, AreSequences, Counted, Opened
<1>3. AreSequences' /\ Counted' /\ Opened' /\ Written' /\ StreamIsPrefix'
  BY <1>1 DEF IInv, AreSequences, Counted, Opened, Written, StreamIsPrefix
<1>4. BufferContents'
  <2> SUFFICES ASSUME type = "string"
               PROVE  LET kept == Smaller(l, call.n - 1)
                      IN /\ DOMAIN string' = (0 .. kept - 1) \cup {l}
                         /\ \A k \in 1 .. kept : string'[k - 1] = text[k]
                         /\ string'[l] = 0
    BY <1>1 DEF BufferContents
  <2> DEFINE kept == Smaller(l, call.n - 1)
  <2>1. /\ DOMAIN string = 0 .. kept - 1
        /\ \A k \in 1 .. kept : string[k - 1] = text[k]
    BY <1>1 DEF IInv, Written
  <2>2. kept \in Int /\ kept <= l
    BY <1>2 DEF Smaller
  <2> HIDE DEF kept, l
  <2>3. string' = [k \in DOMAIN string \cup {l} |-> IF k = l THEN 0 ELSE string[k]]
    BY <1>1, <1>2 DEF Finalize, Write
  <2>4. \A k \in 1 .. kept : string'[k - 1] = string[k - 1]
    BY <1>2, <2>1, <2>2, <2>3
  <2> QED BY <2>1, <2>3, <2>4 DEF kept
<1> QED BY <1>3, <1>4 DEF IInv

\* The loops over digits and characters.
LEMMA LoopsKeep == IInv /\ (Digit \/ PrintNext \/ PrintedAll) => IInv'
<1> SUFFICES ASSUME IInv, Digit \/ PrintNext \/ PrintedAll PROVE IInv'
  OBVIOUS
<1>1. CASE Digit
  <2>1. /\ pc = "digits" /\ pc' \in {"digits", "chars"} /\ call' = call
        /\ type' = type /\ capacity' = capacity /\ length' = length
        /\ string' = string /\ output' = output /\ text' = text
    BY <1>1 DEF Digit, place, sinks
  <2> QED BY <2>1, SilentKeeps
<1>2. CASE PrintNext
  <2>1. /\ pc = "chars" /\ pc' = "chars" /\ PrintChr(Head(rest))
        /\ call' = call /\ type' = type /\ capacity' = capacity
    BY <1>2 DEF PrintNext, place
  <2> QED BY <2>1, PrintChrKeeps
<1>3. CASE PrintedAll
  <2>1. /\ pc = "chars" /\ pc' = "format" /\ call' = call
        /\ type' = type /\ capacity' = capacity /\ length' = length
        /\ string' = string /\ output' = output /\ text' = text
    BY <1>3 DEF PrintedAll, place, sinks
  <2> QED BY <2>1, SilentKeeps
<1> QED BY <1>1, <1>2, <1>3

\* Directives of one character.
LEMMA CharactersKeep == IInv /\ (Literal \/ Percent \/ Chr) => IInv'
<1> SUFFICES ASSUME IInv, Literal \/ Percent \/ Chr PROVE IInv'
  OBVIOUS
<1>1. /\ pc = "format" /\ pc' = "format"
      /\ call' = call /\ type' = type /\ capacity' = capacity
      /\ PrintChr(Arg) \/ PrintChr(37) \/ PrintChr(Arg % 256)
  BY DEF Literal, Percent, Chr, Take, place
<1> QED BY <1>1, PrintChrKeeps

\* Directives that only prepare a loop or store a count.
LEMMA ConversionsKeep ==
    IInv /\ (\/ Str \/ Int_ \/ Octal \/ HexLower \/ HexUpper \/ Unsigned
             \/ CountSoFar \/ Ptr) => IInv'
<1> SUFFICES ASSUME IInv, \/ Str \/ Int_ \/ Octal \/ HexLower \/ HexUpper
                          \/ Unsigned \/ CountSoFar \/ Ptr
             PROVE  IInv'
  OBVIOUS
<1>1. /\ pc = "format" /\ pc' \in {"format", "digits", "chars"}
      /\ call' = call /\ type' = type /\ capacity' = capacity
      /\ length' = length /\ string' = string /\ output' = output /\ text' = text
  BY DEF Str, Int_, Octal, HexLower, HexUpper, Unsigned, CountSoFar, Ptr,
         Take, Convert, place, sinks
<1> QED BY <1>1, SilentKeeps

LEMMA NextKeepsIInv == IInv /\ [Next]_vars => IInv'
<1>1. ASSUME IInv, UNCHANGED vars PROVE IInv'
  BY <1>1, SilentKeeps DEF vars
<1> QED BY <1>1, EntryKeeps, EndKeeps, LoopsKeep, CharactersKeep, ConversionsKeep
        DEF Next

-----------------------------------------------------------------------------
\* snprintf writes the characters that fit and nothing else before the
\* terminator, which goes behind the whole text, for every format and size.
THEOREM BufferHoldsText == Spec => []BufferContents
<1>1. IInv => BufferContents
  BY DEF IInv
<1> QED BY <1>1, InitIInv, NextKeepsIInv, PTL DEF Spec

\* printf and dprintf pass on a prefix of the text: everything up to INT_MAX - 1
\* characters, in order and once.
THEOREM OutputIsPrefix == Spec => []StreamIsPrefix
<1>1. IInv => StreamIsPrefix
  BY DEF IInv
<1> QED BY <1>1, InitIInv, NextKeepsIInv, PTL DEF Spec

-----------------------------------------------------------------------------
(***************************************************************************)
(* Recursive functions.                                                    *)
(***************************************************************************)
Below == {pair \in Nat \X Nat : pair[1] < pair[2]}

\* A nonempty set of naturals has a least element.
LEMMA LeastElement ==
    ASSUME NEW S, S \subseteq Nat, S # {}
    PROVE  \E n \in S : \A m \in S : n <= m
<1>1. IsWellFoundedOn(Below, Nat)
  BY NatLessThanWellFounded DEF OpToRel, Below
<1>2. PICK n \in S : \A m \in S : ~ (<<m, n>> \in Below)
  BY <1>1, WFMin
<1>3. ASSUME NEW m \in S PROVE n <= m
  <2>1. m \in Nat /\ n \in Nat
    OBVIOUS
  <2>2. m < n => <<m, n>> \in Below
    BY <2>1 DEF Below
  <2>3. ~ (m < n)
    BY <1>2, <2>2
  <2> QED BY <2>1, <2>3
<1> QED BY <1>3

\* Induction, for a set.
LEMMA Induction ==
    ASSUME NEW S, 0 \in S, \A n \in Nat : n \in S => n + 1 \in S
    PROVE  Nat \subseteq S
<1>1. SUFFICES ASSUME NEW k \in Nat, k \notin S PROVE FALSE
  OBVIOUS
<1>2. PICK n \in Nat \ S : \A m \in Nat \ S : n <= m
  <2>1. Nat \ S \subseteq Nat /\ Nat \ S # {}
    BY <1>1
  <2> QED BY <2>1, LeastElement
<1>3. n # 0 /\ n - 1 \in Nat
  BY <1>2
<1>4. n - 1 \in S
  BY <1>2, <1>3
<1> QED BY <1>2, <1>3, <1>4

Follows(f, V, first, m, step) ==
    /\ f \in [0 .. m -> V]
    /\ f[0] = first
    /\ \A n \in 1 .. m : f[n] = step[n][f[n - 1]]

\* A recursion over 0 .. N, a step per number, is well defined.
LEMMA Recursion ==
    ASSUME NEW V, NEW first \in V, NEW N \in Nat, NEW step,
           \A n \in 1 .. N, v \in V : step[n][v] \in V
    PROVE  \E f : Follows(f, V, first, N, step)
<1> DEFINE S == {m \in Nat : m <= N => \E f : Follows(f, V, first, m, step)}
<1>1. 0 \in S
  <2> DEFINE f == [n \in 0 .. 0 |-> first]
  <2>1. Follows(f, V, first, 0, step)
    BY DEF Follows
  <2> QED BY <2>1
<1>2. ASSUME NEW m \in Nat, m \in S PROVE m + 1 \in S
  <2>1. SUFFICES ASSUME m + 1 <= N PROVE \E f : Follows(f, V, first, m + 1, step)
    OBVIOUS
  <2>2. PICK f : Follows(f, V, first, m, step)
    BY <1>2, <2>1
  <2>3. f[m] \in V /\ m + 1 \in 1 .. N
    BY <2>1, <2>2 DEF Follows
  <2>4. step[m + 1][f[m]] \in V
    BY <2>3
  <2> DEFINE g == [n \in 0 .. m + 1 |-> IF n = m + 1 THEN step[m + 1][f[m]] ELSE f[n]]
  <2>5. g \in [0 .. m + 1 -> V]
    BY <2>2, <2>4 DEF Follows
  <2>6. g[0] = first
    BY <2>2 DEF Follows
  <2>7. ASSUME NEW n \in 1 .. m + 1 PROVE g[n] = step[n][g[n - 1]]
    <3>1. CASE n = m + 1
      BY <3>1
    <3>2. CASE n # m + 1
      <4>1. n \in 1 .. m /\ n - 1 \in 0 .. m
        BY <3>2
      <4> QED BY <2>2, <4>1 DEF Follows
    <3> QED BY <3>1, <3>2
  <2> QED BY <2>5, <2>6, <2>7 DEF Follows
<1>3. N \in S
  <2> HIDE DEF S
  <2> QED BY <1>1, <1>2, Induction
<1> QED BY <1>3

\* What holds at 0 and is passed on holds up to N.
LEMMA UpTo ==
    ASSUME NEW V, NEW N \in Nat, NEW h, h[0] \in V,
           \A n \in 1 .. N : h[n - 1] \in V => h[n] \in V
    PROVE  \A n \in 0 .. N : h[n] \in V
<1> DEFINE S == {n \in Nat : n <= N => h[n] \in V}
<1>1. 0 \in S
  OBVIOUS
<1>2. ASSUME NEW n \in Nat, n \in S PROVE n + 1 \in S
  <2>1. SUFFICES ASSUME n + 1 <= N PROVE h[n + 1] \in V
    OBVIOUS
  <2>2. n + 1 \in 1 .. N /\ (n + 1) - 1 = n /\ h[n] \in V
    BY <1>2, <2>1
  <2> QED BY <2>2
<1>3. Nat \subseteq S
  <2> HIDE DEF S
  <2> QED BY <1>1, <1>2, Induction
<1> QED BY <1>3

-----------------------------------------------------------------------------
(***************************************************************************)
(* Positional numerals.                                                    *)
(***************************************************************************)
LEMMA Bounds == INT_MAX \in Nat \ {0} /\ BUFFER_SIZE \in Nat /\ BUFFER_SIZE > 2
BY StdioAssumption

LEMMA PlaceValues ==
    ASSUME NEW base \in Nat \ {0}
    PROVE  /\ PlaceValue(base, 0) = 1
           /\ \A k \in 1 .. BUFFER_SIZE : PlaceValue(base, k) = base * PlaceValue(base, k - 1)
           /\ \A k \in 0 .. BUFFER_SIZE : PlaceValue(base, k) \in Nat \ {0}
<1> DEFINE N == BUFFER_SIZE
           V == Nat \ {0}
           first == 1
           Body(g) == [n \in 0 .. N |-> IF n = 0 THEN 1 ELSE base * g[n - 1]]
           step == [n \in 1 .. N |-> [v \in V |-> base * v]]
           power == CHOOSE g : g = Body(g)
<1>1. N \in Nat /\ first \in V
  BY Bounds
<1>2. ASSUME NEW n \in 1 .. N, NEW v \in V PROVE step[n][v] \in V
  <2>1. base * v \in Nat \ {0}
    OBVIOUS
  <2> QED BY <2>1
<1>3. PICK f : Follows(f, V, first, N, step)
  <2> HIDE DEF step, V, N, first, power, Body
  <2> QED BY <1>1, <1>2, Recursion
<1>4. ASSUME NEW n \in 1 .. N PROVE f[n] = base * f[n - 1]
  <2>1. n - 1 \in 0 .. N
    BY <1>1
  <2>2. f[n - 1] \in V
    BY <1>3, <2>1 DEF Follows
  <2> QED BY <1>3, <2>2 DEF Follows
<1>5. f = Body(f)
  <2>1. ASSUME NEW n \in 0 .. N PROVE f[n] = Body(f)[n]
    <3>1. n = 0 \/ n \in 1 .. N
      BY <1>1
    <3> QED BY <1>3, <1>4, <3>1 DEF Follows
  <2> QED BY <1>3, <2>1 DEF Follows
<1>6. power = Body(power)
  BY <1>5
<1>7. \A k : PlaceValue(base, k) = power[k]
  BY DEF PlaceValue
<1> HIDE DEF power
<1>8. ASSUME NEW n \in 1 .. N PROVE power[n] = base * power[n - 1]
  <2>1. n \in 0 .. N /\ n # 0
    BY <1>1
  <2>2. power[n] = Body(power)[n]
    BY <1>6
  <2>3. Body(power)[n] = base * power[n - 1]
    BY <2>1
  <2> HIDE DEF Body
  <2> QED BY <2>2, <2>3
<1>9. power[0] = 1
  BY <1>1, <1>6
<1>10. ASSUME NEW n \in 1 .. N, power[n - 1] \in V PROVE power[n] \in V
  BY <1>8, <1>10
<1>11. \A n \in 0 .. N : power[n] \in V
  <2>1. power[0] \in V
    BY <1>9
  <2> HIDE DEF V, N
  <2> QED BY <1>1, <1>10, <2>1, UpTo
<1> QED BY <1>7, <1>8, <1>9, <1>11

LEMMA ProductGrows ==
    ASSUME NEW a \in Nat, NEW b \in Nat, NEW c \in Nat, NEW d \in Nat, a <= b, c <= d
    PROVE  a * c <= b * d
<1>1. \E x \in Nat : b = a + x
  <2>1. b - a \in Nat /\ b = a + (b - a)
    OBVIOUS
  <2> QED BY <2>1
<1>2. \E y \in Nat : d = c + y
  <2>1. d - c \in Nat /\ d = c + (d - c)
    OBVIOUS
  <2> QED BY <2>1
<1>3. PICK x \in Nat, y \in Nat : b = a + x /\ d = c + y
  BY <1>1, <1>2
<1>4. b * d = a * c + (a * y + x * c + x * y)
  BY <1>3
<1>5. a * y \in Nat /\ x * c \in Nat /\ x * y \in Nat /\ a * c \in Nat
  OBVIOUS
<1> QED BY <1>4, <1>5

\* More places, and a larger base, are worth more.
LEMMA PlacesGrow ==
    ASSUME NEW base \in Nat, base >= 8
    PROVE  /\ \A k \in 1 .. BUFFER_SIZE : \A j \in 0 .. k - 1 :
                 PlaceValue(base, j) < PlaceValue(base, k)
           /\ \A k \in 0 .. BUFFER_SIZE : PlaceValue(8, k) <= PlaceValue(base, k)
<1> DEFINE p == [k \in 0 .. BUFFER_SIZE |-> PlaceValue(base, k)]
           e == [k \in 0 .. BUFFER_SIZE |-> PlaceValue(8, k)]
<1>1. /\ p[0] = 1 /\ \A k \in 1 .. BUFFER_SIZE : p[k] = base * p[k - 1]
      /\ \A k \in 0 .. BUFFER_SIZE : p[k] \in Nat \ {0}
      /\ e[0] = 1 /\ \A k \in 1 .. BUFFER_SIZE : e[k] = 8 * e[k - 1]
      /\ \A k \in 0 .. BUFFER_SIZE : e[k] \in Nat \ {0}
  <2>1. base \in Nat \ {0} /\ 8 \in Nat \ {0}
    OBVIOUS
  <2>2. \A k \in 1 .. BUFFER_SIZE : k \in 0 .. BUFFER_SIZE /\ k - 1 \in 0 .. BUFFER_SIZE
    BY Bounds
  <2>3. 0 \in 0 .. BUFFER_SIZE
    BY Bounds
  <2> QED BY <2>1, <2>2, <2>3, PlaceValues
<1> HIDE DEF p, e
<1>2. ASSUME NEW k \in 1 .. BUFFER_SIZE PROVE p[k - 1] < p[k]
  <2>1. k - 1 \in 0 .. BUFFER_SIZE
    BY Bounds
  <2>2. p[k - 1] \in Nat \ {0} /\ p[k] = base * p[k - 1]
    BY <1>1, <2>1
  <2>3. 8 * p[k - 1] <= base * p[k - 1]
    BY <2>2, ProductGrows
  <2> QED BY <2>2, <2>3
<1>3. \A k \in 0 .. BUFFER_SIZE : \A j \in 0 .. k - 1 : p[j] < p[k]
  <2> DEFINE V == {k \in 0 .. BUFFER_SIZE : \A j \in 0 .. k - 1 : p[j] < p[k]}
             h == [k \in 0 .. BUFFER_SIZE |-> k]
  <2>1. h[0] \in V
    BY Bounds
  <2>2. ASSUME NEW n \in 1 .. BUFFER_SIZE, h[n - 1] \in V PROVE h[n] \in V
    <3>1. n - 1 \in 0 .. BUFFER_SIZE /\ n \in 0 .. BUFFER_SIZE /\ n - 1 \in V
      BY <2>2, Bounds
    <3>2. SUFFICES ASSUME NEW j \in 0 .. n - 1 PROVE p[j] < p[n]
      BY <3>1
    <3>3. j \in 0 .. BUFFER_SIZE /\ (j = n - 1 \/ j \in 0 .. (n - 1) - 1)
      BY Bounds
    <3>4. p[j] <= p[n - 1]
      BY <1>1, <3>1, <3>3
    <3> QED BY <1>1, <1>2, <3>1, <3>3, <3>4
  <2>3. \A n \in 0 .. BUFFER_SIZE : h[n] \in V
    <3> HIDE DEF V, h
    <3> QED BY <2>1, <2>2, UpTo, Bounds
  <2> QED BY <2>3
<1>4. \A k \in 0 .. BUFFER_SIZE : e[k] <= p[k]
  <2> DEFINE V == {k \in 0 .. BUFFER_SIZE : e[k] <= p[k]}
             h == [k \in 0 .. BUFFER_SIZE |-> k]
  <2>1. h[0] \in V
    BY <1>1, Bounds
  <2>2. ASSUME NEW n \in 1 .. BUFFER_SIZE, h[n - 1] \in V PROVE h[n] \in V
    <3>1. n - 1 \in 0 .. BUFFER_SIZE /\ n \in 0 .. BUFFER_SIZE /\ e[n - 1] <= p[n - 1]
      BY <2>2, Bounds
    <3>2. 8 * e[n - 1] <= base * p[n - 1]
      BY <1>1, <3>1, ProductGrows
    <3> QED BY <1>1, <3>1, <3>2
  <2>3. \A n \in 0 .. BUFFER_SIZE : h[n] \in V
    <3> HIDE DEF V, h
    <3> QED BY <2>1, <2>2, UpTo, Bounds
  <2> QED BY <2>3
<1>5. \A k \in 1 .. BUFFER_SIZE : k \in 0 .. BUFFER_SIZE /\ \A j \in 0 .. k - 1 : j \in 0 .. BUFFER_SIZE
  BY Bounds
<1> QED BY <1>3, <1>4, <1>5 DEF p, e

\* A number below the place value w, and not below the one before, has w digits.
LEMMA WidthIs ==
    ASSUME NEW base \in Nat, base >= 8, NEW i \in Nat, NEW w \in 1 .. BUFFER_SIZE - 1,
           i < PlaceValue(base, w), w = 1 \/ i >= PlaceValue(base, w - 1)
    PROVE  Width(i, base) = w
<1> DEFINE Covers(v) == i < PlaceValue(base, v) /\ (v = 1 \/ i >= PlaceValue(base, v - 1))
<1>1. ASSUME NEW v \in 1 .. BUFFER_SIZE - 1, NEW u \in 1 .. BUFFER_SIZE - 1, Covers(v), Covers(u), v < u
      PROVE  FALSE
  <2>1. /\ u # 1 /\ v \in 0 .. BUFFER_SIZE /\ u - 1 \in 1 .. BUFFER_SIZE /\ u - 1 \in 0 .. BUFFER_SIZE
        /\ (v = u - 1 \/ v \in 0 .. (u - 1) - 1)
    BY <1>1, Bounds
  <2>2. PlaceValue(base, v) <= PlaceValue(base, u - 1)
    BY <2>1, PlacesGrow, PlaceValues
  <2>3. PlaceValue(base, v) \in Nat /\ PlaceValue(base, u - 1) \in Nat
    BY <2>1, PlaceValues
  <2> QED BY <1>1, <2>1, <2>2, <2>3
<1>2. Covers(w)
  OBVIOUS
<1>3. Width(i, base) = CHOOSE v \in 1 .. BUFFER_SIZE - 1 : Covers(v)
  BY DEF Width
<1>4. ASSUME NEW v \in 1 .. BUFFER_SIZE - 1, Covers(v) PROVE v = w
  <2> HIDE DEF Covers
  <2>1. ~ (v < w) /\ ~ (w < v)
    BY <1>1, <1>2, <1>4
  <2> QED BY <2>1, Bounds
<1> HIDE DEF Covers
<1> QED BY <1>2, <1>3, <1>4

\* Every argument of a conversion has a numeral that leaves room for a sign.
LEMMA WidthExists ==
    ASSUME NEW base \in Nat, base >= 8, NEW i \in Nat, i < PlaceValue(8, BUFFER_SIZE - 2)
    PROVE  Width(i, base) \in 1 .. BUFFER_SIZE - 2
<1> DEFINE S == {w \in 1 .. BUFFER_SIZE - 2 : i < PlaceValue(base, w)}
<1>1. BUFFER_SIZE - 2 \in S /\ S \subseteq Nat
  <2>1. BUFFER_SIZE - 2 \in 0 .. BUFFER_SIZE /\ BUFFER_SIZE - 2 \in 1 .. BUFFER_SIZE - 2
    BY Bounds
  <2>2. /\ PlaceValue(8, BUFFER_SIZE - 2) <= PlaceValue(base, BUFFER_SIZE - 2)
        /\ PlaceValue(8, BUFFER_SIZE - 2) \in Nat /\ PlaceValue(base, BUFFER_SIZE - 2) \in Nat
    BY <2>1, PlacesGrow, PlaceValues
  <2> QED BY <2>1, <2>2, Bounds
<1>2. PICK w \in S : \A v \in S : w <= v
  <2> HIDE DEF S
  <2> QED BY <1>1, LeastElement
<1>3. w = 1 \/ i >= PlaceValue(base, w - 1)
  <2>1. SUFFICES ASSUME w # 1 PROVE i >= PlaceValue(base, w - 1)
    OBVIOUS
  <2>2. w - 1 \in 1 .. BUFFER_SIZE - 2 /\ w - 1 \in 0 .. BUFFER_SIZE /\ ~ (w <= w - 1)
    BY <2>1, Bounds
  <2>3. ~ (i < PlaceValue(base, w - 1))
    BY <1>2, <2>2
  <2>4. PlaceValue(base, w - 1) \in Nat
    BY <2>2, PlaceValues
  <2> QED BY <2>3, <2>4
<1>4. w \in 1 .. BUFFER_SIZE - 1 /\ i < PlaceValue(base, w)
  BY Bounds
<1>5. Width(i, base) = w
  BY <1>3, <1>4, WidthIs
<1> QED BY <1>5

\* Quotient and remainder.
LEMMA DivMod ==
    ASSUME NEW a \in Nat, NEW b \in Nat \ {0}
    PROVE  /\ a \div b \in Nat /\ a % b \in 0 .. b - 1
           /\ a = b * (a \div b) + (a % b)
OBVIOUS

\* Successive multiples are a divisor apart.
LEMMA NextMultiple ==
    ASSUME NEW b \in Nat \ {0}, NEW x \in Int, NEW y \in Int, x < y
    PROVE  b * x + b <= b * y
OBVIOUS

\* Quotient and remainder are unique.
LEMMA DivModUnique ==
    ASSUME NEW a \in Nat, NEW b \in Nat \ {0}, NEW q \in Int, NEW r \in 0 .. b - 1,
           a = b * q + r
    PROVE  a % b = r /\ a \div b = q
<1> DEFINE d == a \div b
           m == a % b
<1>1. d \in Int /\ m \in 0 .. b - 1 /\ b * d + m = b * q + r
  BY DivMod
<1> HIDE DEF d, m
<1>2. ~(d < q)
  <2> SUFFICES ASSUME d < q PROVE FALSE
    OBVIOUS
  <2>1. b * d + b <= b * q
    BY <1>1, NextMultiple
  <2> QED BY <1>1, <2>1
<1>3. ~(q < d)
  <2> SUFFICES ASSUME q < d PROVE FALSE
    OBVIOUS
  <2>1. b * q + b <= b * d
    BY <1>1, NextMultiple
  <2> QED BY <1>1, <2>1
<1>4. d = q
  BY <1>1, <1>2, <1>3
<1> QED BY <1>1, <1>4 DEF d, m

\* Dividing twice is dividing by the product.
LEMMA DivDiv ==
    ASSUME NEW a \in Nat, NEW b \in Nat \ {0}, NEW c \in Nat \ {0}
    PROVE  (a \div b) \div c = a \div (c * b)
<1> DEFINE q == a \div b
           r == a % b
           s == q \div c
           t == q % c
<1>1. q \in Nat /\ r \in 0 .. b - 1 /\ a = b * q + r
  BY DivMod
<1>2. s \in Nat /\ t \in 0 .. c - 1 /\ q = c * s + t
  BY <1>1, DivMod
<1> HIDE DEF q, r, s, t
<1>3. a = (c * b) * s + (b * t + r)
  <2>1. a = b * (c * s + t) + r
    BY <1>1, <1>2
  <2> QED BY <1>1, <1>2, <2>1
<1>4. c * b \in Nat \ {0}
  OBVIOUS
<1>5. b * t + r \in 0 .. (c * b) - 1
  <2>1. t <= c - 1 /\ t \in Nat /\ c - 1 \in Nat
    BY <1>2
  <2>2. b * t <= b * (c - 1)
    BY <2>1, ProductGrows
  <2>3. b * (c - 1) = c * b - b
    OBVIOUS
  <2>4. b * t \in Nat /\ r \in Nat /\ r <= b - 1
    BY <1>1, <2>1
  <2> QED BY <1>4, <2>2, <2>3, <2>4
<1>6. a \div (c * b) = s
  <2> DEFINE m == c * b
             n == b * t + r
  <2>1. m \in Nat \ {0} /\ n \in 0 .. m - 1 /\ a = m * s + n
    BY <1>3, <1>4, <1>5
  <2> HIDE DEF m, n
  <2>2. a \div m = s
    BY <1>2, <2>1, DivModUnique
  <2> QED BY <2>2 DEF m
<1> QED BY <1>6 DEF q, s

LEMMA DivZero ==
    ASSUME NEW a \in Nat, NEW b \in Nat \ {0}
    PROVE  (a \div b = 0) <=> (a < b)
<1>1. CASE a < b
  <2>1. a = b * 0 + a /\ a \in 0 .. b - 1
    BY <1>1
  <2> QED BY <1>1, <2>1, DivModUnique
<1>2. CASE ~ (a < b)
  <2>1. SUFFICES ASSUME a \div b = 0 PROVE FALSE
    BY <1>2
  <2>2. a % b \in 0 .. b - 1 /\ a = b * 0 + (a % b)
    BY <2>1, DivMod
  <2> QED BY <1>2, <2>2
<1> QED BY <1>1, <1>2

-----------------------------------------------------------------------------
(***************************************************************************)
(* What directives mean.                                                   *)
(***************************************************************************)
Text == Seq(Int)

LEMMA WiderSequence ==
    ASSUME NEW S, NEW T, S \subseteq T, NEW s \in Seq(S)
    PROVE  s \in Seq(T)
OBVIOUS

LEMMA Join ==
    /\ \A a, b \in Text : a \o b \in Text /\ Len(a \o b) = Len(a) + Len(b)
    /\ \A a, b, c \in Text : (a \o b) \o c = a \o (b \o c)
    /\ \A a \in Text : a \o <<>> = a /\ <<>> \o a = a
    /\ <<>> \in Text /\ Len(<<>>) = 0
<1>1. \A a, b \in Text : a \o b \in Text /\ Len(a \o b) = Len(a) + Len(b)
  BY ConcatProperties DEF Text
<1>2. \A a, b, c \in Text : (a \o b) \o c = a \o (b \o c)
  BY ConcatAssociative DEF Text
<1>3. \A a \in Text : a \o <<>> = a /\ <<>> \o a = a
  BY ConcatEmptySeq DEF Text
<1> QED BY <1>1, <1>2, <1>3 DEF Text

Magnitude(i) == IF i < 0 THEN -i ELSE i
Converted(d) == d.dir \in Conversions /\ ~ (d.dir = "p" /\ d.arg = 0)
BaseOf(d) == IF d.dir = "o" THEN 8 ELSE IF d.dir \in {"x", "X", "p"} THEN 16 ELSE 10
LettersOf(d) == IF d.dir \in {"X", "p"} THEN 65 ELSE 97
Before(d) ==
    IF d.dir \in {"d", "i"} /\ d.arg < 0 THEN <<45>> ELSE IF d.dir = "p" THEN <<48, 120>> ELSE <<>>

\* What StdioAssumption says of a directive.
Proper(d) ==
    /\ d.dir \in Directives /\ d.arg \in Int
    /\ d.dir = "s" => Strings[d.arg] \in Seq(1 .. 255)
    /\ d.dir \in {"literal", "o", "x", "X", "u", "p"} => d.arg \in Nat
    /\ d.dir \in Conversions =>
        Magnitude(d.arg) \in Nat /\ Magnitude(d.arg) < PlaceValue(8, BUFFER_SIZE - 2)

LEMMA FormatsProper ==
    ASSUME NEW f \in Formats
    PROVE  f \in Seq([dir : Directives, arg : Int]) /\ \A k \in 1 .. Len(f) : Proper(f[k])
<1>1. f \in Seq([dir : Directives, arg : Int])
  BY StdioAssumption
<1>2. ASSUME NEW k \in 1 .. Len(f) PROVE Proper(f[k])
  <2>1. f[k] \in [dir : Directives, arg : Int] /\ k \in DOMAIN f
    <3> DEFINE R == [dir : Directives, arg : Int]
    <3>1. f \in Seq(R)
      BY <1>1
    <3> HIDE DEF R
    <3>2. f[k] \in R /\ k \in DOMAIN f
      BY <3>1
    <3> QED BY <3>2 DEF R
  <2>2. /\ f[k].dir = "s" => f[k].arg \in DOMAIN Strings
        /\ \A a \in DOMAIN Strings : Strings[a] \in Seq(1 .. 255)
        /\ f[k].dir \in {"literal", "o", "x", "X", "u", "p"} => f[k].arg \in Nat
        /\ f[k].dir \in Conversions =>
             (-PlaceValue(8, BUFFER_SIZE - 2) < f[k].arg /\ f[k].arg < PlaceValue(8, BUFFER_SIZE - 2))
    BY <2>1, StdioAssumption
  <2>3. PlaceValue(8, BUFFER_SIZE - 2) \in Nat
    <3>1. BUFFER_SIZE - 2 \in 0 .. BUFFER_SIZE
      BY Bounds
    <3> QED BY <3>1, PlaceValues
  <2>4. f[k].dir \in Directives /\ f[k].arg \in Int
    BY <2>1
  <2>5. f[k].dir \in Conversions =>
          Magnitude(f[k].arg) \in Nat /\ Magnitude(f[k].arg) < PlaceValue(8, BUFFER_SIZE - 2)
    BY <2>2, <2>3, <2>4 DEF Magnitude
  <2> QED BY <2>2, <2>4, <2>5 DEF Proper
<1> QED BY <1>1, <1>2

\* A numeral digit by digit.
LEMMA NumeralIs ==
    ASSUME NEW base \in {8, 10, 16}, NEW i \in Nat, NEW letters \in Nat, NEW w \in 1 .. BUFFER_SIZE - 1,
           Width(i, base) = w
    PROVE  /\ Numeral(i, base, letters) \in Text /\ Len(Numeral(i, base, letters)) = w
           /\ \A k \in 1 .. w :
                LET digit == (i \div PlaceValue(base, w - k)) % base
                IN Numeral(i, base, letters)[k] = IF digit < 10 THEN 48 + digit ELSE letters + digit - 10
<1> DEFINE digit(k) == (i \div PlaceValue(base, w - k)) % base
           chr(k) == IF digit(k) < 10 THEN 48 + digit(k) ELSE letters + digit(k) - 10
<1>1. Numeral(i, base, letters) = [k \in 1 .. w |-> chr(k)]
  BY DEF Numeral
<1>2. ASSUME NEW k \in 1 .. w PROVE chr(k) \in Int
  <2>1. w - k \in 0 .. BUFFER_SIZE
    BY Bounds
  <2>2. PlaceValue(base, w - k) \in Nat \ {0}
    BY <2>1, PlaceValues
  <2>3. i \div PlaceValue(base, w - k) \in Nat
    BY <2>2, DivMod
  <2>4. digit(k) \in Int
    BY <2>3, DivMod
  <2> HIDE DEF digit
  <2> QED BY <2>4
<1>3. w \in Nat
  BY Bounds
<1> HIDE DEF chr
<1>4. [k \in 1 .. w |-> chr(k)] \in Text /\ Len([k \in 1 .. w |-> chr(k)]) = w
  BY <1>2, <1>3 DEF Text
<1> QED BY <1>1, <1>4 DEF chr

LEMMA MeaningType ==
    ASSUME NEW d, Proper(d)
    PROVE  /\ Meaning(d) \in Text
           /\ Converted(d) =>
                Meaning(d) = Before(d) \o Numeral(Magnitude(d.arg), BaseOf(d), LettersOf(d))
<1>1. ASSUME Converted(d)
      PROVE  /\ Numeral(Magnitude(d.arg), BaseOf(d), LettersOf(d)) \in Text
             /\ Numeral(Magnitude(d.arg), BaseOf(d), 97) \in Text
  <2>1. Magnitude(d.arg) \in Nat /\ Magnitude(d.arg) < PlaceValue(8, BUFFER_SIZE - 2)
    BY <1>1 DEF Proper, Converted
  <2>2. BaseOf(d) \in {8, 10, 16} /\ LettersOf(d) \in Nat
    BY DEF BaseOf, LettersOf
  <2>3. Width(Magnitude(d.arg), BaseOf(d)) \in 1 .. BUFFER_SIZE - 2
    BY <2>1, <2>2, WidthExists
  <2>4. Width(Magnitude(d.arg), BaseOf(d)) \in 1 .. BUFFER_SIZE - 1
    BY <2>3, Bounds
  <2> QED BY <2>1, <2>2, <2>4, NumeralIs
<1>2. ASSUME Converted(d)
      PROVE  Meaning(d) = Before(d) \o Numeral(Magnitude(d.arg), BaseOf(d), LettersOf(d))
  <2> DEFINE n == Numeral(Magnitude(d.arg), BaseOf(d), LettersOf(d))
  <2>1. n \in Text /\ <<>> \o n = n
    BY <1>1, <1>2, Join
  <2>2. CASE d.dir \in {"d", "i"}
    <3>1. Meaning(d) = IF d.arg < 0 THEN <<45>> \o Numeral(-d.arg, 10, 97) ELSE Numeral(d.arg, 10, 97)
      BY <2>2 DEF Meaning
    <3> QED BY <2>1, <2>2, <3>1 DEF Before, BaseOf, LettersOf, Magnitude
  <2>3. CASE d.dir = "o"
    <3>1. Meaning(d) = Numeral(d.arg, 8, 97) /\ d.arg \in Nat
      BY <2>3 DEF Meaning, Proper
    <3>2. ~ (d.arg < 0)
      BY <3>1
    <3> QED BY <2>1, <2>3, <3>1, <3>2 DEF Before, BaseOf, LettersOf, Magnitude
  <2>4. CASE d.dir = "x"
    <3>1. Meaning(d) = Numeral(d.arg, 16, 97) /\ d.arg \in Nat
      BY <2>4 DEF Meaning, Proper
    <3>2. ~ (d.arg < 0)
      BY <3>1
    <3> QED BY <2>1, <2>4, <3>1, <3>2 DEF Before, BaseOf, LettersOf, Magnitude
  <2>5. CASE d.dir = "X"
    <3>1. Meaning(d) = Numeral(d.arg, 16, 65) /\ d.arg \in Nat
      BY <2>5 DEF Meaning, Proper
    <3>2. ~ (d.arg < 0)
      BY <3>1
    <3> QED BY <2>1, <2>5, <3>1, <3>2 DEF Before, BaseOf, LettersOf, Magnitude
  <2>6. CASE d.dir = "u"
    <3>1. Meaning(d) = Numeral(d.arg, 10, 97) /\ d.arg \in Nat
      BY <2>6 DEF Meaning, Proper
    <3>2. ~ (d.arg < 0)
      BY <3>1
    <3> QED BY <2>1, <2>6, <3>1, <3>2 DEF Before, BaseOf, LettersOf, Magnitude
  <2>7. CASE d.dir = "p"
    <3>1. d.arg \in Nat /\ d.arg # 0
      BY <1>2, <2>7 DEF Converted, Proper
    <3>2. Meaning(d) = <<48, 120>> \o Numeral(d.arg, 16, 65) /\ ~ (d.arg < 0)
      BY <2>7, <3>1 DEF Meaning
    <3> QED BY <2>1, <2>7, <3>2 DEF Before, BaseOf, LettersOf, Magnitude
  <2> QED BY <1>2, <2>2, <2>3, <2>4, <2>5, <2>6, <2>7 DEF Converted, Conversions
<1>3. Meaning(d) \in Text
  <2>1. CASE Converted(d)
    <3>1. Before(d) \in Text
      <4>1. <<45>> \in Text /\ <<48, 120>> \in Text /\ <<>> \in Text
        BY DEF Text
      <4>2. Before(d) = <<45>> \/ Before(d) = <<48, 120>> \/ Before(d) = <<>>
        BY DEF Before
      <4> QED BY <4>1, <4>2
    <3> DEFINE b == Before(d)
               n == Numeral(Magnitude(d.arg), BaseOf(d), LettersOf(d))
    <3>2. n \in Text /\ Meaning(d) = b \o n
      BY <1>1, <1>2, <2>1
    <3>3. b \in Text
      BY <3>1
    <3> HIDE DEF b, n
    <3> QED BY <3>2, <3>3, Join
  <2>2. CASE ~ Converted(d)
    <3>1. CASE d.dir = "s"
      <4>1. Meaning(d) = Strings[d.arg] /\ Strings[d.arg] \in Seq(1 .. 255)
        BY <3>1 DEF Meaning, Proper
      <4> DEFINE t == Strings[d.arg]
      <4>2. t \in Seq(1 .. 255) /\ 1 .. 255 \subseteq Int
        BY <4>1
      <4> HIDE DEF t
      <4>3. t \in Seq(Int)
        BY <4>2, WiderSequence
      <4> QED BY <4>1, <4>3 DEF Text, t
    <3>2. CASE d.dir = "literal"
      <4>1. Meaning(d) = <<d.arg>> /\ d.arg \in Int
        BY <3>2 DEF Meaning, Proper
      <4> QED BY <4>1 DEF Text
    <3>3. CASE d.dir = "c"
      <4>1. Meaning(d) = <<d.arg % 256>> /\ d.arg \in Int
        BY <3>3 DEF Meaning, Proper
      <4>2. d.arg % 256 \in Int
        BY <4>1
      <4> QED BY <4>1, <4>2 DEF Text
    <3>4. CASE d.dir = "%"
      <4>1. Meaning(d) = <<37>>
        BY <3>4 DEF Meaning
      <4> QED BY <4>1 DEF Text
    <3>5. CASE d.dir = "p" /\ d.arg = 0
      <4>1. Meaning(d) = <<40, 110, 105, 108, 41>>
        BY <3>5 DEF Meaning
      <4> QED BY <4>1 DEF Text
    <3>6. CASE d.dir \in {"n", "bad"}
      <4>1. Meaning(d) = <<>>
        BY <3>6 DEF Meaning
      <4> QED BY <4>1, Join
    <3> QED BY <2>2, <3>1, <3>2, <3>3, <3>4, <3>5, <3>6 DEF Converted, Conversions, Proper, Directives
  <2> QED BY <2>1, <2>2
<1> QED BY <1>2, <1>3

\* The text of a format, directive by directive.
LEMMA MeaningSteps ==
    ASSUME NEW f \in Formats
    PROVE  /\ MeaningOf(f, 0) = <<>>
           /\ \A k \in 1 .. Len(f) :
                MeaningOf(f, k) = MeaningOf(f, k - 1) \o Meaning(f[k])
           /\ \A k \in 0 .. Len(f) : MeaningOf(f, k) \in Text
<1> DEFINE N == Len(f)
           none == <<>>
           Body(g) == [n \in 0 .. N |-> IF n = 0 THEN <<>> ELSE g[n - 1] \o Meaning(f[n])]
           step == [n \in 1 .. N |-> [v \in Text |-> v \o Meaning(f[n])]]
           upTo == CHOOSE g : g = Body(g)
<1>1. N \in Nat /\ none \in Text
  BY FormatsProper, Join
<1>0. \A n \in 1 .. N : Meaning(f[n]) \in Text
  BY FormatsProper, MeaningType
<1>2. ASSUME NEW n \in 1 .. N, NEW v \in Text PROVE step[n][v] \in Text
  BY <1>0, <1>2, Join
<1>3. PICK h : Follows(h, Text, none, N, step)
  <2> HIDE DEF step, N, none, upTo, Body
  <2> QED BY <1>1, <1>2, Recursion
<1>4. ASSUME NEW n \in 1 .. N PROVE h[n] = h[n - 1] \o Meaning(f[n])
  <2>1. n - 1 \in 0 .. N
    BY <1>1
  <2>2. h[n - 1] \in Text
    BY <1>3, <2>1 DEF Follows
  <2> QED BY <1>3, <2>2 DEF Follows
<1>5. h = Body(h)
  <2>1. ASSUME NEW n \in 0 .. N PROVE h[n] = Body(h)[n]
    <3>1. n = 0 \/ n \in 1 .. N
      BY <1>1
    <3> QED BY <1>3, <1>4, <3>1 DEF Follows
  <2> QED BY <1>3, <2>1 DEF Follows
<1>6. upTo = Body(upTo)
  BY <1>5
<1>7. \A k : MeaningOf(f, k) = upTo[k]
  BY DEF MeaningOf
<1> HIDE DEF upTo
<1>8. ASSUME NEW n \in 1 .. N PROVE upTo[n] = upTo[n - 1] \o Meaning(f[n])
  <2>1. n \in 0 .. N /\ n # 0
    BY <1>1
  <2>2. upTo[n] = Body(upTo)[n]
    BY <1>6
  <2>3. Body(upTo)[n] = upTo[n - 1] \o Meaning(f[n])
    BY <2>1
  <2> HIDE DEF Body
  <2> QED BY <2>2, <2>3
<1>9. upTo[0] = none
  BY <1>1, <1>6
<1>10. ASSUME NEW n \in 1 .. N, upTo[n - 1] \in Text PROVE upTo[n] \in Text
  <2> DEFINE u == upTo[n - 1]
  <2>1. upTo[n] = step[n][u]
    BY <1>8, <1>10
  <2> HIDE DEF step
  <2> QED BY <1>2, <1>10, <2>1
<1>11. \A n \in 0 .. N : upTo[n] \in Text
  <2>1. upTo[0] \in Text
    BY <1>1, <1>9
  <2> HIDE DEF N
  <2> QED BY <1>1, <1>10, <2>1, UpTo
<1> QED BY <1>7, <1>8, <1>9, <1>11

LEMMA ToIntType == ASSUME NEW i \in Nat PROVE ToInt(i) \in Int
<1> DEFINE m == 2 * INT_MAX + 2
           j == i + INT_MAX + 1
<1>1. j \in Nat /\ m \in Nat \ {0} /\ INT_MAX \in Nat
  BY Bounds
<1>2. ToInt(i) = (j % m) - INT_MAX - 1
  BY DEF ToInt
<1> HIDE DEF m, j
<1>3. j % m \in Int
  BY <1>1, DivMod
<1> QED BY <1>1, <1>2, <1>3

\* What %n stores, directive by directive.
LEMMA StoredSteps ==
    ASSUME NEW f \in Formats
    PROVE  /\ StoredBy(f, 0) = <<>>
           /\ \A k \in 1 .. Len(f) :
                StoredBy(f, k) = IF f[k].dir = "n" THEN Append(StoredBy(f, k - 1), ToInt(Len(MeaningOf(f, k)))) ELSE StoredBy(f, k - 1)
           /\ \A k \in 0 .. Len(f) : StoredBy(f, k) \in Text
<1> DEFINE N == Len(f)
           none == <<>>
           Body(g) == [n \in 0 .. N |-> IF n = 0 THEN <<>> ELSE IF f[n].dir = "n" THEN Append(g[n - 1], ToInt(Len(MeaningOf(f, n)))) ELSE g[n - 1]]
           step == [n \in 1 .. N |-> [v \in Text |-> IF f[n].dir = "n" THEN Append(v, ToInt(Len(MeaningOf(f, n)))) ELSE v]]
           upTo == CHOOSE g : g = Body(g)
<1>1. N \in Nat /\ none \in Text
  BY FormatsProper, Join
<1>0. \A n \in 1 .. N : ToInt(Len(MeaningOf(f, n))) \in Int
  <2>1. ASSUME NEW n \in 1 .. N PROVE ToInt(Len(MeaningOf(f, n))) \in Int
    <3>1. n \in 0 .. N
      BY <1>1
    <3>2. MeaningOf(f, n) \in Text
      BY <3>1, MeaningSteps
    <3>3. Len(MeaningOf(f, n)) \in Nat
      BY <3>2 DEF Text
    <3> QED BY <3>3, ToIntType
  <2> QED BY <2>1
<1>2. ASSUME NEW n \in 1 .. N, NEW v \in Text PROVE step[n][v] \in Text
  <2>1. Append(v, ToInt(Len(MeaningOf(f, n)))) \in Text
    BY <1>0, <1>2 DEF Text
  <2> QED BY <2>1
<1>3. PICK h : Follows(h, Text, none, N, step)
  <2> HIDE DEF step, N, none, upTo, Body
  <2> QED BY <1>1, <1>2, Recursion
<1>4. ASSUME NEW n \in 1 .. N PROVE h[n] = IF f[n].dir = "n" THEN Append(h[n - 1], ToInt(Len(MeaningOf(f, n)))) ELSE h[n - 1]
  <2>1. n - 1 \in 0 .. N
    BY <1>1
  <2>2. h[n - 1] \in Text
    BY <1>3, <2>1 DEF Follows
  <2> QED BY <1>3, <2>2 DEF Follows
<1>5. h = Body(h)
  <2>1. ASSUME NEW n \in 0 .. N PROVE h[n] = Body(h)[n]
    <3>1. n = 0 \/ n \in 1 .. N
      BY <1>1
    <3> QED BY <1>3, <1>4, <3>1 DEF Follows
  <2> QED BY <1>3, <2>1 DEF Follows
<1>6. upTo = Body(upTo)
  BY <1>5
<1>7. \A k : StoredBy(f, k) = upTo[k]
  BY DEF StoredBy
<1> HIDE DEF upTo
<1>8. ASSUME NEW n \in 1 .. N PROVE upTo[n] = IF f[n].dir = "n" THEN Append(upTo[n - 1], ToInt(Len(MeaningOf(f, n)))) ELSE upTo[n - 1]
  <2>1. n \in 0 .. N /\ n # 0
    BY <1>1
  <2>2. upTo[n] = Body(upTo)[n]
    BY <1>6
  <2>3. Body(upTo)[n] = IF f[n].dir = "n" THEN Append(upTo[n - 1], ToInt(Len(MeaningOf(f, n)))) ELSE upTo[n - 1]
    BY <2>1
  <2> HIDE DEF Body
  <2> QED BY <2>2, <2>3
<1>9. upTo[0] = none
  BY <1>1, <1>6
<1>10. ASSUME NEW n \in 1 .. N, upTo[n - 1] \in Text PROVE upTo[n] \in Text
  <2> DEFINE u == upTo[n - 1]
  <2>1. upTo[n] = step[n][u]
    BY <1>8, <1>10
  <2> HIDE DEF step
  <2> QED BY <1>2, <1>10, <2>1
<1>11. \A n \in 0 .. N : upTo[n] \in Text
  <2>1. upTo[0] \in Text
    BY <1>1, <1>9
  <2> HIDE DEF N
  <2> QED BY <1>1, <1>10, <2>1, UpTo
<1> QED BY <1>7, <1>8, <1>9, <1>11

-----------------------------------------------------------------------------
(***************************************************************************)
(* The invariant of a whole call.  Between conversions the text is what    *)
(* the directives done mean; within one, the digits so far are the last    *)
(* ones of the number's numeral, and number is what they leave over.       *)
(***************************************************************************)
Suffix ==
    /\ Len(format) <= Len(call.format)
    /\ \A k \in 1 .. Len(format) : format[k] = call.format[Done + k]
    /\ \A k \in 1 .. Done : call.format[k].dir # "bad"

Underway ==
    pc \in {"format", "digits", "chars"} =>
        /\ call.format \in Formats /\ call.n <= INT_MAX
        /\ Suffix
        /\ stored = StoredBy(call.format, Done)

Clean ==
    /\ pc = "entry" => text = <<>> /\ stored = <<>>
    /\ pc \in {"entry", "format"} => rest = <<>>
    /\ pc # "digits" => prefix = <<>>

Meant == pc \in {"format", "chars"} => text \o rest = MeaningOf(call.format, Done)

\* The digits in rest are the last of i's numeral, for the flags in force.
Digits(i, k) ==
    /\ i < PlaceValue(flags.base, BUFFER_SIZE - 2)
    /\ Len(rest) = k /\ k + 3 <= BUFFER_SIZE
    /\ number = i \div PlaceValue(flags.base, k)
    /\ k # 0 => number # 0
    /\ \A j \in 1 .. k : rest[j] = DigitChr((i \div PlaceValue(flags.base, k - j)) % flags.base)

InDigits ==
    pc = "digits" =>
        LET d == call.format[Done]
        IN /\ Done >= 1 /\ Converted(d)
           /\ flags = [base |-> BaseOf(d), lowercase |-> (d.dir = "x")]
           /\ prefix = Before(d)
           /\ text = MeaningOf(call.format, Done - 1)
           /\ Digits(Magnitude(d.arg), Len(rest))

Meaningful ==
    TypeOK /\ Underway /\ Clean /\ Meant /\ InDigits /\ AnswerTellsLength

-----------------------------------------------------------------------------
\* One character appended is one character joined.
LEMMA AppendJoins ==
    ASSUME NEW t \in Text, NEW c \in Int
    PROVE  /\ Append(t, c) = t \o <<c>> /\ <<c>> \in Text /\ Append(t, c) \in Text
           /\ Len(Append(t, c)) = Len(t) + 1
BY DEF Text

LEMMA HeadTail ==
    ASSUME NEW t \in Text, t # <<>>
    PROVE  Head(t) \in Int /\ Tail(t) \in Text /\ t = <<Head(t)>> \o Tail(t)
BY DEF Text

\* The flags of the conversions.
LEMMA FlagsFacts ==
    /\ ResetFlags \in [base : {0, 8, 10, 16}, lowercase : BOOLEAN]
    /\ ResetFlags = [base |-> 10, lowercase |-> FALSE]
    /\ \A b : InBase(b) = [base |-> b, lowercase |-> FALSE]
    /\ \A b \in {8, 10, 16}, l \in BOOLEAN :
         [base |-> b, lowercase |-> l] \in [base : {0, 8, 10, 16}, lowercase : BOOLEAN]
<1>1. \A b \in {8, 10, 16}, l \in BOOLEAN :
         [base |-> b, lowercase |-> l] \in [base : {0, 8, 10, 16}, lowercase : BOOLEAN]
  OBVIOUS
<1>2. ResetFlags = [base |-> 10, lowercase |-> FALSE]
  BY DEF ResetFlags
<1>3. ResetFlags \in [base : {0, 8, 10, 16}, lowercase : BOOLEAN]
  BY <1>1, <1>2
<1>4. \A b : InBase(b) = [base |-> b, lowercase |-> FALSE]
  BY <1>2 DEF InBase
<1> QED BY <1>1, <1>2, <1>3, <1>4

\* What TypeOK says of the call.
LEMMA CallFacts ==
    ASSUME TypeOK
    PROVE  /\ call.n \in Nat /\ call.format \in Formats \cup {NULL}
           /\ call.fn \in {"vsnprintf", "vprintf", "vdprintf"}
           /\ call.fn # "vsnprintf" => call.n = 0
<1>1. call \in Calls /\ Sizes \subseteq Nat
  BY StdioAssumption DEF TypeOK
<1>2. CASE call \in [fn : {"vsnprintf"}, s : {NULL, "buffer"}, n : Sizes, format : Formats \cup {NULL}]
  <2>1. call.fn = "vsnprintf" /\ call.n \in Sizes /\ call.format \in Formats \cup {NULL}
    BY <1>2
  <2> QED BY <1>1, <2>1
<1>3. CASE call \in [fn : {"vprintf", "vdprintf"}, s : {NULL}, n : {0}, format : Formats \cup {NULL}]
  <2>1. call.fn \in {"vprintf", "vdprintf"} /\ call.n = 0 /\ call.format \in Formats \cup {NULL}
    BY <1>3
  <2> QED BY <2>1
<1> QED BY <1>1, <1>2, <1>3 DEF Calls

\* What taking a directive does to the place in the format.
LEMMA Taken ==
    ASSUME TypeOK, Underway, NEW dirs, Take(dirs), "bad" \notin dirs
    PROVE  /\ Proper(Head(format)) /\ Head(format).dir \in dirs
           /\ call.format \in Formats /\ Done \in Nat /\ Done' = Done + 1
           /\ call.format[Done + 1] = Head(format)
           /\ format' \in Seq([dir : Directives, arg : Int])
           /\ Suffix'
           /\ MeaningOf(call.format, Done) \in Text
           /\ Meaning(Head(format)) \in Text
           /\ MeaningOf(call.format, Done + 1) = MeaningOf(call.format, Done) \o Meaning(Head(format))
           /\ StoredBy(call.format, Done + 1) =
                IF Head(format).dir = "n"
                THEN Append(StoredBy(call.format, Done), ToInt(Len(MeaningOf(call.format, Done + 1))))
                ELSE StoredBy(call.format, Done)
<1> DEFINE R == [dir : Directives, arg : Int]
           F == call.format
           n == Len(format)
           d == Head(format)
<1>1. /\ pc = "format" /\ format # <<>> /\ d.dir \in dirs /\ format' = Tail(format) /\ call' = call
      /\ F \in Formats /\ Suffix
  BY DEF Take, place, Underway
<1>2. format \in Seq(R) /\ F \in Seq(R) /\ \A k \in 1 .. Len(F) : Proper(F[k])
  BY <1>1, FormatsProper DEF TypeOK
<1>3. n <= Len(F) /\ \A k \in 1 .. n : format[k] = F[Done + k]
  BY <1>1 DEF Suffix
<1>4. \A k \in 1 .. Done : F[k].dir # "bad"
  BY <1>1 DEF Suffix
<1> HIDE DEF R
<1>5. /\ n \in Nat \ {0} /\ Len(F) \in Nat /\ d = format[1] /\ format' \in Seq(R) /\ Len(format') = n - 1
      /\ \A k \in 1 .. n - 1 : format'[k] = format[k + 1]
  BY <1>1, <1>2
<1>6. Done = Len(F) - n /\ Done' = Len(F) - (n - 1)
  BY <1>1, <1>5 DEF Done
<1> HIDE DEF n, d, F
<1>7. Done \in Nat /\ Done' = Done + 1 /\ Done + 1 \in 1 .. Len(F) /\ Done \in 0 .. Len(F) /\ Done + 1 \in 0 .. Len(F)
  BY <1>3, <1>5, <1>6
<1>8. F[Done + 1] = d
  <2>1. 1 \in 1 .. n
    BY <1>5
  <2> QED BY <1>3, <1>5, <2>1
<1>9. Suffix'
  <2>1. Len(format') <= Len(F)
    BY <1>3, <1>5
  <2>2. ASSUME NEW k \in 1 .. n - 1 PROVE format'[k] = F[Done' + k]
    <3>1. k + 1 \in 1 .. n /\ Done + (k + 1) = Done' + k
      BY <1>5, <1>7
    <3>2. format[k + 1] = F[Done + (k + 1)]
      BY <1>3, <3>1
    <3> QED BY <1>5, <3>1, <3>2
  <2>3. ASSUME NEW k \in 1 .. Done' PROVE F[k].dir # "bad"
    <3>1. k \in 1 .. Done \/ k = Done + 1
      BY <1>7
    <3> QED BY <1>1, <1>4, <1>8, <3>1 DEF d
  <2>4. F = call'.format
    BY <1>1 DEF F
  <2> QED BY <1>5, <2>1, <2>2, <2>3, <2>4 DEF Suffix
<1>10. Proper(d)
  BY <1>2, <1>7, <1>8
<1>11. (Done + 1) - 1 = Done
  BY <1>7
<1>12. /\ MeaningOf(F, Done) \in Text
       /\ MeaningOf(F, Done + 1) = MeaningOf(F, Done) \o Meaning(d)
  BY <1>1, <1>7, <1>8, <1>11, MeaningSteps DEF F
<1>13. StoredBy(F, Done + 1) =
         IF d.dir = "n" THEN Append(StoredBy(F, Done), ToInt(Len(MeaningOf(F, Done + 1))))
         ELSE StoredBy(F, Done)
  BY <1>1, <1>7, <1>8, <1>11, StoredSteps DEF F
<1>14. Meaning(d) \in Text
  BY <1>10, MeaningType
<1> QED BY <1>1, <1>5, <1>7, <1>8, <1>9, <1>10, <1>12, <1>13, <1>14 DEF F, d, R

\* What printing a character does to the types.
LEMMA PrintChrTypes ==
    ASSUME TypeOK, NEW c \in Int, PrintChr(c)
    PROVE  /\ length' \in Nat /\ text' = text \o <<c>> /\ text' \in Seq(Int) /\ output' \in Seq(Int)
           /\ DOMAIN string' \subseteq Nat /\ length' = length + 1
<1>1. length \in Nat /\ text \in Text /\ output \in Text /\ DOMAIN string \subseteq Nat
  BY DEF TypeOK, Text
<1>2. length' = length + 1 /\ text' = Append(text, c)
  BY DEF PrintChr
<1>3. output' \in Text
  BY <1>1, AppendJoins DEF PrintChr
<1>4. DOMAIN string' \subseteq Nat
  BY <1>1 DEF PrintChr, Write
<1>5. text' = text \o <<c>> /\ text' \in Text
  BY <1>1, <1>2, AppendJoins
<1> QED BY <1>1, <1>2, <1>3, <1>4, <1>5 DEF Text

\* A directive of one character.
LEMMA CharacterMeans ==
    ASSUME IInv, Meaningful, Literal \/ Percent \/ Chr
    PROVE  Meaningful'
<1> DEFINE d == Head(format)
           F == call.format
<1>1. PICK dirs \in {{"literal"}, {"%"}, {"c"}} : Take(dirs)
  BY DEF Literal, Percent, Chr
<1>2. TypeOK /\ Underway /\ Clean /\ Meant
  BY DEF Meaningful
<1>3. "bad" \notin dirs
  BY <1>1
<1>4. /\ Proper(d) /\ d.dir \in dirs
      /\ F \in Formats /\ Done \in Nat /\ Done' = Done + 1
      /\ format' \in Seq([dir : Directives, arg : Int])
      /\ Suffix'
      /\ MeaningOf(F, Done) \in Text
      /\ MeaningOf(F, Done + 1) = MeaningOf(F, Done) \o Meaning(d)
      /\ StoredBy(F, Done + 1) = StoredBy(F, Done)
  BY <1>1, <1>2, <1>3, Taken
<1>5. /\ pc = "format" /\ pc' = "format" /\ call' = call /\ type' = type /\ capacity' = capacity
      /\ answer' = answer /\ rest' = rest /\ prefix' = prefix /\ number' = number /\ stored' = stored
      /\ flags' = flags \/ flags' = ResetFlags
  BY DEF Literal, Percent, Chr, Take, place, conversion
<1>6. \E c \in Int : PrintChr(c) /\ Meaning(d) = <<c>>
  <2>1. CASE Literal
    <3>1. d.dir = "literal" /\ PrintChr(d.arg) /\ d.arg \in Int
      BY <1>4, <2>1 DEF Literal, Take, Arg, Proper
    <3>2. Meaning(d) = <<d.arg>>
      BY <3>1 DEF Meaning
    <3> QED BY <3>1, <3>2
  <2>2. CASE Percent
    <3>1. d.dir = "%" /\ PrintChr(37)
      BY <2>2 DEF Percent, Take
    <3>2. Meaning(d) = <<37>>
      BY <3>1 DEF Meaning
    <3> QED BY <3>1, <3>2
  <2>3. CASE Chr
    <3>1. d.dir = "c" /\ PrintChr(d.arg % 256) /\ d.arg \in Int
      BY <1>4, <2>3 DEF Chr, Take, Arg, Proper
    <3>2. Meaning(d) = <<d.arg % 256>>
      BY <3>1 DEF Meaning
    <3>3. d.arg % 256 \in Int
      BY <3>1
    <3> QED BY <3>1, <3>2, <3>3
  <2> QED BY <2>1, <2>2, <2>3
<1>7. PICK c \in Int : PrintChr(c) /\ Meaning(d) = <<c>>
  BY <1>6
<1>8. /\ length' \in Nat /\ text' = text \o <<c>> /\ text' \in Seq(Int) /\ output' \in Seq(Int)
      /\ DOMAIN string' \subseteq Nat
  BY <1>2, <1>7, PrintChrTypes
<1> HIDE DEF d, F
<1>9. rest = <<>> /\ text \in Text /\ text = MeaningOf(F, Done) /\ prefix = <<>>
  <2>1. rest = <<>> /\ prefix = <<>> /\ text \o rest = MeaningOf(F, Done) /\ text \in Text
    BY <1>2, <1>5 DEF Clean, Meant, TypeOK, Text, F
  <2> QED BY <2>1, Join
<1>10. TypeOK'
  <2>1. flags' \in [base : {0, 8, 10, 16}, lowercase : BOOLEAN]
    BY <1>2, <1>5, FlagsFacts DEF TypeOK
  <2> QED BY <1>2, <1>4, <1>5, <1>8, <2>1 DEF TypeOK
<1>11. Meant'
  <2>1. text' \o rest' = text'
    BY <1>5, <1>8, <1>9, Join DEF Text
  <2> QED BY <1>4, <1>5, <1>7, <1>8, <1>9, <2>1 DEF Meant, F
<1>12. Underway' /\ Clean'
  BY <1>2, <1>4, <1>5, <1>9 DEF Underway, Clean, F
<1> QED BY <1>5, <1>10, <1>11, <1>12 DEF Meaningful, InDigits, AnswerTellsLength

\* %s, and %p of a null pointer, put their text into rest.
LEMMA StringMeans ==
    ASSUME IInv, Meaningful, Str \/ (Ptr /\ Arg = 0)
    PROVE  Meaningful'
<1> DEFINE d == Head(format)
           F == call.format
<1>1. PICK dirs \in {{"s"}, {"p"}} : Take(dirs)
  BY DEF Str, Ptr
<1>2. TypeOK /\ Underway /\ Clean /\ Meant
  BY DEF Meaningful
<1>3. "bad" \notin dirs
  BY <1>1
<1>4. /\ Proper(d) /\ d.dir \in dirs
      /\ F \in Formats /\ Done \in Nat /\ Done' = Done + 1
      /\ format' \in Seq([dir : Directives, arg : Int])
      /\ Suffix'
      /\ MeaningOf(F, Done) \in Text
      /\ Meaning(d) \in Text
      /\ MeaningOf(F, Done + 1) = MeaningOf(F, Done) \o Meaning(d)
      /\ StoredBy(F, Done + 1) = StoredBy(F, Done)
  BY <1>1, <1>2, <1>3, Taken
<1>5. /\ pc = "format" /\ pc' = "chars" /\ call' = call /\ type' = type /\ capacity' = capacity
      /\ answer' = answer /\ prefix' = prefix /\ number' = number /\ stored' = stored
      /\ flags' = ResetFlags
      /\ UNCHANGED <<length, string, output, text>>
  BY DEF Str, Ptr, Take, place, sinks
<1>6. rest' = Meaning(d)
  <2>1. CASE Str
    <3>1. d.dir = "s" /\ rest' = Strings[d.arg]
      BY <2>1 DEF Str, Take, Arg
    <3> QED BY <3>1 DEF Meaning
  <2>2. CASE Ptr /\ Arg = 0
    <3>1. d.dir = "p" /\ d.arg = 0 /\ rest' = <<40, 110, 105, 108, 41>>
      BY <2>2 DEF Ptr, Take, Arg
    <3> QED BY <3>1 DEF Meaning
  <2> QED BY <2>1, <2>2
<1> HIDE DEF d, F
<1>9. text \in Text /\ text = MeaningOf(F, Done) /\ prefix = <<>>
  <2>1. rest = <<>> /\ prefix = <<>> /\ text \o rest = MeaningOf(F, Done) /\ text \in Text
    BY <1>2, <1>5 DEF Clean, Meant, TypeOK, Text, F
  <2> QED BY <2>1, Join
<1>10. TypeOK'
  <2>1. flags' \in [base : {0, 8, 10, 16}, lowercase : BOOLEAN]
    BY <1>5, FlagsFacts
  <2>2. rest' \in Seq(Int)
    BY <1>4, <1>6 DEF Text
  <2> QED BY <1>2, <1>4, <1>5, <2>1, <2>2 DEF TypeOK
<1>11. Meant'
  BY <1>4, <1>5, <1>6, <1>9 DEF Meant, F
<1>12. Underway' /\ Clean'
  BY <1>2, <1>4, <1>5, <1>9 DEF Underway, Clean, F
<1> QED BY <1>5, <1>10, <1>11, <1>12 DEF Meaningful, InDigits, AnswerTellsLength

\* %n stores the length of what the directives before it mean.
LEMMA CountMeans ==
    ASSUME IInv, Meaningful, CountSoFar
    PROVE  Meaningful'
<1> DEFINE d == Head(format)
           F == call.format
<1>1. Take({"n"}) /\ "bad" \notin {"n"}
  BY DEF CountSoFar
<1>2. TypeOK /\ Underway /\ Clean /\ Meant
  BY DEF Meaningful
<1>4. /\ Proper(d) /\ d.dir = "n"
      /\ F \in Formats /\ Done \in Nat /\ Done' = Done + 1
      /\ format' \in Seq([dir : Directives, arg : Int])
      /\ Suffix'
      /\ MeaningOf(F, Done) \in Text
      /\ MeaningOf(F, Done + 1) = MeaningOf(F, Done) \o Meaning(d)
      /\ StoredBy(F, Done + 1) = Append(StoredBy(F, Done), ToInt(Len(MeaningOf(F, Done + 1))))
  BY <1>1, <1>2, Taken
<1>5. /\ pc = "format" /\ pc' = "format" /\ call' = call /\ type' = type /\ capacity' = capacity
      /\ answer' = answer /\ prefix' = prefix /\ number' = number /\ rest' = rest
      /\ flags' = ResetFlags /\ stored' = Append(stored, ToInt(length))
      /\ UNCHANGED <<length, string, output, text>>
  BY DEF CountSoFar, Take, place, sinks
<1>6. Meaning(d) = <<>>
  BY <1>4 DEF Meaning
<1> HIDE DEF d, F
<1>7. MeaningOf(F, Done + 1) = MeaningOf(F, Done)
  BY <1>4, <1>6, Join
<1>9. text \in Text /\ text = MeaningOf(F, Done) /\ prefix = <<>> /\ rest = <<>> /\ text \o rest = text
  <2>1. rest = <<>> /\ prefix = <<>> /\ text \o rest = MeaningOf(F, Done) /\ text \in Text
    BY <1>2, <1>5 DEF Clean, Meant, TypeOK, Text, F
  <2> QED BY <2>1, Join
<1>10. length = Len(text) /\ stored \in Text
  BY <1>2 DEF IInv, Counted, TypeOK, Text
<1>11. TypeOK'
  <2>1. flags' \in [base : {0, 8, 10, 16}, lowercase : BOOLEAN]
    BY <1>5, FlagsFacts
  <2>2. length \in Nat
    BY <1>2 DEF TypeOK
  <2>3. stored' \in Seq(Int)
    BY <1>5, <1>10, <2>2, ToIntType, AppendJoins DEF Text
  <2> QED BY <1>2, <1>4, <1>5, <2>1, <2>3 DEF TypeOK
<1>12. Meant'
  BY <1>4, <1>5, <1>7, <1>9 DEF Meant, F
<1>13. Underway' /\ Clean'
  <2>1. stored = StoredBy(F, Done) /\ call.n <= INT_MAX
    BY <1>2, <1>5 DEF Underway, F
  <2>2. stored' = StoredBy(F, Done')
    BY <1>4, <1>5, <1>7, <1>9, <1>10, <2>1
  <2> QED BY <1>4, <1>5, <1>9, <2>1, <2>2 DEF Underway, Clean, F
<1> QED BY <1>5, <1>11, <1>12, <1>13 DEF Meaningful, InDigits, AnswerTellsLength

\* A conversion begins with the whole number, its sign and its flags.
LEMMA ConversionMeans ==
    ASSUME IInv, Meaningful,
           \/ Int_ \/ Octal \/ HexLower \/ HexUpper \/ Unsigned \/ (Ptr /\ Arg # 0)
    PROVE  Meaningful'
<1> DEFINE F == call.format
<1>0. PICK d, i : d = Head(format) /\ i = Magnitude(d.arg)
  OBVIOUS
<1>1. PICK dirs \in {{"d", "i"}, {"o"}, {"x"}, {"X"}, {"u"}, {"p"}} : Take(dirs)
  BY DEF Int_, Octal, HexLower, HexUpper, Unsigned, Ptr
<1>2. TypeOK /\ Underway /\ Clean /\ Meant
  BY DEF Meaningful
<1>3. "bad" \notin dirs
  BY <1>1
<1>4. /\ Proper(d) /\ d.dir \in dirs
      /\ F \in Formats /\ Done \in Nat /\ Done' = Done + 1
      /\ F[Done + 1] = d
      /\ format' \in Seq([dir : Directives, arg : Int])
      /\ Suffix'
      /\ MeaningOf(F, Done) \in Text
      /\ StoredBy(F, Done + 1) = StoredBy(F, Done)
  BY <1>0, <1>1, <1>2, <1>3, Taken
<1>5. /\ pc = "format" /\ pc' = "digits" /\ call' = call /\ type' = type /\ capacity' = capacity
      /\ answer' = answer /\ stored' = stored /\ rest' = rest
      /\ UNCHANGED <<length, string, output, text>>
  BY DEF Int_, Octal, HexLower, HexUpper, Unsigned, Ptr, Convert, Take, place, sinks
<1>6. d.dir \in Conversions /\ i \in Nat /\ i < PlaceValue(8, BUFFER_SIZE - 2)
  BY <1>0, <1>1, <1>4 DEF Proper, Conversions
<1>7. /\ Converted(d) /\ number' = i /\ prefix' = Before(d)
      /\ flags' = [base |-> BaseOf(d), lowercase |-> (d.dir = "x")]
  <2>0. d.arg \in Int /\ (d.dir \in {"o", "x", "X", "u", "p"} => ~ (d.arg < 0))
    BY <1>4 DEF Proper
  <2>1. CASE Int_
    <3>1. d.dir \in {"d", "i"} /\ flags' = ResetFlags
          /\ IF d.arg < 0 THEN number' = -d.arg /\ prefix' = <<45>> ELSE number' = d.arg /\ prefix' = <<>>
      BY <1>0, <2>1 DEF Int_, Take, Convert, Arg
    <3> QED BY <1>0, <3>1, FlagsFacts DEF Converted, Conversions, Before, BaseOf, Magnitude
  <2>2. CASE Octal
    <3>1. d.dir = "o" /\ flags' = InBase(8) /\ number' = d.arg /\ prefix' = <<>>
      BY <1>0, <2>2 DEF Octal, Take, Convert, Arg
    <3> QED BY <1>0, <2>0, <3>1, FlagsFacts DEF Converted, Conversions, Before, BaseOf, Magnitude
  <2>3. CASE HexLower
    <3>1. d.dir = "x" /\ flags' = [base |-> 16, lowercase |-> TRUE] /\ number' = d.arg /\ prefix' = <<>>
      BY <1>0, <2>3 DEF HexLower, Take, Convert, Arg
    <3> QED BY <1>0, <2>0, <3>1, FlagsFacts DEF Converted, Conversions, Before, BaseOf, Magnitude
  <2>4. CASE HexUpper
    <3>1. d.dir = "X" /\ flags' = InBase(16) /\ number' = d.arg /\ prefix' = <<>>
      BY <1>0, <2>4 DEF HexUpper, Take, Convert, Arg
    <3> QED BY <1>0, <2>0, <3>1, FlagsFacts DEF Converted, Conversions, Before, BaseOf, Magnitude
  <2>5. CASE Unsigned
    <3>1. d.dir = "u" /\ flags' = ResetFlags /\ number' = d.arg /\ prefix' = <<>>
      BY <1>0, <2>5 DEF Unsigned, Take, Convert, Arg
    <3> QED BY <1>0, <2>0, <3>1, FlagsFacts DEF Converted, Conversions, Before, BaseOf, Magnitude
  <2>6. CASE Ptr /\ Arg # 0
    <3>1. d.dir = "p" /\ d.arg # 0 /\ flags' = InBase(16) /\ number' = d.arg /\ prefix' = <<48, 120>>
      BY <1>0, <2>6 DEF Ptr, Take, Convert, Arg
    <3> QED BY <1>0, <2>0, <3>1, FlagsFacts DEF Converted, Conversions, Before, BaseOf, Magnitude
  <2> QED BY <2>1, <2>2, <2>3, <2>4, <2>5, <2>6
<1> HIDE DEF F
<1>8. BaseOf(d) \in {8, 10, 16}
  BY DEF BaseOf
<1>9. text \in Text /\ text = MeaningOf(F, Done) /\ rest = <<>> /\ Len(rest) = 0
  <2>1. rest = <<>> /\ text \o rest = MeaningOf(F, Done) /\ text \in Text
    BY <1>2, <1>5 DEF Clean, Meant, TypeOK, Text, F
  <2> QED BY <2>1, Join
<1>10. TypeOK'
  <2>1. flags' \in [base : {0, 8, 10, 16}, lowercase : BOOLEAN]
    BY <1>7, <1>8, FlagsFacts
  <2>2. number' \in Nat /\ prefix' \in {<<>>, <<45>>, <<48, 120>>}
    BY <1>6, <1>7 DEF Before
  <2> QED BY <1>2, <1>4, <1>5, <2>1, <2>2 DEF TypeOK
<1>11. InDigits'
  <2> DEFINE b == BaseOf(d)
  <2>1. b \in Nat /\ b >= 8 /\ flags'.base = b
    BY <1>7, <1>8
  <2>2. PlaceValue(b, 0) = 1
    BY <2>1, PlaceValues
  <2>3. i < PlaceValue(b, BUFFER_SIZE - 2)
    <3>1. BUFFER_SIZE - 2 \in 0 .. BUFFER_SIZE
      BY Bounds
    <3>2. /\ PlaceValue(8, BUFFER_SIZE - 2) <= PlaceValue(b, BUFFER_SIZE - 2)
          /\ PlaceValue(8, BUFFER_SIZE - 2) \in Nat /\ PlaceValue(b, BUFFER_SIZE - 2) \in Nat
      BY <2>1, <3>1, PlacesGrow, PlaceValues
    <3> QED BY <1>6, <3>2
  <2>4. i \div 1 = i
    BY <1>6
  <2> HIDE DEF b
  <2>5. Digits(i, 0)'
    BY <1>5, <1>6, <1>7, <1>9, <2>1, <2>2, <2>3, <2>4, Bounds DEF Digits
  <2>6. i = Magnitude(d.arg)
    BY <1>0
  <2>7. call'.format[Done'] = d /\ Done' >= 1 /\ Done' - 1 = Done
    BY <1>4, <1>5 DEF F
  <2>8. Len(rest') = 0
    BY <1>5, <1>9
  <2> QED BY <1>5, <1>7, <1>9, <2>5, <2>6, <2>7, <2>8 DEF InDigits, F
<1>12. Underway' /\ Clean' /\ Meant'
  BY <1>2, <1>4, <1>5 DEF Underway, Clean, Meant, F
<1> QED BY <1>5, <1>10, <1>11, <1>12 DEF Meaningful, AnswerTellsLength

\* The place in the format.
LEMMA PlaceFacts ==
    ASSUME TypeOK, Underway, pc \in {"format", "digits", "chars"}
    PROVE  /\ call.format \in Formats /\ Done \in 0 .. Len(call.format) /\ Len(call.format) \in Nat
           /\ Len(format) \in Nat /\ Done = Len(call.format) - Len(format)
           /\ MeaningOf(call.format, Done) \in Text
<1>1. call.format \in Formats /\ Suffix
  BY DEF Underway
<1>2. Len(call.format) \in Nat
  <2>1. call.format \in Seq([dir : Directives, arg : Int])
    BY <1>1, FormatsProper
  <2> QED BY <2>1
<1>3. Len(format) \in Nat /\ Len(format) <= Len(call.format)
  <2>1. format \in Seq([dir : Directives, arg : Int])
    BY DEF TypeOK
  <2> QED BY <1>1, <2>1 DEF Suffix
<1>4. Done \in 0 .. Len(call.format)
  BY <1>2, <1>3 DEF Done
<1> QED BY <1>1, <1>2, <1>3, <1>4, MeaningSteps DEF Done

\* The letters that DigitChr uses are those of the directive.
LEMMA DigitChrIs ==
    ASSUME NEW d, flags = [base |-> BaseOf(d), lowercase |-> (d.dir = "x")],
           d.dir \in Conversions, NEW x \in 0 .. BaseOf(d) - 1
    PROVE  /\ DigitChr(x) = IF x < 10 THEN 48 + x ELSE LettersOf(d) + x - 10
           /\ DigitChr(x) \in Int
<1>1. BaseOf(d) \in {8, 10, 16} /\ x \in Int
  BY DEF BaseOf
<1>2. flags.lowercase <=> d.dir = "x"
  OBVIOUS
<1>3. CASE x < 10
  BY <1>1, <1>3 DEF DigitChr
<1>4. CASE ~ (x < 10)
  <2>1. BaseOf(d) = 16
    BY <1>1, <1>4
  <2>2. d.dir \in {"x", "X", "p"}
    BY <2>1 DEF BaseOf
  <2>3. CASE d.dir = "x"
    <3>1. DigitChr(x) = 87 + x /\ LettersOf(d) = 97
      BY <1>2, <1>4, <2>3 DEF DigitChr, LettersOf
    <3> QED BY <1>1, <1>4, <3>1
  <2>4. CASE d.dir \in {"X", "p"}
    <3>1. DigitChr(x) = 55 + x /\ LettersOf(d) = 65
      BY <1>2, <1>4, <2>4 DEF DigitChr, LettersOf
    <3> QED BY <1>1, <1>4, <3>1
  <2> QED BY <2>2, <2>3, <2>4
<1> QED BY <1>3, <1>4

LEMMA SameText ==
    ASSUME NEW s \in Text, NEW t \in Text, Len(s) = Len(t), \A k \in 1 .. Len(s) : s[k] = t[k]
    PROVE  s = t
BY DEF Text

\* One more digit in front.
LEMMA InFront ==
    ASSUME NEW c \in Int, NEW t \in Text
    PROVE  /\ <<c>> \o t \in Text /\ Len(<<c>> \o t) = Len(t) + 1 /\ Len(t) \in Nat
           /\ (<<c>> \o t)[1] = c
           /\ \A k \in 1 .. Len(t) : (<<c>> \o t)[k + 1] = t[k]
<1>1. <<c>> \in Text /\ Len(<<c>>) = 1 /\ <<c>>[1] = c /\ Len(t) \in Nat
  BY DEF Text
<1>2. <<c>> \o t \in Text /\ Len(<<c>> \o t) = Len(t) + 1
  BY <1>1, Join
<1>3. \A k \in 1 .. 1 + Len(t) : (<<c>> \o t)[k] = IF k <= 1 THEN <<c>>[k] ELSE t[k - 1]
  BY <1>1, ConcatProperties DEF Text
<1>4. (<<c>> \o t)[1] = c
  <2>1. 1 \in 1 .. 1 + Len(t) /\ 1 <= 1
    BY <1>1
  <2> QED BY <1>1, <1>3, <2>1
<1>5. ASSUME NEW k \in 1 .. Len(t) PROVE (<<c>> \o t)[k + 1] = t[k]
  <2>1. k + 1 \in 1 .. 1 + Len(t) /\ ~ (k + 1 <= 1) /\ (k + 1) - 1 = k
    BY <1>1
  <2> QED BY <1>3, <2>1
<1> QED BY <1>1, <1>2, <1>4, <1>5

\* A digit more: the last k + 1 digits of i's numeral, and what they leave over.
LEMMA OneMoreDigit ==
    ASSUME NEW i \in Nat, NEW k \in Nat, NEW d, d.dir \in Conversions, rest \in Text, Digits(i, k),
           flags = [base |-> BaseOf(d), lowercase |-> (d.dir = "x")]
    PROVE  LET digits == <<DigitChr(number % flags.base)>> \o rest
               b == flags.base
           IN /\ digits \in Text /\ Len(digits) = k + 1 /\ number \div b \in Nat
              /\ number \div b = i \div PlaceValue(b, k + 1)
              /\ (number \div b = 0) <=> (i < PlaceValue(b, k + 1))
              /\ \A j \in 1 .. k + 1 : digits[j] = DigitChr((i \div PlaceValue(b, (k + 1) - j)) % b)
<1> DEFINE digits == <<DigitChr(number % flags.base)>> \o rest
           b == flags.base
<1>1. b = BaseOf(d) /\ b \in {8, 10, 16} /\ b \in Nat \ {0}
  BY DEF BaseOf
<1>2. /\ k + 3 <= BUFFER_SIZE /\ k \in 0 .. BUFFER_SIZE /\ k + 1 \in 1 .. BUFFER_SIZE
      /\ k + 1 \in 0 .. BUFFER_SIZE /\ (k + 1) - 1 = k
  BY Bounds DEF Digits
<1>3. /\ PlaceValue(b, k) \in Nat \ {0} /\ PlaceValue(b, k + 1) \in Nat \ {0}
      /\ PlaceValue(b, k + 1) = b * PlaceValue(b, k)
  BY <1>1, <1>2, PlaceValues
<1>4. number = i \div PlaceValue(b, k) /\ Len(rest) = k
  BY DEF Digits
<1>5. number \in Nat /\ number % b \in 0 .. b - 1
  BY <1>1, <1>3, <1>4, DivMod
<1>6. number \div b = i \div PlaceValue(b, k + 1)
  <2> DEFINE p == PlaceValue(b, k)
  <2>1. p \in Nat \ {0} /\ PlaceValue(b, k + 1) = b * p /\ number = i \div p /\ b \in Nat \ {0}
    BY <1>1, <1>3, <1>4
  <2> HIDE DEF p, b
  <2>2. (i \div p) \div b = i \div (b * p)
    BY <2>1, DivDiv
  <2> QED BY <2>1, <2>2
<1>7. number \div b \in Nat /\ ((number \div b = 0) <=> (i < PlaceValue(b, k + 1)))
  BY <1>3, <1>6, DivMod, DivZero
<1>8. DigitChr(number % b) \in Int
  BY <1>1, <1>5, DigitChrIs
<1>9. /\ digits \in Text /\ Len(digits) = k + 1
      /\ digits[1] = DigitChr(number % b)
      /\ \A j \in 1 .. k : digits[j + 1] = rest[j]
  BY <1>4, <1>8, InFront
<1>10. \A j \in 1 .. k : rest[j] = DigitChr((i \div PlaceValue(b, k - j)) % b)
  BY DEF Digits
<1> HIDE DEF digits, b
<1>11. ASSUME NEW j \in 1 .. k + 1
       PROVE  digits[j] = DigitChr((i \div PlaceValue(b, (k + 1) - j)) % b)
  <2>1. CASE j = 1
    <3>1. (k + 1) - j = k
      BY <2>1
    <3> QED BY <1>4, <1>9, <2>1, <3>1
  <2>2. CASE j # 1
    <3>1. j - 1 \in 1 .. k /\ (j - 1) + 1 = j /\ k - (j - 1) = (k + 1) - j
      BY <2>2
    <3>2. digits[j] = rest[j - 1]
      BY <1>9, <3>1
    <3> QED BY <1>10, <3>1, <3>2
  <2> QED BY <2>1, <2>2
<1> QED BY <1>6, <1>7, <1>9, <1>11 DEF digits, b

\* All digits of a number are its numeral.
LEMMA AllDigits ==
    ASSUME NEW i \in Nat, NEW n \in 1 .. BUFFER_SIZE - 1, NEW d, d.dir \in Conversions, NEW digits \in Text,
           flags = [base |-> BaseOf(d), lowercase |-> (d.dir = "x")],
           Len(digits) = n,
           i < PlaceValue(BaseOf(d), n), n = 1 \/ i >= PlaceValue(BaseOf(d), n - 1),
           \A j \in 1 .. n : digits[j] = DigitChr((i \div PlaceValue(BaseOf(d), n - j)) % BaseOf(d))
    PROVE  digits = Numeral(i, BaseOf(d), LettersOf(d))
<1> DEFINE b == BaseOf(d)
           l == LettersOf(d)
<1>1. b \in {8, 10, 16} /\ b \in Nat \ {0} /\ b >= 8 /\ l \in Nat /\ n \in Nat
  BY Bounds DEF BaseOf, LettersOf
<1>2. Width(i, b) = n
  BY <1>1, WidthIs
<1>3. /\ Numeral(i, b, l) \in Text /\ Len(Numeral(i, b, l)) = n
      /\ \A k \in 1 .. n :
           LET digit == (i \div PlaceValue(b, n - k)) % b
           IN Numeral(i, b, l)[k] = IF digit < 10 THEN 48 + digit ELSE l + digit - 10
  BY <1>1, <1>2, NumeralIs
<1>4. ASSUME NEW k \in 1 .. n PROVE digits[k] = Numeral(i, b, l)[k]
  <2>1. n - k \in 0 .. BUFFER_SIZE
    BY Bounds
  <2>2. PlaceValue(b, n - k) \in Nat \ {0}
    BY <1>1, <2>1, PlaceValues
  <2>3. i \div PlaceValue(b, n - k) \in Nat
    BY <2>2, DivMod
  <2> DEFINE x == (i \div PlaceValue(b, n - k)) % b
  <2>4. x \in 0 .. b - 1
    BY <1>1, <2>3, DivMod
  <2>5. Numeral(i, b, l)[k] = IF x < 10 THEN 48 + x ELSE l + x - 10
    BY <1>3
  <2>6. digits[k] = DigitChr(x)
    OBVIOUS
  <2> HIDE DEF x
  <2> QED BY <2>4, <2>5, <2>6, DigitChrIs
<1> HIDE DEF b, l
<1>5. digits = Numeral(i, b, l)
  BY <1>3, <1>4, SameText
<1> QED BY <1>5 DEF b, l

\* A round of the digit loop.
LEMMA DigitMeans ==
    ASSUME IInv, Meaningful, Digit
    PROVE  Meaningful'
<1> DEFINE F == call.format
<1>0. TypeOK /\ Underway /\ Clean /\ InDigits
  BY DEF Meaningful
<1>1. /\ pc = "digits" /\ UNCHANGED <<call, type, capacity, format, flags, length, string, output, text,
                                      stored, answer>>
      /\ number' = number \div flags.base
  BY DEF Digit, place, sinks
<1>2. PICK d, i, k : d = F[Done] /\ i = Magnitude(d.arg) /\ k = Len(rest)
  OBVIOUS
<1>3. /\ Done >= 1 /\ Converted(d)
      /\ flags = [base |-> BaseOf(d), lowercase |-> (d.dir = "x")]
      /\ prefix = Before(d)
      /\ text = MeaningOf(F, Done - 1)
      /\ Digits(i, k)
  BY <1>0, <1>1, <1>2 DEF InDigits
<1>4. /\ F \in Formats /\ Done \in 0 .. Len(F) /\ Len(F) \in Nat
      /\ Suffix /\ call.n <= INT_MAX /\ stored = StoredBy(F, Done)
  BY <1>0, <1>1, PlaceFacts DEF Underway
<1>5. Done \in 1 .. Len(F) /\ Done - 1 \in 0 .. Len(F)
  BY <1>3, <1>4
<1>6. Proper(d)
  BY <1>2, <1>4, <1>5, FormatsProper
<1>7. d.dir \in Conversions /\ i \in Nat /\ rest \in Text /\ k \in Nat /\ k + 3 <= BUFFER_SIZE
  <2>1. rest \in Text
    BY <1>0 DEF TypeOK, Text
  <2> QED BY <1>2, <1>3, <1>6, <2>1, InFront DEF Proper, Converted, Digits, Text
<1>8. PICK digits, b : digits = <<DigitChr(number % flags.base)>> \o rest /\ b = flags.base
  OBVIOUS
<1>9. b = BaseOf(d) /\ b \in {8, 10, 16} /\ b \in Nat \ {0} /\ b >= 8 /\ b \in Nat
  BY <1>3, <1>8 DEF BaseOf
<1>10. /\ digits \in Text /\ Len(digits) = k + 1 /\ number' \in Nat
       /\ number' = i \div PlaceValue(b, k + 1)
       /\ (number' = 0) <=> (i < PlaceValue(b, k + 1))
       /\ \A j \in 1 .. k + 1 : digits[j] = DigitChr((i \div PlaceValue(b, (k + 1) - j)) % b)
  BY <1>1, <1>3, <1>7, <1>8, OneMoreDigit
<1>11. IF number' = 0
       THEN rest' = prefix \o digits /\ prefix' = <<>> /\ pc' = "chars"
       ELSE rest' = digits /\ prefix' = prefix /\ pc' = pc
  BY <1>1, <1>8 DEF Digit
<1>12. Done' = Done /\ call'.format = F
  BY <1>1 DEF Done
<1>13. Before(d) \in Text
  <2>1. <<45>> \in Text /\ <<48, 120>> \in Text /\ <<>> \in Text
    BY DEF Text
  <2>2. Before(d) = <<45>> \/ Before(d) = <<48, 120>> \/ Before(d) = <<>>
    BY DEF Before
  <2> QED BY <2>1, <2>2
<1> HIDE DEF F
<1>14. CASE number' # 0
  <2>1. rest' = digits /\ prefix' = prefix /\ pc' = "digits"
    BY <1>1, <1>11, <1>14
  <2>2. TypeOK'
    BY <1>0, <1>1, <1>10, <2>1 DEF TypeOK, Text
  <2>3. k + 1 + 3 <= BUFFER_SIZE
    <3>1. i < PlaceValue(b, BUFFER_SIZE - 2)
      BY <1>3, <1>8 DEF Digits
    <3>2. k + 1 # BUFFER_SIZE - 2
      BY <1>10, <1>14, <3>1
    <3> QED BY <1>7, <3>2, Bounds
  <2>4. Digits(i, k + 1)'
    <3>1. \A x : DigitChr(x)' = DigitChr(x)
      BY <1>1 DEF DigitChr
    <3>2. \A j \in 1 .. k + 1 : rest'[j] = DigitChr((i \div PlaceValue(b, (k + 1) - j)) % b)'
      BY <1>10, <2>1, <3>1
    <3> QED BY <1>1, <1>3, <1>8, <1>10, <1>14, <2>1, <2>3, <3>2 DEF Digits
  <2>5. InDigits'
    BY <1>1, <1>2, <1>3, <1>10, <1>12, <2>1, <2>4 DEF InDigits, F
  <2>6. Underway' /\ Clean' /\ Meant'
    BY <1>0, <1>1, <1>4, <1>12, <2>1 DEF Underway, Clean, Meant, Suffix, F
  <2> QED BY <2>1, <2>2, <2>5, <2>6 DEF Meaningful, AnswerTellsLength
<1>15. CASE number' = 0
  <2>1. rest' = Before(d) \o digits /\ prefix' = <<>> /\ pc' = "chars"
    BY <1>3, <1>11, <1>15
  <2>2. digits = Numeral(i, BaseOf(d), LettersOf(d))
    <3>1. i < PlaceValue(b, k + 1) /\ k + 1 \in 1 .. BUFFER_SIZE - 1 /\ (k + 1) - 1 = k
      BY <1>7, <1>10, <1>15, Bounds
    <3>2. k + 1 = 1 \/ i >= PlaceValue(b, k)
      <4>1. SUFFICES ASSUME k # 0 PROVE i >= PlaceValue(b, k)
        BY <1>7
      <4>2. number # 0 /\ number = i \div PlaceValue(b, k)
        BY <1>3, <1>8, <4>1 DEF Digits
      <4>3. k \in 0 .. BUFFER_SIZE
        BY <1>7, Bounds
      <4>4. PlaceValue(b, k) \in Nat \ {0}
        BY <1>9, <4>3, PlaceValues
      <4>5. ~ (i < PlaceValue(b, k))
        BY <1>7, <4>2, <4>4, DivZero
      <4> QED BY <1>7, <4>4, <4>5
    <3> QED BY <1>3, <1>7, <1>9, <1>10, <3>1, <3>2, AllDigits
  <2>3. Meaning(d) = Before(d) \o digits /\ Meaning(d) \in Text
    BY <1>2, <1>3, <1>6, <2>2, MeaningType
  <2>4. MeaningOf(F, Done) = text \o rest'
    <3>1. MeaningOf(F, Done) = MeaningOf(F, Done - 1) \o Meaning(F[Done])
      BY <1>4, <1>5, MeaningSteps
    <3> QED BY <1>2, <1>3, <2>1, <2>3, <3>1 DEF F
  <2>5. TypeOK'
    <3>1. rest' \in Text
      BY <2>1, <2>3
    <3> QED BY <1>0, <1>1, <1>10, <2>1, <3>1 DEF TypeOK, Text
  <2>6. Underway' /\ Clean' /\ Meant'
    BY <1>0, <1>1, <1>4, <1>12, <2>1, <2>4 DEF Underway, Clean, Meant, Suffix, F
  <2> QED BY <2>1, <2>5, <2>6 DEF Meaningful, InDigits, AnswerTellsLength
<1> QED BY <1>14, <1>15

\* A round of the loop over characters, and its end.
LEMMA CharsMean ==
    ASSUME IInv, Meaningful, PrintNext \/ PrintedAll
    PROVE  Meaningful'
<1> DEFINE F == call.format
<1>0. TypeOK /\ Underway /\ Clean /\ Meant /\ rest \in Text /\ text \in Text
  BY DEF Meaningful, TypeOK, Text
<1>1. /\ pc = "chars" /\ pc' \in {"chars", "format"}
      /\ UNCHANGED <<call, type, capacity, format, flags, number, prefix, stored, answer>>
  BY DEF PrintNext, PrintedAll, place, conversion
<1>2. Done' = Done /\ Underway' /\ prefix' = <<>>
  BY <1>0, <1>1 DEF Done, Underway, Suffix, Clean
<1>3. text \o rest = MeaningOf(F, Done)
  BY <1>0, <1>1 DEF Meant
<1>4. CASE PrintNext
  <2>1. rest # <<>> /\ PrintChr(Head(rest)) /\ rest' = Tail(rest) /\ pc' = "chars"
    BY <1>1, <1>4 DEF PrintNext
  <2>2. Head(rest) \in Int /\ Tail(rest) \in Text /\ rest = <<Head(rest)>> \o Tail(rest)
    BY <1>0, <2>1, HeadTail
  <2>3. /\ length' \in Nat /\ text' = text \o <<Head(rest)>> /\ text' \in Seq(Int)
        /\ output' \in Seq(Int) /\ DOMAIN string' \subseteq Nat
    BY <1>0, <2>1, <2>2, PrintChrTypes
  <2>4. text' \o rest' = text \o rest
    <3> DEFINE h == <<Head(rest)>>
               t == Tail(rest)
    <3>1. h \in Text /\ t \in Text /\ rest = h \o t /\ text' = text \o h /\ rest' = t
      BY <1>0, <2>1, <2>2, <2>3, AppendJoins
    <3> HIDE DEF h, t
    <3> QED BY <1>0, <3>1, Join
  <2>5. TypeOK'
    BY <1>0, <1>1, <2>1, <2>2, <2>3 DEF TypeOK, Text
  <2>6. Clean' /\ Meant'
    BY <1>1, <1>2, <1>3, <2>1, <2>4 DEF Clean, Meant
  <2> QED BY <1>2, <2>1, <2>5, <2>6 DEF Meaningful, InDigits, AnswerTellsLength
<1>5. CASE PrintedAll
  <2>1. rest = <<>> /\ rest' = rest /\ pc' = "format" /\ UNCHANGED <<length, string, output, text>>
    BY <1>5 DEF PrintedAll, conversion, sinks
  <2>2. TypeOK'
    BY <1>0, <1>1, <2>1 DEF TypeOK
  <2>3. Clean' /\ Meant'
    BY <1>1, <1>2, <1>3, <2>1 DEF Clean, Meant
  <2> QED BY <1>2, <2>1, <2>2, <2>3 DEF Meaningful, InDigits, AnswerTellsLength
<1> QED BY <1>4, <1>5

\* The answer at the end of a format, and at a directive that is unknown.
LEMMA EndMeans ==
    ASSUME IInv, Meaningful, End \/ BadDirective
    PROVE  Meaningful'
<1> DEFINE F == call.format
<1>0. TypeOK /\ Underway /\ Clean /\ Meant
  BY DEF Meaningful
<1>1. /\ pc = "format" /\ pc' = "done" /\ Finalize
      /\ UNCHANGED <<call, type, capacity, format, flags, number, prefix, rest, length, output, text, stored>>
  BY DEF End, BadDirective, Return, place, conversion
<1>2. /\ F \in Formats /\ Len(F) \in Nat /\ Len(format) \in Nat /\ Done = Len(F) - Len(format)
      /\ call.n <= INT_MAX /\ F # NULL
  BY <1>0, <1>1, PlaceFacts, StdioAssumption DEF Underway
<1>3. /\ \A k \in 1 .. Len(format) : format[k] = F[Done + k]
      /\ \A k \in 1 .. Done : F[k].dir # "bad"
  BY <1>0, <1>1 DEF Underway, Suffix
<1>4. DOMAIN F = 1 .. Len(F)
  <2>1. F \in Seq([dir : Directives, arg : Int])
    BY <1>2, FormatsProper
  <2> HIDE DEF F
  <2> QED BY <2>1
<1> HIDE DEF F
<1>5. answer' = IF \E k \in DOMAIN F : F[k].dir = "bad" THEN EOF ELSE ToInt(Len(MeaningOf(F, Len(F))))
  <2>1. CASE End
    <3>1. format = <<>> /\ answer' = ToInt(length)
      BY <2>1 DEF End, Return
    <3>2. Len(format) = 0 /\ Done = Len(F)
      BY <1>2, <3>1
    <3>3. ~ \E k \in DOMAIN F : F[k].dir = "bad"
      BY <1>3, <1>4, <3>2
    <3>4. length = Len(text) /\ text \in Text /\ rest = <<>> /\ text \o rest = MeaningOf(F, Done)
      BY <1>0, <1>1 DEF IInv, Counted, TypeOK, Text, Clean, Meant, F
    <3>5. text = MeaningOf(F, Len(F))
      BY <3>2, <3>4, Join
    <3> QED BY <3>1, <3>3, <3>4, <3>5
  <2>2. CASE BadDirective
    <3>1. format # <<>> /\ Head(format).dir = "bad" /\ answer' = EOF
      BY <2>2 DEF BadDirective, Return
    <3>2. format \in Seq([dir : Directives, arg : Int])
      BY <1>0 DEF TypeOK
    <3>3. Head(format) = format[1] /\ 1 \in 1 .. Len(format)
      BY <3>1, <3>2
    <3>4. Done + 1 \in 1 .. Len(F)
      BY <1>0, <1>1, <1>2, <3>3, PlaceFacts DEF F
    <3> QED BY <1>3, <1>4, <3>1, <3>3, <3>4
  <2> QED BY <2>1, <2>2
<1>6. answer' \in Int
  <2>1. CASE End
    <3>1. answer' = ToInt(length) /\ length \in Nat
      BY <1>0, <2>1 DEF End, Return, TypeOK
    <3> QED BY <3>1, ToIntType
  <2>2. CASE BadDirective
    BY <2>2 DEF BadDirective, Return, EOF
  <2> QED BY <2>1, <2>2
<1>7. TypeOK'
  <2>1. DOMAIN string' \subseteq Nat
    BY <1>0, <1>1 DEF TypeOK, Finalize, Write
  <2> QED BY <1>0, <1>1, <1>6, <2>1 DEF TypeOK
<1>8. AnswerTellsLength'
  <2>1. call.n \in Nat /\ ~ (call.n > INT_MAX)
    BY <1>0, <1>2, CallFacts, Bounds
  <2> QED BY <1>1, <1>2, <1>5, <2>1 DEF AnswerTellsLength, F
<1> QED BY <1>0, <1>1, <1>7, <1>8 DEF Meaningful, Underway, Clean, Meant, InDigits

\* A call is refused or begins in front of its format.
LEMMA EntryMeans ==
    ASSUME IInv, Meaningful, Vsnprintf \/ Vprintf \/ Vdprintf
    PROVE  Meaningful'
<1> DEFINE F == call.format
<1>0. TypeOK /\ Clean
  BY DEF Meaningful
<1>1. /\ pc = "entry" /\ UNCHANGED <<call, flags, number, prefix, rest, length, string, output, text, stored>>
      /\ call.n \in Nat /\ F \in Formats \cup {NULL} /\ INT_MAX \in Nat /\ NULL \notin Formats
  BY <1>0, CallFacts, Bounds, StdioAssumption
     DEF Vsnprintf, Vprintf, Vdprintf, Refuse, Return, Begin, place, conversion, sinks
<1>2. \/ /\ F = NULL /\ Refuse(0)
      \/ /\ F # NULL /\ call.n > INT_MAX /\ Refuse(EOF)
      \/ /\ F # NULL /\ call.n <= INT_MAX /\ pc' = "format" /\ format' = F /\ answer' = answer
         /\ type' \in {"measure", "string", "console", "debug"} /\ capacity' \in {call.n, INT_MAX}
  <2>1. CASE Vsnprintf
    BY <1>1, <2>1 DEF Vsnprintf, Begin
  <2>2. CASE Vprintf \/ Vdprintf
    <3>1. call.n = 0
      BY <1>0, <2>2, CallFacts DEF Vprintf, Vdprintf
    <3> QED BY <1>1, <2>2, <3>1 DEF Vprintf, Vdprintf, Begin
  <2> QED BY <2>1, <2>2
<1>3. text = <<>> /\ stored = <<>> /\ rest = <<>> /\ prefix = <<>> /\ text \o rest = <<>>
  BY <1>0, <1>1, Join DEF Clean
<1> HIDE DEF F
<1>4. ASSUME NEW a \in {0, EOF}, Refuse(a), (F = NULL /\ a = 0) \/ (F # NULL /\ call.n > INT_MAX /\ a = EOF)
      PROVE  Meaningful'
  <2>1. pc' = "done" /\ answer' = a /\ UNCHANGED <<type, capacity, format>>
    BY <1>4 DEF Refuse, Return, place
  <2>2. TypeOK'
    <3>1. answer' \in Int
      BY <2>1 DEF EOF
    <3> QED BY <1>0, <1>1, <2>1, <3>1 DEF TypeOK
  <2>3. AnswerTellsLength'
    BY <1>1, <1>4, <2>1 DEF AnswerTellsLength, F
  <2> QED BY <1>1, <1>3, <2>1, <2>2, <2>3 DEF Meaningful, Underway, Clean, Meant, InDigits
<1>5. ASSUME F # NULL, call.n <= INT_MAX, pc' = "format", format' = F, answer' = answer,
             type' \in {"measure", "string", "console", "debug"}, capacity' \in {call.n, INT_MAX}
      PROVE  Meaningful'
  <2>1. F \in Formats
    BY <1>1, <1>5
  <2>2. F \in Seq([dir : Directives, arg : Int])
    BY <2>1, FormatsProper
  <2>3. TypeOK'
    BY <1>0, <1>1, <1>5, <2>2 DEF TypeOK
  <2>4. Len(F) \in Nat /\ call'.format = F /\ Len(format') = Len(F)
    BY <1>1, <1>5, <2>2 DEF F
  <2>5. Done' = 0
    BY <2>4 DEF Done
  <2>6. Suffix'
    <3>1. \A k \in 1 .. Len(F) : 0 + k = k
      BY <2>4
    <3> QED BY <1>5, <2>4, <2>5, <3>1 DEF Suffix
  <2>7. MeaningOf(F, 0) = <<>> /\ StoredBy(F, 0) = <<>>
    BY <2>1, MeaningSteps, StoredSteps
  <2>8. Underway' /\ Clean' /\ Meant'
    BY <1>1, <1>3, <1>5, <2>1, <2>4, <2>5, <2>6, <2>7 DEF Underway, Clean, Meant
  <2> QED BY <1>5, <2>3, <2>8 DEF Meaningful, InDigits, AnswerTellsLength
<1> QED BY <1>2, <1>4, <1>5

LEMMA InitMeaningful == Init => Meaningful
<1> SUFFICES ASSUME Init PROVE Meaningful
  OBVIOUS
<1>1. <<>> \in Seq(Int) /\ <<>> \in Seq([dir : Directives, arg : Int]) /\ DOMAIN <<>> \subseteq Nat
  OBVIOUS
<1>2. flags \in [base : {0, 8, 10, 16}, lowercase : BOOLEAN]
  BY DEF Init
<1>3. TypeOK
  BY <1>1, <1>2 DEF Init, TypeOK
<1> QED BY <1>3 DEF Init, Meaningful, Underway, Clean, Meant, InDigits, AnswerTellsLength

LEMMA NextMeaningful == IInv /\ Meaningful /\ [Next]_vars => Meaningful'
<1>1. ASSUME IInv, Meaningful, UNCHANGED vars PROVE Meaningful'
  <2>1. UNCHANGED <<call, pc, format, type, capacity, length, flags, number, prefix, rest, string, output,
                    stored, answer, text>>
    BY <1>1 DEF vars
  <2>2. Done' = Done /\ \A x : DigitChr(x)' = DigitChr(x)
    BY <2>1 DEF Done, DigitChr
  <2>3. TypeOK'
    BY <1>1, <2>1 DEF Meaningful, TypeOK
  <2>4. Suffix' <=> Suffix
    BY <2>1, <2>2 DEF Suffix
  <2>5. Underway'
    BY <1>1, <2>1, <2>2, <2>4 DEF Meaningful, Underway
  <2>6. Clean' /\ Meant'
    BY <1>1, <2>1, <2>2 DEF Meaningful, Clean, Meant
  <2>7. AnswerTellsLength'
    BY <1>1, <2>1 DEF Meaningful, AnswerTellsLength
  <2>8. InDigits'
    BY <1>1, <2>1, <2>2 DEF Meaningful, InDigits, Digits
  <2> QED BY <2>3, <2>5, <2>6, <2>7, <2>8 DEF Meaningful
<1>2. ASSUME IInv, Meaningful, Ptr PROVE Meaningful'
  BY <1>2, StringMeans, ConversionMeans
<1> QED BY <1>1, <1>2, EntryMeans, CharacterMeans, StringMeans, CountMeans, ConversionMeans,
           DigitMeans, CharsMean, EndMeans DEF Next

-----------------------------------------------------------------------------
\* Every variable keeps its type; what printf prints up to each directive is what
\* the directives so far mean, for every format and argument, numbers in
\* positional notation included; and no digit falls out of its buffer.
THEOREM PrintsMeaning == Spec => []TextIsMeaning
<1>1. Meaningful => TextIsMeaning
  BY DEF Meaningful, TextIsMeaning, Meant, DigitsFit, InDigits, Digits
<1> QED BY <1>1, InitIInv, NextKeepsIInv, InitMeaningful, NextMeaningful, PTL DEF Spec

\* The answer and every count stored for %n are those of the text that the format
\* means, converted to int, for every output, buffer size and width of int.
THEOREM CountsTrue == Spec => []CountsAreTrue
<1>1. Meaningful => CountsAreTrue
  BY DEF Meaningful, CountsAreTrue, Underway, StoredCounts
<1> QED BY <1>1, InitIInv, NextKeepsIInv, InitMeaningful, NextMeaningful, PTL DEF Spec
=============================================================================
