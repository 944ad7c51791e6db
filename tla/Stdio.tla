------------------------------- MODULE Stdio -------------------------------
(***************************************************************************)
(* Formatted output (src/kernel/lib/stdio.c): one call of snprintf, printf *)
(* or dprintf, directive by directive and character by character.          *)
(*                                                                         *)
(* Characters are their ASCII codes.  A format is a sequence of directives *)
(* [dir, arg]: a literal character, a conversion with the argument that    *)
(* va_arg yields for it, or "bad" for a conversion _do_print does not know *)
(* (a format that ends in a lone '%' is one).                              *)
(***************************************************************************)
EXTENDS Integers, Sequences

CONSTANTS
    NULL,       \* the null pointer
    INT_MAX,    \* the largest int; size_t and uintmax_t hold all counts below
    BUFFER_SIZE,\* the bytes a number is converted in
    Strings,    \* address -> the characters of the string found there
    Formats,    \* the formats callers pass
    Sizes       \* the buffer sizes callers pass

Directives == {"literal", "%", "c", "s", "d", "i", "o", "x", "X", "u", "n", "p", "bad"}

Conversions == {"d", "i", "o", "x", "X", "u", "p"}

\* The value of the digit that has k digits behind it.
PlaceValue(base, k) ==
    LET upTo[n \in 0 .. BUFFER_SIZE] == IF n = 0 THEN 1 ELSE base * upTo[n - 1] IN upTo[k]

\* No argument of a conversion has more digits than the buffer has room for, next
\* to a sign and the terminator: 46 octal digits are 138 bits.
ASSUME StdioAssumption ==
    /\ INT_MAX \in Nat \ {0} /\ BUFFER_SIZE \in Nat /\ BUFFER_SIZE > 2
    /\ Sizes \subseteq Nat
    /\ \A a \in DOMAIN Strings : Strings[a] \in Seq(1 .. 255)
    /\ Formats \subseteq Seq([dir : Directives, arg : Int])
    /\ \A f \in Formats : \A k \in DOMAIN f :
        /\ f[k].dir = "s" => f[k].arg \in DOMAIN Strings
        /\ f[k].dir \in {"literal", "o", "x", "X", "u", "p"} => f[k].arg \in Nat
        /\ f[k].dir \in Conversions =>
            LET limit == PlaceValue(8, BUFFER_SIZE - 2)
            IN -limit < f[k].arg /\ f[k].arg < limit
    /\ NULL \notin Formats /\ NULL # "buffer"

VARIABLES
    call,      \* the function called and its arguments
    pc,        \* entry, format (the loop of _do_print), digits, chars, done
    format,    \* PrintState.format: the directives still to do
    type,      \* PrintState.type
    capacity,  \* PrintState.capacity
    length,    \* PrintState.length
    flags,     \* PrintState.base and .lowercase
    number,    \* i of _do_print_int and _do_print_uint
    prefix,    \* "-" or "0x", printed before the number
    rest,      \* what _do_print_str has still to print
    string,    \* the bytes written so far at and after output.string
    output,    \* the characters passed to dputc or put_to_console
    stored,    \* the ints written for %n
    answer,    \* the value the call returns
    text       \* history: every character passed to _do_print_chr

vars == <<call, pc, format, type, capacity, length, flags, number, prefix,
          rest, string, output, stored, answer, text>>
sinks == <<length, string, output, text>>
conversion == <<flags, number, prefix, rest>>
place == <<call, type, capacity>>

EOF == -1
ToInt(i) == ((i + INT_MAX + 1) % (2 * INT_MAX + 2)) - INT_MAX - 1

Calls ==
    [fn : {"vsnprintf"}, s : {NULL, "buffer"}, n : Sizes, format : Formats \cup {NULL}]
    \cup [fn : {"vprintf", "vdprintf"}, s : {NULL}, n : {0}, format : Formats \cup {NULL}]

Init ==
    /\ call \in Calls
    /\ pc = "entry"
    /\ format = <<>>
    /\ type = "measure"
    /\ capacity = 0
    /\ length = 0
    /\ flags = [base |-> 0, lowercase |-> FALSE]
    /\ number = 0
    /\ prefix = <<>>
    /\ rest = <<>>
    /\ string = <<>>
    /\ output = <<>>
    /\ stored = <<>>
    /\ answer = 0
    /\ text = <<>>

-----------------------------------------------------------------------------
(***************************************************************************)
(* Entering and leaving a call.                                            *)
(***************************************************************************)
Return(value) ==
    /\ pc' = "done"
    /\ answer' = value

Refuse(value) ==
    /\ Return(value)
    /\ UNCHANGED <<place, format, conversion, sinks, stored>>

Begin(kind, size) ==
    /\ pc' = "format"
    /\ format' = call.format
    /\ type' = kind
    /\ capacity' = size
    /\ UNCHANGED <<call, conversion, sinks, stored, answer>>

Vsnprintf ==
    /\ pc = "entry" /\ call.fn = "vsnprintf"
    /\ \/ call.format = NULL /\ Refuse(0)
       \/ call.format # NULL /\ call.n > INT_MAX /\ Refuse(EOF)
       \/ /\ call.format # NULL /\ call.n <= INT_MAX
          /\ Begin(IF call.s = NULL THEN "measure" ELSE "string", call.n)

Vprintf ==
    /\ pc = "entry" /\ call.fn = "vprintf"
    /\ \/ call.format = NULL /\ Refuse(0)
       \/ call.format # NULL /\ Begin("console", INT_MAX)

Vdprintf ==
    /\ pc = "entry" /\ call.fn = "vdprintf"
    /\ \/ call.format = NULL /\ Refuse(0)
       \/ call.format # NULL /\ Begin("debug", INT_MAX)

Write(offset, byte) ==
    string' = [k \in DOMAIN string \cup {offset} |->
                  IF k = offset THEN byte ELSE string[k]]

\* A plausible mistake: the terminator goes to the end of the buffer.
FinalizeAtCapacity == IF type = "string" THEN Write(capacity - 1, 0) ELSE UNCHANGED string

\* The terminator goes behind the whole text, printed or not.
Finalize == IF type = "string" THEN Write(length, 0) ELSE UNCHANGED string

End ==
    /\ pc = "format" /\ format = <<>>
    /\ Finalize
    /\ Return(ToInt(length))
    /\ UNCHANGED <<place, format, conversion, length, output, text, stored>>

BadDirective ==
    /\ pc = "format" /\ format # <<>> /\ Head(format).dir = "bad"
    /\ Finalize
    /\ Return(EOF)
    /\ UNCHANGED <<place, format, conversion, length, output, text, stored>>

-----------------------------------------------------------------------------
(***************************************************************************)
(* Printing characters.                                                    *)
(***************************************************************************)
\* A plausible mistake: no place is kept free.
FitsExactly == length < capacity

Fits == length + 1 < capacity

\* A plausible mistake: characters that do not fit are not counted.
PrintChrCountingPrinted(c) ==
    /\ length' = IF Fits THEN length + 1 ELSE length
    /\ text' = Append(text, c)
    /\ IF type = "string" /\ Fits THEN Write(length, c) ELSE UNCHANGED string
    /\ IF type \in {"debug", "console"} /\ Fits
       THEN output' = Append(output, c) ELSE UNCHANGED output

PrintChr(c) ==
    /\ length' = length + 1
    /\ text' = Append(text, c)
    /\ IF type = "string" /\ Fits THEN Write(length, c) ELSE UNCHANGED string
    /\ IF type \in {"debug", "console"} /\ Fits
       THEN output' = Append(output, c) ELSE UNCHANGED output

\* One round of the loop of _do_print_str.
PrintNext ==
    /\ pc = "chars" /\ rest # <<>>
    /\ PrintChr(Head(rest))
    /\ rest' = Tail(rest)
    /\ UNCHANGED <<place, pc, format, flags, number, prefix, stored, answer>>

PrintedAll ==
    /\ pc = "chars" /\ rest = <<>>
    /\ pc' = "format"
    /\ UNCHANGED <<place, format, conversion, sinks, stored, answer>>

DigitChr(d) ==
    IF d < 10 THEN 48 + d ELSE IF flags.lowercase THEN 87 + d ELSE 55 + d

\* One round of the loops of _do_print_int and _do_print_uint, which fill
\* their buffer from its end; the last one is followed by the sign.
Digit ==
    /\ pc = "digits"
    /\ number' = number \div flags.base
    /\ LET digits == <<DigitChr(number % flags.base)>> \o rest
       IN IF number' = 0
          THEN /\ rest' = prefix \o digits
               /\ prefix' = <<>>
               /\ pc' = "chars"
          ELSE rest' = digits /\ UNCHANGED <<prefix, pc>>
    /\ UNCHANGED <<place, format, flags, sinks, stored, answer>>

-----------------------------------------------------------------------------
(***************************************************************************)
(* The loop of _do_print, one action per directive.                        *)
(***************************************************************************)
Take(dirs) ==
    /\ pc = "format" /\ format # <<>> /\ Head(format).dir \in dirs
    /\ format' = Tail(format)
    /\ UNCHANGED <<place, answer>>

Arg == Head(format).arg

\* A plausible mistake: the case of an earlier %x stays.
ResetFlagsKeepingCase == [base |-> 10, lowercase |-> flags.lowercase]

ResetFlags == [base |-> 10, lowercase |-> FALSE]

\* A conversion sets its base after the reset.
InBase(b) == [base |-> b, lowercase |-> ResetFlags.lowercase]

\* A character of the format that is not '%' leaves the flags alone.
Literal ==
    /\ Take({"literal"})
    /\ PrintChr(Arg)
    /\ UNCHANGED <<pc, conversion, stored>>

Percent ==
    /\ Take({"%"})
    /\ flags' = ResetFlags
    /\ PrintChr(37)
    /\ UNCHANGED <<pc, number, prefix, rest, stored>>

Chr ==
    /\ Take({"c"})
    /\ flags' = ResetFlags
    /\ PrintChr(Arg % 256)
    /\ UNCHANGED <<pc, number, prefix, rest, stored>>

Str ==
    /\ Take({"s"})
    /\ flags' = ResetFlags
    /\ rest' = Strings[Arg]
    /\ pc' = "chars"
    /\ UNCHANGED <<number, prefix, sinks, stored>>

\* Conversion of i to digits, behind a prefix, with the given flags.
Convert(i, before, f) ==
    /\ number' = i
    /\ prefix' = before
    /\ flags' = f
    /\ pc' = "digits"
    /\ UNCHANGED <<rest, sinks, stored>>

Int_ ==
    /\ Take({"d", "i"})
    /\ IF Arg < 0
       THEN Convert(-Arg, <<45>>, ResetFlags)
       ELSE Convert(Arg, <<>>, ResetFlags)

Octal == Take({"o"}) /\ Convert(Arg, <<>>, InBase(8))

HexLower ==
    /\ Take({"x"})
    /\ Convert(Arg, <<>>, [base |-> 16, lowercase |-> TRUE])

HexUpper == Take({"X"}) /\ Convert(Arg, <<>>, InBase(16))

Unsigned == Take({"u"}) /\ Convert(Arg, <<>>, ResetFlags)

CountSoFar ==
    /\ Take({"n"})
    /\ flags' = ResetFlags
    /\ stored' = Append(stored, ToInt(length))
    /\ UNCHANGED <<pc, number, prefix, rest, sinks>>

\* "(nil)", or "0x" and the address; "0x" reaches the output first.
Ptr ==
    /\ Take({"p"})
    /\ IF Arg = 0
       THEN /\ flags' = ResetFlags
            /\ rest' = <<40, 110, 105, 108, 41>>
            /\ pc' = "chars"
            /\ UNCHANGED <<number, prefix, sinks, stored>>
       ELSE Convert(Arg, <<48, 120>>, InBase(16))

Next ==
    \/ Vsnprintf \/ Vprintf \/ Vdprintf
    \/ Literal \/ Percent \/ Chr \/ Str \/ Int_ \/ Octal \/ HexLower
    \/ HexUpper \/ Unsigned \/ CountSoFar \/ Ptr
    \/ Digit \/ PrintNext \/ PrintedAll
    \/ BadDirective \/ End

Spec == Init /\ [][Next]_vars

-----------------------------------------------------------------------------
(***************************************************************************)
(* What a format means, independently of the code: positional numerals.    *)
(***************************************************************************)
Width(i, base) ==
    CHOOSE w \in 1 .. BUFFER_SIZE - 1 :
        i < PlaceValue(base, w) /\ (w = 1 \/ i >= PlaceValue(base, w - 1))

Numeral(i, base, letters) ==
    LET w == Width(i, base)
        digit(k) == (i \div PlaceValue(base, w - k)) % base
    IN [k \in 1 .. w |-> IF digit(k) < 10 THEN 48 + digit(k) ELSE letters + digit(k) - 10]

Meaning(d) ==
    CASE d.dir = "literal"    -> <<d.arg>>
      [] d.dir = "%"          -> <<37>>
      [] d.dir = "c"          -> <<d.arg % 256>>
      [] d.dir = "s"          -> Strings[d.arg]
      [] d.dir \in {"d", "i"} -> IF d.arg < 0
                                 THEN <<45>> \o Numeral(-d.arg, 10, 97)
                                 ELSE Numeral(d.arg, 10, 97)
      [] d.dir = "u"          -> Numeral(d.arg, 10, 97)
      [] d.dir = "o"          -> Numeral(d.arg, 8, 97)
      [] d.dir = "x"          -> Numeral(d.arg, 16, 97)
      [] d.dir = "X"          -> Numeral(d.arg, 16, 65)
      [] d.dir = "p"          -> IF d.arg = 0 THEN <<40, 110, 105, 108, 41>>
                                 ELSE <<48, 120>> \o Numeral(d.arg, 16, 65)
      [] d.dir \in {"n", "bad"} -> <<>>

\* The text of the first m directives of a format.
MeaningOf(f, m) ==
    LET upTo[k \in 0 .. Len(f)] == IF k = 0 THEN <<>> ELSE upTo[k - 1] \o Meaning(f[k])
    IN upTo[m]

\* What the %n among them store.
StoredBy(f, m) ==
    LET upTo[k \in 0 .. Len(f)] ==
            IF k = 0 THEN <<>>
            ELSE IF f[k].dir = "n" THEN Append(upTo[k - 1], ToInt(Len(MeaningOf(f, k))))
            ELSE upTo[k - 1]
    IN upTo[m]

Smaller(a, b) == IF a < b THEN a ELSE b

-----------------------------------------------------------------------------
Bytes == 0 .. 255

TypeOK ==
    /\ call \in Calls
    /\ pc \in {"entry", "format", "digits", "chars", "done"}
    /\ format \in Seq([dir : Directives, arg : Int])
    /\ type \in {"measure", "debug", "console", "string"}
    /\ capacity \in Nat /\ length \in Nat
    /\ flags \in [base : {0, 8, 10, 16}, lowercase : BOOLEAN]
    /\ number \in Nat
    /\ prefix \in {<<>>, <<45>>, <<48, 120>>}
    /\ rest \in Seq(Int) /\ text \in Seq(Int) /\ output \in Seq(Int)
    /\ DOMAIN string \subseteq Nat
    /\ stored \in Seq(Int)
    /\ answer \in Int

Done == Len(call.format) - Len(format)

\* The digits written so far leave room for the one that follows, a sign and the
\* terminator.
DigitsFit == pc = "digits" => Len(rest) + 3 <= BUFFER_SIZE

\* At every directive the characters printed so far are what the directives
\* done so far mean: flags of one conversion never colour another, INT_MIN and
\* 0 convert, %p ignores the flags, no digit falls out of its buffer, and no
\* character is lost between loops.
TextIsMeaning ==
    /\ TypeOK
    /\ DigitsFit
    /\ pc \in {"format", "chars"} => text \o rest = MeaningOf(call.format, Done)

AnswerTellsLength ==
    pc = "done" =>
        answer = CASE call.format = NULL -> 0
                   [] call.format # NULL /\ call.n > INT_MAX -> EOF
                   [] call.format # NULL /\ call.n <= INT_MAX ->
                        IF \E k \in DOMAIN call.format : call.format[k].dir = "bad"
                        THEN EOF
                        ELSE ToInt(Len(MeaningOf(call.format, Len(call.format))))

StoredCounts ==
    pc \in {"format", "chars", "digits"} => stored = StoredBy(call.format, Done)

\* Every count the call gives out is that of the text its format means, converted
\* to int, for every output and buffer size alike: the answer, which is EOF
\* exactly for a bad directive or a size above INT_MAX and 0 without a format,
\* and what each %n stores, also beyond the capacity.
CountsAreTrue == AnswerTellsLength /\ StoredCounts

\* A text that fits is there whole and terminated, nothing else is written; of
\* one that does not, the first n - 1 characters are, the last byte of the
\* buffer keeps its old value, and the terminator goes behind the buffer, at the
\* offset of the text's length.  (With size 0 even an empty text does not fit.)
BufferContents ==
    pc = "done" /\ type = "string" =>
        LET kept == Smaller(Len(text), call.n - 1)
        IN /\ DOMAIN string = (0 .. kept - 1) \cup {Len(text)}
           /\ \A k \in 1 .. kept : string[k - 1] = text[k]
           /\ string[Len(text)] = 0

\* printf and dprintf pass on the text in order, once, up to INT_MAX - 1
\* characters, whatever directives it comes from; the others pass on nothing.
StreamIsPrefix ==
    /\ Len(output) = IF type \in {"debug", "console"}
                     THEN Smaller(Len(text), INT_MAX - 1) ELSE 0
    /\ \A k \in 1 .. Len(output) : output[k] = text[k]
=============================================================================
