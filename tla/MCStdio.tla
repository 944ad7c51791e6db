------------------------------ MODULE MCStdio ------------------------------
(* Formats of up to two directives over every conversion, with arguments at *)
(* the ends of a 4-bit int, and of three over a few; texts shorter than, as *)
(* long as and longer than the buffer and than INT_MAX.                     *)
EXTENDS Stdio

D(dirs, args) == [dir : dirs, arg : args]

Items ==
    D({"literal"}, {76}) \cup D({"%", "n", "bad"}, {0}) \cup D({"c"}, {0, 65, 256 + 66, -1})
    \cup D({"s"}, {0, 2, 5}) \cup D({"d"}, {-8, 0, 7}) \cup D({"i"}, {-1})
    \cup D({"o", "u"}, {0, 15}) \cup D({"x", "X"}, {9, 15}) \cup D({"p"}, {0, 42, 63})

Few == D({"literal"}, {76}) \cup D({"s"}, {5}) \cup D({"n"}, {0}) \cup D({"x", "u"}, {12})

MCFormats ==
    {<<>>} \cup {<<d>> : d \in Items} \cup {<<d, e>> : d \in Items, e \in Items}
    \cup {<<d, e, f>> : d \in Few, e \in Few, f \in Few}

\* The string at address k has k characters.
MCStrings == [k \in {0, 2, 5} |-> [j \in 1 .. k |-> 96 + j]]
=============================================================================
