----------------------------- MODULE LossyLink -----------------------------
(***************************************************************************)
(* A link that carries numbered messages in one direction: messages enter  *)
(* in increasing order, may be lost anywhere on the way, and arrive in the *)
(* order they entered, none of them twice.                                 *)
(***************************************************************************)
EXTENDS Naturals, Sequences

CONSTANT Msgs           \* the messages: a set of numbers

VARIABLES
    inFlight,           \* the messages on the link, oldest first
    received            \* the messages received, in order of reception

vars == <<inFlight, received>>

Everything == received \o inFlight

Ascending(s) == \A i, j \in DOMAIN s : i < j => s[i] < s[j]

\* The link may hold messages from the start.
Init ==
    /\ inFlight \in Seq(Msgs)
    /\ Ascending(inFlight)
    /\ received = <<>>

\* s without the message in position k.
Drop(s, k) == [i \in 1 .. Len(s) - 1 |-> IF i < k THEN s[i] ELSE s[i + 1]]

\* A message enters; the link may lose one for it.
Enter(m) ==
    /\ \A i \in DOMAIN Everything : Everything[i] < m
    /\ LET with == Append(inFlight, m)
       IN  \/ inFlight' = with
           \/ \E k \in DOMAIN with : inFlight' = Drop(with, k)
    /\ UNCHANGED received

Lose ==
    /\ \E k \in DOMAIN inFlight : inFlight' = Drop(inFlight, k)
    /\ UNCHANGED received

Receive ==
    /\ inFlight # <<>>
    /\ received' = Append(received, Head(inFlight))
    /\ inFlight' = Tail(inFlight)

Next == (\E m \in Msgs : Enter(m)) \/ Lose \/ Receive

Spec == Init /\ [][Next]_vars
=============================================================================
