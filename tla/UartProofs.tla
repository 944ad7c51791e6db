----------------------------- MODULE UartProofs -----------------------------
(***************************************************************************)
(* Theorems about the UART driver, for every FIFO depth and all bounds.    *)
(* One invariant, IInv, carries them: beside three of the properties it    *)
(* says that the running call is inside its loop and owns the characters   *)
(* it hands out, without which a write could not be known to stay in       *)
(* bounds.  On top of it stand the account of the input and the order of   *)
(* the output, and on these that both directions implement a LossyLink.    *)
(***************************************************************************)
EXTENDS Uart, SequenceTheorems, TLAPS

Sent == {"transmit", "put"}

(* The running call: it has something left to do, it runs the steps of its *)
(* own loop, and the characters it hands out are numbered.                 *)
CallInProgress ==
    /\ pc # "idle" => call.done < call.size
    /\ pc \in ReceiveSteps => call.op = "receive"
    /\ pc \in TransmitSteps => call.op \in Sent
    /\ pc \in DebugSteps => call.op = "debug"
    /\ call.done <= call.size
    /\ call.op # "receive" => call.base + call.size <= issued
    /\ call.op = "put" => call.size = 1

Link ==
    /\ rx \in Seq(1 .. MaxArrivals) /\ Len(rx) <= DEPTH
    /\ tx \in Seq(1 .. MaxIssued) /\ Len(tx) <= DEPTH
    /\ wire \in Seq(1 .. MaxIssued)
    /\ arrived \in 0 .. MaxArrivals
    /\ delivered \in Seq(0 .. MaxArrivals)

Handed ==
    /\ pc \in Steps /\ call \in Calls
    /\ issued \in 0 .. MaxIssued
    /\ accepted \subseteq 1 .. issued

IInv ==
    /\ Link /\ Handed
    /\ CallInProgress
    /\ ChecksStayTrue
    /\ AcceptedIsPrefix
    /\ AnswersAreTrue

-----------------------------------------------------------------------------
\* What call \in Calls says, field by field.
LEMMA CallFields ==
    ASSUME call \in Calls
    PROVE  /\ call.op \in Ops
           /\ call.size \in Nat /\ call.size <= MaxSize
           /\ call.base \in Nat /\ call.base <= MaxIssued
           /\ call.done \in Nat /\ call.done <= MaxSize
           /\ call.answer \in Nat /\ call.answer <= MaxSize
  BY UartAssumption DEF Calls

\* The UART as the firmware leaves it satisfies the invariant.
LEMMA InitInv == Init => IInv
<1> SUFFICES ASSUME Init PROVE IInv
  OBVIOUS
<1>1. PICK n \in 0 .. DEPTH : tx = [k \in 1 .. n |-> k] /\ issued = n
  BY DEF Init
<1>2. tx \in Seq(1 .. MaxIssued) /\ Len(tx) = n
  BY <1>1, UartAssumption
<1>3. Link
  BY <1>1, <1>2, UartAssumption DEF Init, Link
<1>4. Handed
  BY <1>1, UartAssumption DEF Init, Handed, Steps, Calls, Ops
<1>5. CallInProgress /\ ChecksStayTrue /\ AcceptedIsPrefix /\ AnswersAreTrue
  BY UartAssumption
  DEF Init, CallInProgress, ReceiveSteps, TransmitSteps, DebugSteps,
      ChecksStayTrue, AcceptedIsPrefix, AnswersAreTrue
<1> QED
  BY <1>3, <1>4, <1>5 DEF IInv

\* A new call starts its own loop, with characters nobody was handed before.
LEMMA BeginInv ==
    ASSUME IInv, NEW o \in Ops, NEW n \in 0 .. MaxSize, NEW null \in BOOLEAN,
           NEW first \in Steps, Begin(o, n, null, first),
           o = "receive" => first = "read_LSR_for_RBR",
           o \in Sent => first = "read_LSR_for_THR",
           o = "debug" => first = "read_RBR_for_dputc",
           o = "put" => n = 1 /\ ~null
    PROVE  IInv'
<1>1. /\ call'.op = o /\ call'.size = n /\ call'.base = issued
      /\ call'.done = 0 /\ call'.answer = 0
  BY DEF Begin
<1>2. pc' = IF null \/ n = 0 THEN "idle" ELSE first
  BY DEF Begin
<1>3. n \in Nat /\ n <= MaxSize /\ issued \in Nat /\ issued <= MaxIssued
  BY UartAssumption DEF IInv, Handed
<1>4. /\ issued' \in Nat /\ issued' <= MaxIssued /\ issued <= issued'
      /\ o # "receive" => issued + n <= issued'
  BY <1>3 DEF Begin
<1>5. Link'
  BY DEF IInv, Link, Begin, hardware
<1>6. call' \in Calls
  BY <1>3, UartAssumption DEF Begin, Calls
<1>7. Handed'
  <2>1. accepted' \subseteq 1 .. issued'
    BY <1>3, <1>4 DEF IInv, Handed, Begin
  <2>2. pc' \in Steps
    BY <1>2 DEF Steps
  <2> QED
    BY <1>4, <1>6, <2>1, <2>2, UartAssumption DEF Handed
<1>8. CallInProgress'
  <2>1. pc' # "idle" => n # 0 /\ pc' = first
    BY <1>2
  <2>2. /\ pc' \in ReceiveSteps => o = "receive"
        /\ pc' \in TransmitSteps => o \in Sent
        /\ pc' \in DebugSteps => o = "debug"
    BY <1>2 DEF ReceiveSteps, TransmitSteps, DebugSteps, Sent, Ops
  <2> QED
    BY <1>1, <1>3, <1>4, <2>1, <2>2 DEF CallInProgress
<1>9. ChecksStayTrue'
  BY <1>2 DEF ChecksStayTrue, Sent, Ops
<1>10. AcceptedIsPrefix'
  <2>1. \A c \in accepted' : c \in 1 .. issued
    BY DEF IInv, Handed, Begin
  <2>2. accepted' \cap (issued + 1 .. issued + n) = {}
    BY <2>1, <1>3
  <2>3. issued + 1 .. issued + 0 = {}
    BY <1>3
  <2> QED
    BY <1>1, <2>2, <2>3 DEF AcceptedIsPrefix
<1>11. AnswersAreTrue'
  BY <1>1 DEF AnswersAreTrue
<1> QED
  BY <1>5, <1>7, <1>8, <1>9, <1>10, <1>11 DEF IInv

-----------------------------------------------------------------------------
\* An arrival leaves the call alone and never empties the receiver.
LEMMA ArriveInv == IInv /\ Arrive => IInv'
<1> SUFFICES ASSUME IInv, Arrive PROVE IInv'
  OBVIOUS
<1>1. UNCHANGED <<tx, wire, pc, call, issued, delivered, discarded, accepted>>
  BY DEF Arrive, ghosts
<1>2. arrived' \in 1 .. MaxArrivals
  BY UartAssumption DEF IInv, Link, Arrive
<1>3. /\ rx' \in Seq(1 .. MaxArrivals) /\ Len(rx') <= DEPTH
      /\ rx # <<>> => rx' # <<>>
  <2>1. CASE Len(rx) < DEPTH /\ rx' = Append(rx, arrived')
    <3>1. rx \in Seq(1 .. MaxArrivals) /\ Len(rx) \in Nat
      BY DEF IInv, Link
    <3>2. rx' \in Seq(1 .. MaxArrivals) /\ Len(rx') = Len(rx) + 1
      BY <1>2, <2>1, <3>1
    <3> QED
      BY <2>1, <3>1, <3>2, UartAssumption
  <2>2. CASE rx' = rx
    BY <2>2 DEF IInv, Link
  <2>3. CASE Len(rx) = DEPTH /\ rx' = [rx EXCEPT ![DEPTH] = arrived']
    <3>1. DEPTH \in 1 .. Len(rx) /\ rx \in Seq(1 .. MaxArrivals)
      BY <2>3, UartAssumption DEF IInv, Link
    <3> QED
      BY <1>2, <2>3, <3>1, ExceptSeq
  <2> QED
    BY <2>1, <2>2, <2>3 DEF Arrive
<1>4. Link' /\ Handed' /\ CallInProgress'
  BY <1>1, <1>2, <1>3, UartAssumption DEF IInv, Link, Handed, CallInProgress
<1>5. ChecksStayTrue' /\ AcceptedIsPrefix' /\ AnswersAreTrue'
  BY <1>1, <1>3 DEF IInv, ChecksStayTrue, AcceptedIsPrefix, AnswersAreTrue
<1> QED
  BY <1>4, <1>5 DEF IInv

\* A shift onto the line takes from tx only.
LEMMA ShiftInv == IInv /\ Shift => IInv'
<1> SUFFICES ASSUME IInv, Shift PROVE IInv'
  OBVIOUS
<1>1. UNCHANGED <<rx, arrived, pc, call, issued, delivered, discarded, accepted>>
  BY DEF Shift, ghosts
<1>2. /\ tx # <<>> /\ tx' \in Seq(1 .. MaxIssued) /\ Len(tx') <= DEPTH
      /\ wire' \in Seq(1 .. MaxIssued)
  BY UartAssumption DEF IInv, Link, Shift
<1>3. Link' /\ Handed' /\ CallInProgress'
  BY <1>1, <1>2 DEF IInv, Link, Handed, CallInProgress
<1>4. ChecksStayTrue' /\ AcceptedIsPrefix' /\ AnswersAreTrue'
  BY <1>1, <1>2 DEF IInv, ChecksStayTrue, AcceptedIsPrefix, AnswersAreTrue
<1> QED
  BY <1>3, <1>4 DEF IInv

-----------------------------------------------------------------------------
\* A call that gives up answers a.
LEMMA ReturnFields ==
    ASSUME call \in Calls, NEW a \in 0 .. MaxSize, Return(a)
    PROVE  /\ call' \in Calls /\ pc' = "idle"
           /\ call'.op = call.op /\ call'.size = call.size
           /\ call'.base = call.base /\ call'.done = call.done
           /\ call'.answer = a
  BY DEF Return, Calls

\* One more character is dealt with.
LEMMA AdvanceFields ==
    ASSUME call \in Calls, call.done < call.size, NEW again, Advance(again)
    PROVE  /\ call' \in Calls
           /\ call'.op = call.op /\ call'.size = call.size
           /\ call'.base = call.base /\ call'.done = call.done + 1
           /\ call'.done <= call'.size
           /\ call'.done < call.size => pc' = again
           /\ call'.done = call.size => pc' = "idle" /\ call'.answer = call.size
<1>1. call.done + 1 \in 0 .. MaxSize /\ call.size \in 0 .. MaxSize
  BY CallFields, UartAssumption
<1>2. /\ call'.op = call.op /\ call'.size = call.size
      /\ call'.base = call.base /\ call'.done = call.done + 1
      /\ call'.answer = IF call.done + 1 < call.size THEN 0 ELSE call.size
  BY DEF Advance, Calls
<1>3. call' \in Calls
  <2> DEFINE a == IF call.done + 1 < call.size THEN 0 ELSE call.size
  <2>1. a \in 0 .. MaxSize
    BY <1>1, UartAssumption
  <2>2. call' = [call EXCEPT !.done = call.done + 1, !.answer = a]
    BY DEF Advance
  <2> QED
    BY <1>1, <2>1, <2>2 DEF Calls
<1>4. pc' = IF call.done + 1 < call.size THEN again ELSE "idle"
  BY DEF Advance
<1> QED
  BY <1>1, <1>2, <1>3, <1>4, CallFields

\* What a step that advances a loop keeps, whatever it did to the UART.
LEMMA AdvanceInv ==
    ASSUME IInv, pc # "idle", UNCHANGED issued, NEW again \in Steps, Advance(again),
           again \in ReceiveSteps => call.op = "receive",
           again \in TransmitSteps => call.op \in Sent,
           again \in DebugSteps => call.op = "debug",
           again # "idle"
    PROVE  CallInProgress' /\ AnswersAreTrue' /\ pc' \in {again, "idle"}
<1>1. call \in Calls /\ call.done < call.size
  BY DEF IInv, Handed, CallInProgress
<1>2. /\ call'.op = call.op /\ call'.size = call.size
      /\ call'.base = call.base /\ call'.done = call.done + 1
      /\ call'.done <= call'.size
      /\ call'.done < call.size => pc' = again
      /\ call'.done = call.size => pc' = "idle" /\ call'.answer = call.size
  BY <1>1, AdvanceFields
<1>3. call.done \in Nat /\ call.size \in Nat
  BY <1>1, CallFields
<1>4. \/ call'.done < call.size /\ pc' = again
      \/ call'.done = call.size /\ pc' = "idle" /\ call'.answer = call.size
  BY <1>1, <1>2, <1>3
<1>5. CallInProgress'
  BY <1>2, <1>3, <1>4
  DEF IInv, CallInProgress, ReceiveSteps, TransmitSteps, DebugSteps
<1>6. AnswersAreTrue'
  BY <1>2, <1>4 DEF AnswersAreTrue
<1> QED
  BY <1>4, <1>5, <1>6

\* A step that looks at a register and changes only pc.
LEMMA LookInv ==
    ASSUME IInv, UNCHANGED <<hardware, call, ghosts>>, pc # "idle",
           \/ pc \in ReceiveSteps /\ pc' \in ReceiveSteps /\ (pc' = "read_RBR" => rx # <<>>)
           \/ /\ pc \in TransmitSteps /\ pc' \in TransmitSteps
              /\ pc' # "read_LSR_for_THR" => tx = <<>>
    PROVE  IInv'
<1>1. Link' /\ AcceptedIsPrefix'
  BY DEF IInv, Link, AcceptedIsPrefix, hardware, ghosts
<1>2. Handed' /\ CallInProgress' /\ AnswersAreTrue'
  BY DEF IInv, Handed, CallInProgress, AnswersAreTrue, ghosts,
         Steps, ReceiveSteps, TransmitSteps, DebugSteps
<1>3. ChecksStayTrue'
  BY DEF ChecksStayTrue, hardware, ReceiveSteps, TransmitSteps
<1> QED
  BY <1>1, <1>2, <1>3 DEF IInv

\* A call that gives up, answering a.
LEMMA GiveUpInv ==
    ASSUME IInv, UNCHANGED <<hardware, ghosts>>, pc # "idle",
           NEW a \in 0 .. MaxSize, Return(a),
           call.op \in {"receive", "put"} => a = call.done,
           call.op = "transmit" => a = call.size
    PROVE  IInv'
<1>1. /\ call' \in Calls /\ pc' = "idle"
      /\ call'.op = call.op /\ call'.size = call.size
      /\ call'.base = call.base /\ call'.done = call.done
      /\ call'.answer = a
  BY ReturnFields DEF IInv, Handed
<1>2. Link' /\ AcceptedIsPrefix'
  BY <1>1 DEF IInv, Link, AcceptedIsPrefix, hardware, ghosts
<1>3. Handed' /\ CallInProgress'
  BY <1>1 DEF IInv, Handed, CallInProgress, ghosts,
              Steps, ReceiveSteps, TransmitSteps, DebugSteps
<1>4. ChecksStayTrue' /\ AnswersAreTrue'
  BY <1>1 DEF ChecksStayTrue, AnswersAreTrue
<1> QED
  BY <1>2, <1>3, <1>4 DEF IInv

\* try_receive looks at LSR: on to RBR, or receive_buffer returns i.
LEMMA ReadLsrForRbrInv == IInv /\ ReadLsrForRbr => IInv'
<1> SUFFICES ASSUME IInv, ReadLsrForRbr PROVE IInv'
  OBVIOUS
<1>1. call.done \in 0 .. MaxSize /\ call.op = "receive"
  BY CallFields, UartAssumption
  DEF IInv, Handed, CallInProgress, ReadLsrForRbr, ReceiveSteps
<1>2. CASE rx # <<>>
  BY <1>2, LookInv DEF ReadLsrForRbr, ReceiveSteps
<1>3. CASE rx = <<>>
  BY <1>1, <1>3, GiveUpInv DEF ReadLsrForRbr
<1> QED
  BY <1>2, <1>3

\* transmit looks at LSR: on to THR, or the call gives up.
LEMMA ReadLsrForThrInv == IInv /\ ReadLsrForThr => IInv'
<1> SUFFICES ASSUME IInv, ReadLsrForThr PROVE IInv'
  OBVIOUS
<1> DEFINE a == IF call.op = "put" THEN 0 ELSE call.size
<1>1. call.op \in Sent /\ call.done < call.size /\ (call.op = "put" => call.size = 1)
  BY DEF IInv, CallInProgress, ReadLsrForThr, TransmitSteps
<1>2. a \in 0 .. MaxSize /\ (call.op = "put" => a = call.done)
  BY <1>1, CallFields, UartAssumption DEF IInv, Handed
<1>3. CASE tx = <<>>
  BY <1>3, LookInv DEF ReadLsrForThr, TransmitSteps
<1>4. CASE tx # <<>>
  BY <1>1, <1>2, <1>4, GiveUpInv DEF ReadLsrForThr, Sent
<1> QED
  BY <1>3, <1>4

\* What reading RBR takes from the receiver and leaves in it.
LEMMA TakeFromReceiver ==
    ASSUME Link, rx # <<>>
    PROVE  /\ Head(rx) \in 1 .. MaxArrivals
           /\ Tail(rx) \in Seq(1 .. MaxArrivals) /\ Len(Tail(rx)) <= DEPTH
<1>1. rx \in Seq(1 .. MaxArrivals) /\ Len(rx) <= DEPTH
  BY DEF Link
<1>2. /\ Head(rx) \in 1 .. MaxArrivals
      /\ Tail(rx) \in Seq(1 .. MaxArrivals) /\ Len(Tail(rx)) = Len(rx) - 1
  BY <1>1, HeadTailProperties
<1>3. Len(rx) \in Nat
  BY <1>1
<1> QED
  BY <1>1, <1>2, <1>3, UartAssumption

\* The read before a write costs at most a received character.
LEMMA DiscardInv ==
    ASSUME IInv, DiscardInput,
           \/ pc = "read_RBR_for_THR" /\ pc' = "write_THR"
           \/ pc = "read_RBR_for_dputc" /\ pc' = "write_THR_for_dputc"
    PROVE  IInv'
<1>1. UNCHANGED <<tx, wire, arrived, call, issued, delivered, accepted>>
  BY DEF DiscardInput
<1>2. rx' \in Seq(1 .. MaxArrivals) /\ Len(rx') <= DEPTH
  <2>1. CASE rx # <<>>
    BY <2>1, TakeFromReceiver DEF IInv, DiscardInput
  <2>2. CASE rx = <<>>
    BY <2>2 DEF IInv, Link, DiscardInput
  <2> QED
    BY <2>1, <2>2
<1>3. Link' /\ AcceptedIsPrefix'
  BY <1>1, <1>2 DEF IInv, Link, AcceptedIsPrefix
<1>4. Handed' /\ CallInProgress' /\ AnswersAreTrue'
  BY <1>1 DEF IInv, Handed, CallInProgress, AnswersAreTrue,
              Steps, ReceiveSteps, TransmitSteps, DebugSteps
<1>5. ChecksStayTrue'
  BY <1>1 DEF IInv, ChecksStayTrue
<1> QED
  BY <1>3, <1>4, <1>5 DEF IInv

\* receive stores a character and the loop goes round or returns.
LEMMA ReadRbrInv == IInv /\ ReadRbr => IInv'
<1> SUFFICES ASSUME IInv, ReadRbr PROVE IInv'
  OBVIOUS
<1>1. UNCHANGED <<tx, wire, arrived, issued, accepted>> /\ pc = "read_RBR"
  BY DEF ReadRbr
<1>2. call \in Calls /\ call.op = "receive" /\ call.done < call.size
  BY <1>1 DEF IInv, Handed, CallInProgress, ReceiveSteps
<1>3. rx # <<>>
  BY <1>1 DEF IInv, ChecksStayTrue
<1>4. rx' = Tail(rx) /\ delivered' = Append(delivered, Head(rx))
  BY <1>3 DEF ReadRbr
<1>5. Link'
  <2>1. /\ Head(rx) \in 0 .. MaxArrivals
        /\ rx' \in Seq(1 .. MaxArrivals) /\ Len(rx') <= DEPTH
    BY <1>3, <1>4, TakeFromReceiver, UartAssumption DEF IInv
  <2>2. delivered' \in Seq(0 .. MaxArrivals)
    BY <1>4, <2>1 DEF IInv, Link
  <2> QED
    BY <1>1, <2>1, <2>2 DEF IInv, Link
<1>6. CallInProgress' /\ AnswersAreTrue' /\ pc' \in {"read_LSR_for_RBR", "idle"}
  BY <1>1, <1>2, AdvanceInv
  DEF ReadRbr, Steps, ReceiveSteps, TransmitSteps, DebugSteps
<1>7. call' \in Calls /\ call'.op = "receive"
  BY <1>2, AdvanceFields DEF ReadRbr
<1>8. Handed' /\ ChecksStayTrue' /\ AcceptedIsPrefix'
  BY <1>1, <1>6, <1>7
  DEF IInv, Handed, ChecksStayTrue, AcceptedIsPrefix, Steps, ReceiveSteps, TransmitSteps
<1> QED
  BY <1>5, <1>6, <1>8 DEF IInv

\* What storing c leaves in the transmitter; an empty one takes c.
LEMMA StoreFields ==
    ASSUME Link, NEW c \in 1 .. MaxIssued, Store(c)
    PROVE  tx' \in Seq(1 .. MaxIssued) /\ Len(tx') <= DEPTH
<1>1. tx \in Seq(1 .. MaxIssued) /\ Len(tx) \in Nat /\ Len(tx) <= DEPTH /\ DEPTH \in Nat \ {0}
  BY UartAssumption DEF Link
<1>2. CASE Len(tx) < DEPTH /\ tx' = Append(tx, c)
  <2>1. tx' \in Seq(1 .. MaxIssued) /\ Len(tx') = Len(tx) + 1
    BY <1>1, <1>2
  <2> QED
    BY <1>1, <1>2, <2>1
<1>3. CASE Len(tx) = DEPTH /\ tx' = Append(Tail(tx), c)
  <2>1. tx # <<>>
    BY <1>1, <1>3
  <2>2. Tail(tx) \in Seq(1 .. MaxIssued) /\ Len(Tail(tx)) = Len(tx) - 1
    BY <1>1, <2>1, HeadTailProperties
  <2>3. tx' \in Seq(1 .. MaxIssued) /\ Len(tx') = Len(Tail(tx)) + 1
    BY <1>3, <2>2
  <2> QED
    BY <1>1, <2>2, <2>3
<1>4. CASE UNCHANGED tx
  BY <1>1, <1>4
<1> QED
  BY <1>2, <1>3, <1>4 DEF Store

\* transmit stores the next character of the data in an empty THR.
LEMMA WriteThrInv == IInv /\ WriteThr => IInv'
<1> SUFFICES ASSUME IInv, WriteThr PROVE IInv'
  OBVIOUS
<1> DEFINE c == call.base + call.done + 1
<1>1. /\ UNCHANGED <<rx, wire, arrived, issued, delivered>> /\ pc = "write_THR"
      /\ accepted' = accepted \cup {c} /\ Store(c)
  BY DEF WriteThr
<1>2. /\ call \in Calls /\ call.op \in Sent /\ call.done < call.size
      /\ call.base + call.size <= issued /\ issued \in Nat /\ issued <= MaxIssued
  BY <1>1, UartAssumption DEF IInv, Handed, CallInProgress, TransmitSteps, Sent
<1>3. call.base \in Nat /\ call.size \in Nat /\ call.done \in Nat
  BY <1>2, CallFields
<1>4. c \in 1 .. issued /\ c \in 1 .. MaxIssued
  BY <1>2, <1>3, UartAssumption
<1>5. Link'
  BY <1>1, <1>4, StoreFields DEF IInv, Link
<1>6. CallInProgress' /\ AnswersAreTrue' /\ pc' \in {"read_LSR_for_THR", "idle"}
  BY <1>1, <1>2, AdvanceInv
  DEF WriteThr, Steps, ReceiveSteps, TransmitSteps, DebugSteps
<1>7. /\ call' \in Calls /\ call'.op = call.op /\ call'.size = call.size
      /\ call'.base = call.base /\ call'.done = call.done + 1
  BY <1>2, AdvanceFields DEF WriteThr
<1>8. Handed'
  <2>1. accepted' \subseteq 1 .. issued'
    BY <1>1, <1>4 DEF IInv, Handed
  <2> QED
    BY <1>1, <1>6, <1>7, <2>1 DEF IInv, Handed, Steps, TransmitSteps
<1>9. ChecksStayTrue'
  BY <1>6 DEF ChecksStayTrue
<1>10. AcceptedIsPrefix'
  <2>1. accepted \cap (call.base + 1 .. call.base + call.size)
          = call.base + 1 .. call.base + call.done
    BY <1>2 DEF IInv, AcceptedIsPrefix, Sent
  <2>2. c \in call.base + 1 .. call.base + call.size
    BY <1>2, <1>3
  <2>3. call.base + 1 .. call.base + (call.done + 1)
          = (call.base + 1 .. call.base + call.done) \cup {c}
    BY <1>3
  <2>4. accepted' \cap (call.base + 1 .. call.base + call.size)
          = call.base + 1 .. call.base + (call.done + 1)
    BY <1>1, <2>1, <2>2, <2>3
  <2> QED
    BY <1>7, <2>4 DEF AcceptedIsPrefix
<1> QED
  BY <1>5, <1>6, <1>8, <1>9, <1>10 DEF IInv

\* dputc stores its character whether or not there is room.
LEMMA WriteThrForDputcInv == IInv /\ WriteThrForDputc => IInv'
<1> SUFFICES ASSUME IInv, WriteThrForDputc PROVE IInv'
  OBVIOUS
<1> DEFINE c == call.base + call.done + 1
<1>1. /\ UNCHANGED <<rx, wire, arrived, issued, delivered, accepted>>
      /\ pc = "write_THR_for_dputc" /\ Store(c)
  BY DEF WriteThrForDputc, ghosts
<1>2. /\ call \in Calls /\ call.op = "debug" /\ call.done < call.size
      /\ call.base + call.size <= issued /\ issued \in Nat /\ issued <= MaxIssued
  BY <1>1, UartAssumption DEF IInv, Handed, CallInProgress, DebugSteps
<1>3. call.base \in Nat /\ call.size \in Nat /\ call.done \in Nat
  BY <1>2, CallFields
<1>4. c \in 1 .. MaxIssued
  BY <1>2, <1>3, UartAssumption
<1>5. Link'
  BY <1>1, <1>4, StoreFields DEF IInv, Link
<1>6. CallInProgress' /\ AnswersAreTrue' /\ pc' \in {"read_RBR_for_dputc", "idle"}
  BY <1>1, <1>2, AdvanceInv
  DEF WriteThrForDputc, Steps, ReceiveSteps, TransmitSteps, DebugSteps
<1>7. call' \in Calls /\ call'.op = "debug"
  BY <1>2, AdvanceFields DEF WriteThrForDputc
<1>8. Handed' /\ ChecksStayTrue' /\ AcceptedIsPrefix'
  BY <1>1, <1>6, <1>7
  DEF IInv, Handed, ChecksStayTrue, AcceptedIsPrefix, Steps, DebugSteps
<1> QED
  BY <1>5, <1>6, <1>8 DEF IInv

-----------------------------------------------------------------------------
\* Every call step keeps the invariant.
LEMMA ContinueInv == IInv /\ Continue => IInv'
<1> SUFFICES ASSUME IInv, Continue PROVE IInv'
  OBVIOUS
<1>1. ReadRbrForThr \/ ReadRbrForDputc => IInv'
  BY DiscardInv DEF ReadRbrForThr, ReadRbrForDputc
<1> QED
  BY <1>1, ReadLsrForRbrInv, ReadRbrInv, ReadLsrForThrInv, WriteThrInv,
     WriteThrForDputcInv DEF Continue

\* Every call starts as BeginInv says.
LEMMA StartInv == IInv /\ Start => IInv'
<1> SUFFICES ASSUME IInv, Start PROVE IInv'
  OBVIOUS
<1> USE DEF Sent, Ops, Steps, ReceiveSteps, TransmitSteps, DebugSteps
<1>1. ASSUME NEW n \in 0 .. MaxSize, NEW null \in BOOLEAN, Receive(n, null)
      PROVE  IInv'
  BY <1>1, BeginInv DEF Receive
<1>2. ASSUME NEW n \in 0 .. MaxSize, NEW null \in BOOLEAN, TransmitBuffer(n, null)
      PROVE  IInv'
  BY <1>2, BeginInv DEF TransmitBuffer
<1>3. ASSUME Put PROVE IInv'
  <2>1. 1 \in 0 .. MaxSize
    BY UartAssumption
  <2> QED
    BY <1>3, <2>1, BeginInv DEF Put
<1>4. ASSUME NEW n \in 0 .. MaxSize, Debug(n) PROVE IInv'
  BY <1>4, BeginInv DEF Debug
<1> QED
  BY <1>1, <1>2, <1>3, <1>4 DEF Start

\* IInv is inductive.
LEMMA NextInv == IInv /\ [Next]_vars => IInv'
<1>1. IInv /\ UNCHANGED vars => IInv'
  BY DEF vars, hardware, ghosts, IInv, Link, Handed, CallInProgress,
         ChecksStayTrue, AcceptedIsPrefix, AnswersAreTrue
<1> QED
  BY <1>1, StartInv, ContinueInv, ArriveInv, ShiftInv DEF Next

\* IInv is an invariant of the driver and its UART.
THEOREM Invariance == Spec => []IInv
  BY InitInv, NextInv, PTL DEF Spec

\* What try_receive and transmit saw in LSR still holds at the access to RBR
\* or THR it guards, although the UART runs between the two.
THEOREM LooksStayTrue == Spec => []ChecksStayTrue
<1>1. IInv => ChecksStayTrue
  BY DEF IInv
<1> QED
  BY <1>1, Invariance, PTL

\* The characters of which transmit told transmit_buffer or the console that
\* they are sent are a prefix of the data: no hole, nothing twice.
THEOREM PrefixAccepted == Spec => []AcceptedIsPrefix
<1>1. IInv => AcceptedIsPrefix
  BY DEF IInv
<1> QED
  BY <1>1, Invariance, PTL

\* receive_buffer returns the number of characters it stored and put whether
\* it sent its character; transmit_buffer returns 0 or size.
THEOREM AnswersTrue == Spec => []AnswersAreTrue
<1>1. IInv => AnswersAreTrue
  BY DEF IInv
<1> QED
  BY <1>1, Invariance, PTL

-----------------------------------------------------------------------------
\* An empty transmitter, which transmit stores into, has nothing to lose.
LEMMA StoreIntoEmptyLosesNothing ==
    ASSUME tx = <<>>, NEW c \in Elements(tx) PROVE FALSE
  BY DEF Elements

\* A shift sends the one character it removes from the transmitter.
LEMMA ShiftTakesHead ==
    ASSUME IInv, Shift, NEW c \in Elements(tx), c \notin Elements(tx')
    PROVE  wire' = Append(wire, c)
<1>1. tx \in Seq(1 .. MaxIssued) /\ tx # <<>> /\ tx' = Tail(tx)
  BY DEF IInv, Link, Shift
<1>2. PICK i \in 1 .. Len(tx) : c = tx[i]
  BY <1>1 DEF Elements
<1>3. Len(tx') = Len(tx) - 1 /\ \A j \in 1 .. Len(tx') : tx'[j] = tx[j + 1]
  BY <1>1, HeadTailProperties
<1>4. tx' \in Seq(1 .. MaxIssued) /\ Len(tx) \in Nat
  BY <1>1, HeadTailProperties
<1>5. i = 1
  <2> SUFFICES ASSUME i # 1 PROVE FALSE
    OBVIOUS
  <2>1. i - 1 \in 1 .. Len(tx') /\ (i - 1) + 1 = i
    BY <1>3, <1>4
  <2>2. tx'[i - 1] = c /\ i - 1 \in DOMAIN tx'
    BY <1>2, <1>3, <1>4, <2>1
  <2> QED
    BY <2>2 DEF Elements
<1> QED
  BY <1>1, <1>2, <1>5 DEF Shift

\* A character transmit answered true for leaves the UART onto the wire,
\* unless dputc, which does not look at LSR, pushes it out.
THEOREM AcceptedStays == Spec => AcceptedReachesWire
<1> DEFINE Kept == \A c \in accepted \cap Elements(tx) :
                     c \notin Elements(tx') =>
                         \/ wire' = Append(wire, c)
                         \/ pc = "write_THR_for_dputc"
<1>1. IInv /\ [Next]_vars => Kept
  <2> SUFFICES ASSUME IInv, [Next]_vars,
                      NEW c \in accepted \cap Elements(tx), c \notin Elements(tx')
               PROVE  wire' = Append(wire, c) \/ pc = "write_THR_for_dputc"
    OBVIOUS
  <2>1. tx' # tx
    BY DEF Elements
  <2>2. CASE Shift
    BY <2>2, ShiftTakesHead
  <2>3. CASE WriteThr
    <3>1. tx = <<>>
      BY <2>3 DEF IInv, ChecksStayTrue, WriteThr
    <3> QED
      BY <3>1, StoreIntoEmptyLosesNothing
  <2>4. CASE WriteThrForDputc
    BY <2>4 DEF WriteThrForDputc
  <2>5. ASSUME Continue, ~WriteThr, ~WriteThrForDputc PROVE FALSE
    BY <2>1, <2>5
    DEF Continue, ReadLsrForRbr, ReadRbr, ReadLsrForThr, ReadRbrForThr,
        ReadRbrForDputc, DiscardInput, hardware
  <2>6. ASSUME Start \/ Arrive \/ UNCHANGED vars PROVE FALSE
    BY <2>1, <2>6
    DEF Start, Receive, TransmitBuffer, Put, Debug, Begin, Arrive, vars, hardware
  <2> QED
    BY <2>2, <2>3, <2>4, <2>5, <2>6 DEF Next
<1>2. Kept => [Kept]_vars
  OBVIOUS
<1> QED
  BY <1>1, <1>2, Invariance, PTL DEF Spec, AcceptedReachesWire
-----------------------------------------------------------------------------
(***************************************************************************)
(* Sequences that gain an element at the end and lose one anywhere.  The   *)
(* element in position k is lost by Drop, the operator of the link.        *)
(***************************************************************************)

\* Moving the head of what follows to the end of what precedes changes nothing.
LEMMA HeadMoves ==
    ASSUME NEW S, NEW d \in Seq(S), NEW r \in Seq(S), r # <<>>
    PROVE  Append(d, Head(r)) \o Tail(r) = d \o r
<1>1. /\ Head(r) \in S /\ Tail(r) \in Seq(S) /\ Len(Tail(r)) = Len(r) - 1
      /\ \A i \in 1 .. Len(Tail(r)) : Tail(r)[i] = r[i + 1]
  BY HeadTailProperties
<1>2. Head(r) = r[1] /\ Len(r) \in Nat /\ Len(d) \in Nat /\ Len(r) >= 1
  BY EmptySeq
<1>3. /\ Append(d, Head(r)) \in Seq(S) /\ Len(Append(d, Head(r))) = Len(d) + 1
      /\ \A i \in 1 .. Len(d) : Append(d, Head(r))[i] = d[i]
      /\ Append(d, Head(r))[Len(d) + 1] = Head(r)
  BY <1>1, AppendProperties
<1> DEFINE a == Append(d, Head(r))
           t == Tail(r)
<1>4. /\ a \o t \in Seq(S) /\ Len(a \o t) = Len(a) + Len(t)
      /\ \A i \in 1 .. Len(a) + Len(t) :
            (a \o t)[i] = IF i <= Len(a) THEN a[i] ELSE t[i - Len(a)]
  BY <1>1, <1>3, ConcatProperties
<1>5. /\ d \o r \in Seq(S) /\ Len(d \o r) = Len(d) + Len(r)
      /\ \A i \in 1 .. Len(d) + Len(r) :
            (d \o r)[i] = IF i <= Len(d) THEN d[i] ELSE r[i - Len(d)]
  BY ConcatProperties
<1>6. ASSUME NEW i \in 1 .. Len(a \o t) PROVE (a \o t)[i] = (d \o r)[i]
  <2>1. i \in 1 .. Len(d) + Len(r)
    BY <1>1, <1>2, <1>3, <1>4
  <2>2. CASE i <= Len(d)
    BY <1>2, <1>3, <1>4, <1>5, <2>1, <2>2
  <2>3. CASE i = Len(d) + 1
    BY <1>2, <1>3, <1>4, <1>5, <2>1, <2>3
  <2>4. CASE i > Len(d) + 1
    <3>1. i - (Len(d) + 1) \in 1 .. Len(t) /\ (i - (Len(d) + 1)) + 1 = i - Len(d)
      BY <1>1, <1>2, <2>1, <2>4
    <3>2. (a \o t)[i] = t[i - (Len(d) + 1)]
      BY <1>2, <1>3, <1>4, <2>4
    <3>3. (d \o r)[i] = r[i - Len(d)]
      BY <1>2, <1>5, <2>1, <2>4
    <3> QED
      BY <1>1, <3>1, <3>2, <3>3
  <2> QED
    BY <1>2, <2>1, <2>2, <2>3, <2>4
<1> QED
  BY <1>1, <1>2, <1>3, <1>4, <1>5, <1>6, SeqEqual

\* What is appended to the second sequence is appended to both.
LEMMA AppendRight ==
    ASSUME NEW S, NEW d \in Seq(S), NEW r \in Seq(S), NEW m \in S
    PROVE  d \o Append(r, m) = Append(d \o r, m)
<1>1. <<m>> \in Seq(S)
  OBVIOUS
<1>2. d \o r \in Seq(S)
  BY ConcatProperties
<1>3. Append(r, m) = r \o <<m>> /\ Append(d \o r, m) = (d \o r) \o <<m>>
  BY <1>2, AppendIsConcat
<1> QED
  BY <1>1, <1>3, ConcatAssociative

\* A sequence stays increasing when a greater element is appended.
LEMMA AppendAscends ==
    ASSUME NEW s \in Seq(Nat), Increasing(s), NEW m \in Nat,
           \A i \in DOMAIN s : s[i] < m
    PROVE  /\ Increasing(Append(s, m))
           /\ Elements(Append(s, m)) = Elements(s) \cup {m}
<1> DEFINE a == Append(s, m)
<1>1. /\ a \in Seq(Nat) /\ Len(a) = Len(s) + 1 /\ Len(s) \in Nat
      /\ \A i \in 1 .. Len(s) : a[i] = s[i]
      /\ a[Len(s) + 1] = m
  BY AppendProperties
<1>2. DOMAIN a = 1 .. Len(s) + 1 /\ DOMAIN s = 1 .. Len(s)
  BY <1>1
<1>3. \A i \in 1 .. Len(s) : s[i] \in Nat
  OBVIOUS
<1> HIDE DEF a
<1>4. Increasing(a)
  BY <1>1, <1>2, <1>3 DEF Increasing
<1>5. Elements(a) = Elements(s) \cup {m}
  <2>1. 1 .. Len(s) + 1 = (1 .. Len(s)) \cup {Len(s) + 1}
    BY <1>1
  <2> QED
    BY <1>1, <1>2, <2>1 DEF Elements
<1> QED
  BY <1>4, <1>5 DEF a

\* A sequence that loses one element.
LEMMA DropFields ==
    ASSUME NEW S, NEW s \in Seq(S), NEW k \in 1 .. Len(s)
    PROVE  /\ Input!Drop(s, k) \in Seq(S) /\ Len(Input!Drop(s, k)) = Len(s) - 1
           /\ \A i \in 1 .. Len(s) - 1 :
                Input!Drop(s, k)[i] = IF i < k THEN s[i] ELSE s[i + 1]
<1>1. Len(s) \in Nat /\ Len(s) - 1 \in Nat
  OBVIOUS
<1>2. Input!Drop(s, k) \in [1 .. Len(s) - 1 -> S]
  <2>1. \A i \in 1 .. Len(s) - 1 : s[i] \in S /\ s[i + 1] \in S
    BY <1>1
  <2> QED
    BY <2>1 DEF Input!Drop
<1>3. \A n \in Nat : \A f \in [1 .. n -> S] : f \in Seq(S) /\ Len(f) = n
  OBVIOUS
<1> QED
  BY <1>1, <1>2, <1>3 DEF Input!Drop

\* It stays increasing, and the element it loses is in it no more.
LEMMA DropAscends ==
    ASSUME NEW s \in Seq(Nat), Increasing(s), NEW k \in 1 .. Len(s)
    PROVE  /\ Increasing(Input!Drop(s, k))
           /\ Elements(Input!Drop(s, k)) = Elements(s) \ {s[k]}
<1> DEFINE d == Input!Drop(s, k)
<1>1. /\ d \in Seq(Nat) /\ Len(d) = Len(s) - 1 /\ Len(s) \in Nat
      /\ \A i \in 1 .. Len(s) - 1 : d[i] = IF i < k THEN s[i] ELSE s[i + 1]
  BY DropFields
<1>2. DOMAIN d = 1 .. Len(s) - 1 /\ DOMAIN s = 1 .. Len(s)
  BY <1>1
<1>3. \A i \in 1 .. Len(s) : s[i] \in Nat
  OBVIOUS
<1>4. \A i, j \in 1 .. Len(s) : i < j => s[i] < s[j]
  BY <1>2 DEF Increasing
<1> HIDE DEF d
<1>5. Increasing(d)
  <2> SUFFICES ASSUME NEW i \in 1 .. Len(s) - 1, NEW j \in 1 .. Len(s) - 1, i < j
               PROVE  d[i] < d[j]
    BY <1>2 DEF Increasing
  <2>1. i + 1 \in 1 .. Len(s) /\ j + 1 \in 1 .. Len(s) /\ i \in 1 .. Len(s) /\ j \in 1 .. Len(s)
    BY <1>1
  <2>2. s[i] < s[j] /\ s[i] < s[j + 1] /\ s[i + 1] < s[j + 1]
    BY <1>1, <1>4, <2>1
  <2>3. i < k \/ ~(j < k)
    OBVIOUS
  <2>4. d[i] \in {s[i], s[i + 1]} /\ d[j] = IF j < k THEN s[j] ELSE s[j + 1]
    BY <1>1
  <2>5. i < k => d[i] = s[i]
    BY <1>1
  <2> QED
    BY <2>2, <2>3, <2>4, <2>5
<1>6. Elements(d) = Elements(s) \ {s[k]}
  <2>1. ASSUME NEW i \in 1 .. Len(s) - 1 PROVE d[i] \in Elements(s) \ {s[k]}
    <3>1. i \in 1 .. Len(s) /\ i + 1 \in 1 .. Len(s)
      BY <1>1
    <3>2. CASE i < k
      <4>1. d[i] = s[i] /\ s[i] < s[k]
        BY <1>1, <1>4, <3>1, <3>2
      <4>2. s[i] # s[k]
        BY <1>3, <3>1, <4>1
      <4> QED
        BY <1>2, <3>1, <4>1, <4>2 DEF Elements
    <3>3. CASE k < i + 1
      <4>1. d[i] = s[i + 1] /\ s[k] < s[i + 1]
        BY <1>1, <1>4, <3>1, <3>3
      <4>2. s[i + 1] # s[k]
        BY <1>3, <3>1, <4>1
      <4> QED
        BY <1>2, <3>1, <4>1, <4>2 DEF Elements
    <3> QED
      BY <3>2, <3>3
  <2>2. ASSUME NEW i \in 1 .. Len(s), s[i] # s[k] PROVE s[i] \in Elements(d)
    <3>1. CASE i < k
      <4>1. i \in 1 .. Len(s) - 1 /\ d[i] = s[i]
        BY <1>1, <3>1
      <4> QED
        BY <1>2, <4>1 DEF Elements
    <3>2. CASE i > k
      <4>1. i - 1 \in 1 .. Len(s) - 1 /\ d[i - 1] = s[i]
        BY <1>1, <3>2
      <4> QED
        BY <1>2, <4>1 DEF Elements
    <3> QED
      BY <2>2, <3>1, <3>2
  <2> QED
    BY <1>2, <2>1, <2>2 DEF Elements
<1> QED
  BY <1>5, <1>6 DEF d

\* What the second sequence loses, both lose.
LEMMA DropRight ==
    ASSUME NEW S, NEW d \in Seq(S), NEW r \in Seq(S), NEW k \in 1 .. Len(r)
    PROVE  /\ Len(d) + k \in 1 .. Len(d \o r) /\ (d \o r)[Len(d) + k] = r[k]
           /\ d \o Input!Drop(r, k) = Input!Drop(d \o r, Len(d) + k)
<1> DEFINE x == Input!Drop(r, k)
           y == Input!Drop(d \o r, Len(d) + k)
<1>1. /\ x \in Seq(S) /\ Len(x) = Len(r) - 1
      /\ \A i \in 1 .. Len(r) - 1 : x[i] = IF i < k THEN r[i] ELSE r[i + 1]
  BY DropFields
<1>2. /\ d \o r \in Seq(S) /\ Len(d \o r) = Len(d) + Len(r)
      /\ \A i \in 1 .. Len(d) + Len(r) :
            (d \o r)[i] = IF i <= Len(d) THEN d[i] ELSE r[i - Len(d)]
  BY ConcatProperties
<1>3. Len(d) \in Nat /\ Len(r) \in Nat
  OBVIOUS
<1>4. Len(d) + k \in 1 .. Len(d \o r) /\ (d \o r)[Len(d) + k] = r[k]
  BY <1>2, <1>3
<1>5. /\ y \in Seq(S) /\ Len(y) = Len(d) + Len(r) - 1
      /\ \A i \in 1 .. Len(d) + Len(r) - 1 :
            y[i] = IF i < Len(d) + k THEN (d \o r)[i] ELSE (d \o r)[i + 1]
  <2> DEFINE b == d \o r
  <2>1. b \in Seq(S) /\ Len(b) - 1 = Len(d) + Len(r) - 1 /\ Len(d) + k \in 1 .. Len(b)
    BY <1>2, <1>3, <1>4
  <2> HIDE DEF b
  <2>2. /\ Input!Drop(b, Len(d) + k) \in Seq(S)
        /\ Len(Input!Drop(b, Len(d) + k)) = Len(b) - 1
        /\ \A i \in 1 .. Len(b) - 1 :
              Input!Drop(b, Len(d) + k)[i] = IF i < Len(d) + k THEN b[i] ELSE b[i + 1]
    BY <2>1, DropFields
  <2> QED
    BY <2>1, <2>2 DEF b
<1> HIDE DEF x, y
<1>6. /\ d \o x \in Seq(S) /\ Len(d \o x) = Len(d) + Len(x)
      /\ \A i \in 1 .. Len(d) + Len(x) :
            (d \o x)[i] = IF i <= Len(d) THEN d[i] ELSE x[i - Len(d)]
  BY <1>1, ConcatProperties
<1>7. ASSUME NEW i \in 1 .. Len(d \o x) PROVE (d \o x)[i] = y[i]
  <2>1. i \in 1 .. Len(d) + Len(r) - 1 /\ i \in 1 .. Len(d) + Len(r)
        /\ i + 1 \in 1 .. Len(d) + Len(r)
    BY <1>1, <1>3, <1>6
  <2>2. CASE i <= Len(d)
    BY <1>1, <1>2, <1>3, <1>5, <1>6, <2>1, <2>2
  <2>3. CASE i > Len(d)
    <3>1. (d \o x)[i] = x[i - Len(d)] /\ i - Len(d) \in 1 .. Len(r) - 1
      BY <1>1, <1>3, <1>6, <2>1, <2>3
    <3>2. (d \o r)[i] = r[i - Len(d)]
      BY <1>2, <1>3, <2>1, <2>3
    <3>3. (d \o r)[i + 1] = r[(i - Len(d)) + 1]
      BY <1>2, <1>3, <2>1, <2>3
    <3>4. y[i] = IF i < Len(d) + k THEN r[i - Len(d)] ELSE r[(i - Len(d)) + 1]
      BY <1>5, <2>1, <3>2, <3>3
    <3>5. x[i - Len(d)] = IF i - Len(d) < k THEN r[i - Len(d)] ELSE r[(i - Len(d)) + 1]
      BY <1>1, <3>1
    <3>6. i - Len(d) < k <=> i < Len(d) + k
      BY <1>3
    <3> QED
      BY <3>1, <3>4, <3>5, <3>6
  <2> QED
    BY <1>3, <2>1, <2>2, <2>3
<1>8. Len(d \o x) = Len(y)
  BY <1>1, <1>3, <1>5, <1>6
<1>9. d \o x = y
  BY <1>5, <1>6, <1>7, <1>8, SeqEqual
<1> QED
  BY <1>4, <1>9 DEF x, y

\* A tail loses the first element; a sequence loses what was just appended, or
\* the one before it, which the new one takes the place of.
LEMMA TailDrops ==
    ASSUME NEW S, NEW s \in Seq(S), s # <<>>
    PROVE  1 \in 1 .. Len(s) /\ Tail(s) = Input!Drop(s, 1)
<1>1. Len(s) \in Nat \ {0}
  BY EmptySeq
<1>2. 1 \in 1 .. Len(s)
  BY <1>1
<1>3. /\ Tail(s) \in Seq(S) /\ Len(Tail(s)) = Len(s) - 1
      /\ \A i \in 1 .. Len(Tail(s)) : Tail(s)[i] = s[i + 1]
  BY HeadTailProperties
<1>4. /\ Input!Drop(s, 1) \in Seq(S) /\ Len(Input!Drop(s, 1)) = Len(s) - 1
      /\ \A i \in 1 .. Len(s) - 1 : Input!Drop(s, 1)[i] = s[i + 1]
  BY <1>1, <1>2, DropFields
<1> QED
  BY <1>2, <1>3, <1>4, SeqEqual

LEMMA AppendDrops ==
    ASSUME NEW S, NEW s \in Seq(S), NEW m \in S
    PROVE  /\ Len(s) + 1 \in 1 .. Len(Append(s, m))
           /\ Input!Drop(Append(s, m), Len(s) + 1) = s
           /\ s # <<>> =>
                /\ Len(s) \in 1 .. Len(Append(s, m))
                /\ Input!Drop(Append(s, m), Len(s)) = [s EXCEPT ![Len(s)] = m]
                /\ Input!Drop(Append(s, m), 1) = Append(Tail(s), m)
<1> DEFINE a == Append(s, m)
<1>1. /\ a \in Seq(S) /\ Len(a) = Len(s) + 1 /\ Len(s) \in Nat
      /\ \A i \in 1 .. Len(s) : a[i] = s[i]
      /\ a[Len(s) + 1] = m
  BY AppendProperties
<1> HIDE DEF a
<1>2. ASSUME NEW k \in 1 .. Len(s) + 1
      PROVE  /\ Input!Drop(a, k) \in Seq(S) /\ Len(Input!Drop(a, k)) = Len(s)
             /\ \A i \in 1 .. Len(s) : Input!Drop(a, k)[i] = IF i < k THEN a[i] ELSE a[i + 1]
  <2>1. k \in 1 .. Len(a) /\ Len(a) - 1 = Len(s)
    BY <1>1
  <2> QED
    BY <1>1, <2>1, DropFields
<1>3. Len(s) + 1 \in 1 .. Len(a)
  BY <1>1
<1>4. Input!Drop(a, Len(s) + 1) = s
  <2>1. Len(s) + 1 \in 1 .. Len(s) + 1
    BY <1>1
  <2>2. \A i \in 1 .. Len(s) : Input!Drop(a, Len(s) + 1)[i] = s[i]
    BY <1>1, <1>2, <2>1
  <2> QED
    BY <1>1, <1>2, <2>1, <2>2, SeqEqual
<1>5. ASSUME s # <<>>
      PROVE  /\ Len(s) \in 1 .. Len(a)
             /\ Input!Drop(a, Len(s)) = [s EXCEPT ![Len(s)] = m]
             /\ Input!Drop(a, 1) = Append(Tail(s), m)
  <2>1. Len(s) >= 1 /\ Len(s) \in 1 .. Len(s) + 1 /\ Len(s) \in 1 .. Len(s)
        /\ 1 \in 1 .. Len(s) + 1
    BY <1>1, <1>5, EmptySeq
  <2> DEFINE e == [s EXCEPT ![Len(s)] = m]
             b == Append(Tail(s), m)
  <2>2. /\ e \in Seq(S) /\ Len(e) = Len(s)
        /\ \A j \in 1 .. Len(s) : e[j] = IF j = Len(s) THEN m ELSE s[j]
    BY <2>1, ExceptSeq
  <2>3. /\ Tail(s) \in Seq(S) /\ Len(Tail(s)) = Len(s) - 1
        /\ \A i \in 1 .. Len(Tail(s)) : Tail(s)[i] = s[i + 1]
    BY <1>5, HeadTailProperties
  <2>4. /\ b \in Seq(S) /\ Len(b) = Len(Tail(s)) + 1
        /\ \A i \in 1 .. Len(Tail(s)) : b[i] = Tail(s)[i]
        /\ b[Len(Tail(s)) + 1] = m
    BY <2>3, AppendProperties
  <2> HIDE DEF e, b
  <2>5. Input!Drop(a, Len(s)) = e
    <3>1. \A i \in 1 .. Len(s) : Input!Drop(a, Len(s))[i] = e[i]
      BY <1>1, <1>2, <2>1, <2>2
    <3> QED
      BY <1>2, <2>1, <2>2, <3>1, SeqEqual
  <2>6. Input!Drop(a, 1) = b
    <3>1. \A i \in 1 .. Len(s) : Input!Drop(a, 1)[i] = a[i + 1]
      BY <1>1, <1>2, <2>1
    <3>2. ASSUME NEW i \in 1 .. Len(s) PROVE a[i + 1] = b[i]
      <4>1. CASE i = Len(s)
        BY <1>1, <2>1, <2>3, <2>4, <4>1
      <4>2. CASE i < Len(s)
        <5>1. i \in 1 .. Len(Tail(s)) /\ i + 1 \in 1 .. Len(s)
          BY <1>1, <2>3, <4>2
        <5> QED
          BY <1>1, <2>3, <2>4, <5>1
      <4> QED
        BY <1>1, <4>1, <4>2
    <3>3. Len(b) = Len(s)
      BY <1>1, <2>3, <2>4
    <3> QED
      BY <1>2, <2>1, <2>4, <3>1, <3>2, <3>3, SeqEqual
  <2> QED
    BY <1>1, <2>1, <2>5, <2>6 DEF e, b
<1> QED
  BY <1>3, <1>4, <1>5 DEF a

-----------------------------------------------------------------------------
(***************************************************************************)
(* Input.  What the driver delivered and what the receiver holds, one      *)
(* after the other, is the input that was kept: a step moves an element    *)
(* from the one to the other, adds one at the end, or drops one.           *)
(***************************************************************************)
Kept == delivered \o rx

Delivers ==
    /\ rx # <<>> /\ rx' = Tail(rx) /\ delivered' = Append(delivered, Head(rx))
    /\ arrived' = arrived /\ overrun' = overrun /\ discarded' = discarded

ThrowsAway ==
    /\ rx # <<>> /\ rx' = Tail(rx) /\ discarded' = discarded \cup {Head(rx)}
    /\ arrived' = arrived /\ overrun' = overrun /\ delivered' = delivered

LeavesInput ==
    /\ rx' = rx /\ delivered' = delivered
    /\ arrived' = arrived /\ overrun' = overrun /\ discarded' = discarded

\* The step of the input that a step of the driver or its UART is.
LEMMA InputSteps ==
    ASSUME IInv, [Next]_vars
    PROVE  Arrive \/ Delivers \/ ThrowsAway \/ LeavesInput
<1>1. CASE ReadRbr
  BY <1>1 DEF IInv, ChecksStayTrue, ReadRbr, Delivers
<1>2. CASE ReadRbrForThr \/ ReadRbrForDputc
  BY <1>2 DEF ReadRbrForThr, ReadRbrForDputc, DiscardInput, ThrowsAway, LeavesInput
<1>3. CASE ReadLsrForRbr \/ ReadLsrForThr \/ WriteThr \/ WriteThrForDputc
  BY <1>3 DEF ReadLsrForRbr, ReadLsrForThr, WriteThr, WriteThrForDputc,
              LeavesInput, hardware, ghosts
<1>4. CASE Start
  BY <1>4 DEF Start, Receive, TransmitBuffer, Put, Debug, Begin, LeavesInput, hardware
<1>5. CASE Shift \/ UNCHANGED vars
  BY <1>5 DEF Shift, LeavesInput, vars, hardware, ghosts
<1> QED
  BY <1>1, <1>2, <1>3, <1>4, <1>5 DEF Next, Continue

\* The input that was kept is made of arrivals.
LEMMA KeptFields ==
    ASSUME Link, InputAccountedFor
    PROVE  /\ rx \in Seq(Nat) /\ delivered \in Seq(Nat) /\ Kept \in Seq(Nat)
           /\ arrived \in Nat
           /\ \A i \in DOMAIN Kept : Kept[i] < arrived + 1
<1>1. rx \in Seq(Nat)
  BY SeqMonotonic, UartAssumption DEF Link
<1>2. delivered \in Seq(Nat)
  BY SeqMonotonic, UartAssumption DEF Link
<1>3. Kept \in Seq(Nat)
  BY <1>1, <1>2, ConcatProperties DEF Kept
<1>4. arrived \in Nat
  BY UartAssumption DEF Link
<1>5. \A i \in DOMAIN Kept : Kept[i] \in 1 .. arrived
  BY DEF InputAccountedFor, Kept, Elements
<1> QED
  BY <1>1, <1>2, <1>3, <1>4, <1>5

\* An arrival is kept, or is lost, or takes the place of the last one kept.
LEMMA ArriveKept ==
    ASSUME Link, InputAccountedFor, Arrive, NEW m, m = arrived + 1
    PROVE  /\ m \in Nat /\ arrived' = m /\ delivered' = delivered
           /\ discarded' = discarded
           /\ \/ /\ rx' = Append(rx, m)
                 /\ Kept' = Append(Kept, m) /\ overrun' = overrun
              \/ /\ rx' = rx /\ Kept' = Kept /\ overrun' = overrun \cup {m}
              \/ /\ rx # <<>> /\ rx' = [rx EXCEPT ![Len(rx)] = m]
                 /\ Kept # <<>> /\ Len(Kept) \in 1 .. Len(Append(Kept, m))
                 /\ Kept' = Input!Drop(Append(Kept, m), Len(Kept))
                 /\ overrun' = overrun \cup {Kept[Len(Kept)]}
<1>1. /\ rx \in Seq(Nat) /\ delivered \in Seq(Nat) /\ Kept \in Seq(Nat)
      /\ m \in Nat /\ arrived' = m
  BY KeptFields DEF Arrive
<1>2. delivered' = delivered /\ discarded' = discarded
  BY DEF Arrive, ghosts
<1>3. CASE rx' = Append(rx, m) /\ overrun' = overrun
  BY <1>1, <1>2, <1>3, AppendRight DEF Kept
<1>4. CASE rx' = rx /\ overrun' = overrun \cup {m}
  BY <1>1, <1>2, <1>4 DEF Kept
<1>5. CASE /\ Len(rx) = DEPTH /\ rx' = [rx EXCEPT ![DEPTH] = m]
           /\ overrun' = overrun \cup {rx[DEPTH]}
  <2>1. rx # <<>> /\ Len(rx) \in 1 .. Len(rx)
    BY <1>1, <1>5, UartAssumption
  <2> DEFINE a == Append(rx, m)
  <2>2. /\ a \in Seq(Nat) /\ Len(rx) \in 1 .. Len(a)
        /\ rx' = Input!Drop(a, Len(rx))
    <3>1. a \in Seq(Nat)
      BY <1>1, AppendProperties
    <3>2. /\ Len(rx) \in 1 .. Len(a)
          /\ Input!Drop(a, Len(rx)) = [rx EXCEPT ![Len(rx)] = m]
      BY <1>1, <2>1, AppendDrops
    <3> QED
      BY <1>5, <3>1, <3>2
  <2>3. delivered \o a = Append(Kept, m)
    BY <1>1, AppendRight DEF Kept
  <2> HIDE DEF a
  <2>4. /\ Len(delivered) + Len(rx) \in 1 .. Len(delivered \o a)
        /\ delivered \o Input!Drop(a, Len(rx))
             = Input!Drop(delivered \o a, Len(delivered) + Len(rx))
    BY <1>1, <2>2, DropRight
  <2>5. Len(Kept) = Len(delivered) + Len(rx)
    BY <1>1, ConcatProperties DEF Kept
  <2>6. Kept[Len(Kept)] = rx[Len(rx)] /\ Kept # <<>>
    <3>1. /\ Len(delivered) + Len(rx) \in 1 .. Len(Kept)
          /\ Kept[Len(delivered) + Len(rx)] = rx[Len(rx)]
      BY <1>1, <2>1, DropRight DEF Kept
    <3> QED
      BY <1>1, <2>5, <3>1
  <2>7. Kept' = Input!Drop(Append(Kept, m), Len(Kept))
    BY <1>2, <2>2, <2>3, <2>4, <2>5 DEF Kept
  <2> QED
    BY <1>1, <1>2, <1>5, <2>1, <2>3, <2>4, <2>5, <2>6, <2>7
<1>6. arrived + 1 = arrived'
  BY DEF Arrive
<1> QED
  BY <1>3, <1>4, <1>5, <1>6 DEF Arrive

\* An arrival is accounted for.
LEMMA ArriveAccounted ==
    ASSUME Link, InputAccountedFor, Arrive
    PROVE  InputAccountedFor'
<1> DEFINE m == arrived + 1
           E == Elements(Kept)
<1>1. /\ Kept \in Seq(Nat) /\ arrived \in Nat /\ m \in Nat
      /\ \A i \in DOMAIN Kept : Kept[i] < m
  BY KeptFields
<1>2. /\ Increasing(Kept) /\ E \cup overrun \cup discarded = 1 .. arrived
      /\ E \cap (overrun \cup discarded) = {} /\ overrun \cap discarded = {}
  BY DEF InputAccountedFor, Kept
<1>3. /\ 1 .. m = (1 .. arrived) \cup {m} /\ m \notin 1 .. arrived
      /\ arrived' = m /\ discarded' = discarded
  BY <1>1, ArriveKept
<1>4. Increasing(Append(Kept, m)) /\ Elements(Append(Kept, m)) = E \cup {m}
  BY <1>1, <1>2, AppendAscends
<1> SUFFICES /\ Increasing(Kept')
             /\ Elements(Kept') \cup overrun' \cup discarded' = 1 .. m
             /\ Elements(Kept') \cap (overrun' \cup discarded') = {}
             /\ overrun' \cap discarded' = {}
  BY <1>3 DEF InputAccountedFor, Kept, Increasing, Elements
<1> HIDE DEF m, E
<1>5. CASE Kept' = Append(Kept, m) /\ overrun' = overrun
  BY <1>2, <1>3, <1>4, <1>5
<1>6. CASE Kept' = Kept /\ overrun' = overrun \cup {m}
  BY <1>2, <1>3, <1>6 DEF E
<1>7. CASE /\ Kept # <<>> /\ Len(Kept) \in 1 .. Len(Append(Kept, m))
           /\ Kept' = Input!Drop(Append(Kept, m), Len(Kept))
           /\ overrun' = overrun \cup {Kept[Len(Kept)]}
  <2>1. /\ Append(Kept, m) \in Seq(Nat)
        /\ Len(Kept) \in 1 .. Len(Kept) /\ Append(Kept, m)[Len(Kept)] = Kept[Len(Kept)]
    BY <1>1, <1>7, EmptySeq, AppendProperties
  <2>2. /\ Increasing(Kept')
        /\ Elements(Kept') = (E \cup {m}) \ {Kept[Len(Kept)]}
    BY <1>4, <1>7, <2>1, DropAscends
  <2>3. Kept[Len(Kept)] \in E
    BY <1>1, <2>1 DEF E, Elements
  <2> QED
    BY <1>2, <1>3, <1>7, <2>2, <2>3
<1> QED
  BY <1>5, <1>6, <1>7, ArriveKept DEF m

\* What the driver takes out of the receiver is accounted for.
LEMMA TakenAccounted ==
    ASSUME Link, InputAccountedFor, Delivers \/ ThrowsAway
    PROVE  InputAccountedFor'
<1> DEFINE E == Elements(Kept)
<1>1. rx \in Seq(Nat) /\ delivered \in Seq(Nat) /\ Kept \in Seq(Nat) /\ rx # <<>>
  BY KeptFields DEF Delivers, ThrowsAway
<1>2. /\ Increasing(Kept) /\ E \cup overrun \cup discarded = 1 .. arrived
      /\ E \cap (overrun \cup discarded) = {} /\ overrun \cap discarded = {}
  BY DEF InputAccountedFor, Kept
<1> SUFFICES /\ Increasing(Kept')
             /\ Elements(Kept') \cup overrun' \cup discarded' = 1 .. arrived'
             /\ Elements(Kept') \cap (overrun' \cup discarded') = {}
             /\ overrun' \cap discarded' = {}
  BY DEF InputAccountedFor, Kept, Increasing, Elements
<1> HIDE DEF E
<1>3. CASE Delivers
  <2>1. Kept' = Kept
    BY <1>1, <1>3, HeadMoves DEF Kept, Delivers
  <2> QED
    BY <1>2, <1>3, <2>1 DEF Delivers, E
<1>4. CASE ThrowsAway
  <2> DEFINE k == Len(delivered) + 1
  <2>1. 1 \in 1 .. Len(rx) /\ Tail(rx) = Input!Drop(rx, 1)
    BY <1>1, TailDrops
  <2>2. k \in 1 .. Len(Kept) /\ Kept[k] = rx[1] /\ Kept' = Input!Drop(Kept, k)
    <3>1. /\ Len(delivered) + 1 \in 1 .. Len(delivered \o rx)
          /\ (delivered \o rx)[Len(delivered) + 1] = rx[1]
          /\ delivered \o Input!Drop(rx, 1) = Input!Drop(delivered \o rx, Len(delivered) + 1)
      BY <1>1, <2>1, DropRight
    <3>2. Kept' = delivered \o Input!Drop(rx, 1)
      BY <1>4, <2>1 DEF Kept, ThrowsAway
    <3> QED
      BY <3>1, <3>2 DEF Kept
  <2> HIDE DEF k
  <2>3. Increasing(Kept') /\ Elements(Kept') = E \ {Kept[k]}
    BY <1>1, <1>2, <2>2, DropAscends DEF E
  <2>4. Kept[k] \in E /\ Head(rx) = Kept[k]
    BY <1>1, <2>2 DEF E, Elements
  <2> QED
    BY <1>2, <1>4, <2>3, <2>4 DEF ThrowsAway
<1> QED
  BY <1>3, <1>4

\* Every step accounts for the input.
LEMMA InputAccountedNext ==
    IInv /\ InputAccountedFor /\ [Next]_vars => InputAccountedFor'
<1> SUFFICES ASSUME IInv, InputAccountedFor, [Next]_vars
             PROVE  InputAccountedFor'
  OBVIOUS
<1>1. CASE LeavesInput
  BY <1>1 DEF InputAccountedFor, LeavesInput
<1> QED
  BY <1>1, InputSteps, ArriveAccounted, TakenAccounted DEF IInv

\* Of the characters that arrive, each is delivered, in the receiver, overrun
\* or thrown away by output, and only one of these; callers get what they get
\* in the order of arrival, however arrivals and register accesses interleave.
THEOREM InputAccounted == Spec => []InputAccountedFor
<1>1. Init => InputAccountedFor
  <2> SUFFICES ASSUME Init PROVE InputAccountedFor
    OBVIOUS
  <2>1. delivered \o rx = <<>>
    BY DEF Init
  <2>2. arrived = 0 /\ overrun = {} /\ discarded = {} /\ 1 .. 0 = {}
    BY DEF Init
  <2>3. Increasing(<<>>) /\ Elements(<<>>) = {}
    BY DEF Increasing, Elements
  <2> QED
    BY <2>1, <2>2, <2>3 DEF InputAccountedFor
<1> QED
  BY <1>1, InputAccountedNext, Invariance, PTL DEF Spec

\* The type invariant; that what overran or was thrown away did arrive follows
\* from the account of the input.
THEOREM TypeCorrect == Spec => []TypeOK
<1>1. IInv /\ InputAccountedFor => TypeOK
  BY DEF IInv, Link, Handed, InputAccountedFor, TypeOK
<1> QED
  BY <1>1, Invariance, InputAccounted, PTL

\* An arrival enters the link, and may cost it the newest character.
LEMMA ArriveEnters ==
    ASSUME Link, InputAccountedFor, Arrive
    PROVE  Input!Next
<1> DEFINE m == arrived + 1
           a == Append(rx, m)
<1>1. rx \in Seq(Nat) /\ m \in Nat /\ \A i \in DOMAIN Kept : Kept[i] < m
  BY KeptFields
<1>2. m \in 1 .. MaxArrivals
  BY UartAssumption DEF Link, Arrive
<1>3. \A i \in DOMAIN Input!Everything : Input!Everything[i] < m
  BY <1>1 DEF Input!Everything, Kept
<1>4. a \in Seq(Nat) /\ DOMAIN a = 1 .. Len(a)
  BY <1>1, AppendProperties
<1>5. /\ Len(rx) + 1 \in DOMAIN a /\ Input!Drop(a, Len(rx) + 1) = rx
      /\ rx # <<>> => /\ Len(rx) \in DOMAIN a
                      /\ Input!Drop(a, Len(rx)) = [rx EXCEPT ![Len(rx)] = m]
  BY <1>1, <1>4, AppendDrops
<1>6. rx' = a \/ \E k \in DOMAIN a : rx' = Input!Drop(a, k)
  <2> HIDE DEF a
  <2>1. \/ rx' = a \/ rx' = rx
        \/ rx # <<>> /\ rx' = [rx EXCEPT ![Len(rx)] = m]
    BY ArriveKept DEF a
  <2> QED
    BY <1>5, <2>1
<1>7. delivered' = delivered
  BY DEF Arrive, ghosts
<1>8. Input!Enter(m)
  BY <1>3, <1>6, <1>7 DEF Input!Enter
<1> QED
  BY <1>2, <1>8 DEF Input!Next

\* The receiver and the driver's reads implement a link that may lose but
\* neither reorders, duplicates nor invents.
THEOREM InputRefinesLink == Spec => InputIsLink
<1>1. Init => Input!Init
  BY DEF Init, Input!Init, Input!Ascending
<1>2. IInv /\ InputAccountedFor /\ [Next]_vars => [Input!Next]_Input!vars
  <2> SUFFICES ASSUME IInv, InputAccountedFor, [Next]_vars
               PROVE  [Input!Next]_Input!vars
    OBVIOUS
  <2>1. CASE Arrive
    BY <2>1, ArriveEnters DEF IInv
  <2>2. CASE Delivers
    BY <2>2 DEF Delivers, Input!Receive, Input!Next
  <2>3. CASE ThrowsAway
    <3>1. rx \in Seq(1 .. MaxArrivals) /\ rx # <<>>
      BY <2>3 DEF IInv, Link, ThrowsAway
    <3>2. 1 \in DOMAIN rx /\ Tail(rx) = Input!Drop(rx, 1)
      BY <3>1, TailDrops
    <3> QED
      BY <2>3, <3>2 DEF ThrowsAway, Input!Lose, Input!Next
  <2>4. CASE LeavesInput
    BY <2>4 DEF LeavesInput, Input!vars
  <2> QED
    BY <2>1, <2>2, <2>3, <2>4, InputSteps
<1> QED
  BY <1>1, <1>2, Invariance, InputAccounted, PTL DEF Spec, InputIsLink, Input!Spec


-----------------------------------------------------------------------------
(***************************************************************************)
(* Output.  What is on the wire and what the transmitter holds, one after  *)
(* the other, is the output that was stored: in the order of the numbers,  *)
(* and all of it before the next character a call may store.               *)
(***************************************************************************)
Stored == wire \o tx

NextCharacter ==
    IF pc # "idle" /\ call.op # "receive"
    THEN call.base + call.done + 1 ELSE issued + 1

OutputInOrder ==
    /\ Increasing(Stored)
    /\ \A c \in Elements(Stored) : c < NextCharacter

Transmits ==
    /\ tx # <<>> /\ tx' = Tail(tx) /\ wire' = Append(wire, Head(tx))
    /\ NextCharacter \in Nat /\ NextCharacter' = NextCharacter

Stores ==
    /\ NextCharacter \in 1 .. MaxIssued /\ Store(NextCharacter)
    /\ wire' = wire /\ NextCharacter' \in Nat /\ NextCharacter < NextCharacter'

LeavesOutput ==
    /\ tx' = tx /\ wire' = wire
    /\ NextCharacter \in Nat /\ NextCharacter' \in Nat /\ NextCharacter <= NextCharacter'

\* Characters are numbered from 1; a call's next one was handed out before.
LEMMA NextCharacterFields ==
    ASSUME IInv
    PROVE  NextCharacter \in Nat /\ NextCharacter <= issued + 1 /\ issued \in Nat
<1>1. /\ call.op \in Ops /\ call.size \in Nat /\ call.base \in Nat /\ call.done \in Nat
      /\ issued \in Nat
  BY CallFields, UartAssumption DEF IInv, Handed
<1>2. /\ pc # "idle" => call.done < call.size
      /\ call.op # "receive" => call.base + call.size <= issued
  BY DEF IInv, CallInProgress
<1> QED
  BY <1>1, <1>2 DEF NextCharacter

\* The step of the output that a step of the driver or its UART is.
LEMMA OutputSteps ==
    ASSUME IInv, [Next]_vars
    PROVE  Transmits \/ Stores \/ LeavesOutput
<1>1. /\ NextCharacter \in Nat /\ NextCharacter <= issued + 1 /\ issued \in Nat
      /\ call \in Calls
  BY NextCharacterFields DEF IInv, Handed
<1>2. CASE Shift
  BY <1>1, <1>2 DEF Shift, ghosts, Transmits, NextCharacter
<1>3. CASE \/ Arrive \/ UNCHANGED vars
  BY <1>1, <1>3 DEF Arrive, vars, hardware, ghosts, LeavesOutput, NextCharacter
<1>4. CASE ReadRbr
  <2>1. pc = "read_RBR" /\ call.op = "receive" /\ call.done < call.size
    BY <1>4 DEF ReadRbr, IInv, CallInProgress, ReceiveSteps
  <2>2. call'.op = "receive"
    BY <1>1, <1>4, <2>1, AdvanceFields DEF ReadRbr
  <2> QED
    BY <1>1, <1>4, <2>1, <2>2 DEF ReadRbr, LeavesOutput, NextCharacter
<1>5. CASE ReadLsrForRbr \/ ReadLsrForThr
  <2>1. tx' = tx /\ wire' = wire /\ issued' = issued
    BY <1>5 DEF ReadLsrForRbr, ReadLsrForThr, hardware, ghosts
  <2>2. \/ call' = call /\ pc # "idle" /\ pc' # "idle"
        \/ pc' = "idle"
    BY <1>5 DEF ReadLsrForRbr, ReadLsrForThr, Return
  <2> QED
    BY <1>1, <2>1, <2>2 DEF LeavesOutput, NextCharacter
<1>6. CASE ReadRbrForThr \/ ReadRbrForDputc
  BY <1>1, <1>6
  DEF ReadRbrForThr, ReadRbrForDputc, DiscardInput, LeavesOutput, NextCharacter
<1>7. CASE WriteThr \/ WriteThrForDputc
  <2>1. /\ pc \in {"write_THR", "write_THR_for_dputc"} /\ wire' = wire /\ issued' = issued
        /\ Store(call.base + call.done + 1)
        /\ \E again \in {"read_LSR_for_THR", "read_RBR_for_dputc"} : Advance(again)
    BY <1>7 DEF WriteThr, WriteThrForDputc, ghosts
  <2>2. call.op # "receive" /\ call.done < call.size /\ call.base + call.size <= issued
    BY <2>1 DEF IInv, CallInProgress, TransmitSteps, DebugSteps, Sent
  <2>3. NextCharacter = call.base + call.done + 1
    BY <2>1, <2>2 DEF NextCharacter
  <2>4. /\ call.base \in Nat /\ call.size \in Nat /\ call.done \in Nat
        /\ issued <= MaxIssued
    BY <1>1, CallFields, UartAssumption DEF IInv, Handed
  <2>5. NextCharacter \in 1 .. MaxIssued
    BY <1>1, <2>2, <2>3, <2>4, UartAssumption
  <2>6. /\ call'.base = call.base /\ call'.done = call.done + 1
        /\ call'.op = call.op
    BY <1>1, <2>1, <2>2, AdvanceFields
  <2>7. NextCharacter' \in {call.base + (call.done + 1) + 1, issued + 1}
    BY <2>1, <2>6 DEF NextCharacter
  <2>8. NextCharacter' \in Nat /\ NextCharacter < NextCharacter'
    BY <1>1, <2>2, <2>3, <2>4, <2>7
  <2> QED
    BY <2>1, <2>3, <2>5, <2>8 DEF Stores
<1>8. CASE Start
  <2>1. PICK o \in Ops, n \in 0 .. MaxSize, null \in BOOLEAN, first \in Steps :
          Begin(o, n, null, first)
    <3>1. 1 \in 0 .. MaxSize
      BY UartAssumption
    <3> QED
      BY <1>8, <3>1 DEF Start, Receive, TransmitBuffer, Put, Debug, Ops, Steps,
                ReceiveSteps, TransmitSteps, DebugSteps
  <2>2. tx' = tx /\ wire' = wire /\ pc = "idle" /\ NextCharacter = issued + 1
    BY <2>1 DEF Begin, hardware, NextCharacter
  <2>3. /\ call'.base = issued /\ call'.done = 0 /\ n \in Nat
        /\ issued' \in {issued, issued + n}
    BY <2>1, UartAssumption DEF Begin
  <2>4. NextCharacter' \in {issued + 0 + 1, issued' + 1}
    BY <2>3 DEF NextCharacter
  <2>5. NextCharacter' \in Nat /\ issued + 1 <= NextCharacter'
    <3>1. issued' \in Nat /\ issued <= issued'
      BY <1>1, <2>3
    <3>2. NextCharacter' = issued + 1 \/ NextCharacter' = issued' + 1
      BY <1>1, <2>4
    <3> QED
      BY <1>1, <3>1, <3>2
  <2> QED
    BY <1>1, <2>2, <2>5 DEF LeavesOutput
<1> QED
  BY <1>2, <1>3, <1>4, <1>5, <1>6, <1>7, <1>8 DEF Next, Continue

\* Types of what was stored.
LEMMA StoredFields ==
    ASSUME Link
    PROVE  tx \in Seq(Nat) /\ wire \in Seq(Nat) /\ Stored \in Seq(Nat)
<1>1. tx \in Seq(Nat)
  BY SeqMonotonic, UartAssumption DEF Link
<1>2. wire \in Seq(Nat)
  BY SeqMonotonic, UartAssumption DEF Link
<1> QED
  BY <1>1, <1>2, ConcatProperties DEF Stored

\* A character is stored behind what the transmitter holds, possibly in the
\* place of the oldest one, or is lost.
LEMMA StoreDrops ==
    ASSUME Link, NEW c \in Nat, Store(c)
    PROVE  /\ Append(tx, c) \in Seq(Nat)
           /\ \/ tx' = Append(tx, c)
              \/ \E k \in 1 .. Len(Append(tx, c)) : tx' = Input!Drop(Append(tx, c), k)
<1>1. tx \in Seq(Nat) /\ Len(tx) \in Nat
  BY StoredFields
<1>2. Append(tx, c) \in Seq(Nat) /\ Len(Append(tx, c)) = Len(tx) + 1
  BY <1>1, AppendProperties
<1>3. CASE tx' = Append(tx, c)
  BY <1>2, <1>3
<1>4. CASE Len(tx) = DEPTH /\ tx' = Append(Tail(tx), c)
  <2>1. tx # <<>> /\ 1 \in 1 .. Len(tx) + 1
    BY <1>1, <1>4, UartAssumption
  <2>2. Input!Drop(Append(tx, c), 1) = Append(Tail(tx), c)
    BY <1>1, <2>1, AppendDrops
  <2> QED
    BY <1>2, <1>4, <2>1, <2>2
<1>5. CASE tx' = tx
  <2>1. Len(tx) + 1 \in 1 .. Len(Append(tx, c)) /\ Input!Drop(Append(tx, c), Len(tx) + 1) = tx
    BY <1>1, AppendDrops
  <2> QED
    BY <1>2, <1>5, <2>1
<1> QED
  BY <1>3, <1>4, <1>5 DEF Store

\* Storing the next character keeps the order.
LEMMA StoresInOrder ==
    ASSUME Link, OutputInOrder, Stores
    PROVE  OutputInOrder'
<1> DEFINE c == NextCharacter
           a == Append(tx, c)
           s == Append(Stored, c)
<1>1. /\ tx \in Seq(Nat) /\ wire \in Seq(Nat) /\ Stored \in Seq(Nat) /\ c \in Nat
      /\ NextCharacter' \in Nat /\ c < NextCharacter' /\ wire' = wire /\ Store(c)
  BY StoredFields DEF Stores
<1> HIDE DEF c
<1>2. Increasing(Stored) /\ \A e \in Elements(Stored) : e \in Nat /\ e < c
  BY <1>1 DEF OutputInOrder, Elements, c
<1>3. /\ s \in Seq(Nat) /\ Increasing(s) /\ Elements(s) = Elements(Stored) \cup {c}
  <2>1. \A i \in DOMAIN Stored : Stored[i] < c
    BY <1>2 DEF Elements
  <2> QED
    BY <1>1, <1>2, <2>1, AppendProperties, AppendAscends
<1>4. \A e \in Elements(s) : e < NextCharacter'
  BY <1>1, <1>2, <1>3
<1>5. a \in Seq(Nat) /\ wire \o a = s
  BY <1>1, AppendProperties, AppendRight DEF Stored
<1>6. Stored' = wire \o tx'
  BY <1>1 DEF Stored
<1>7. CASE tx' = a
  BY <1>3, <1>4, <1>5, <1>6, <1>7 DEF OutputInOrder, Increasing, Elements
<1>8. ASSUME NEW k \in 1 .. Len(a), tx' = Input!Drop(a, k) PROVE OutputInOrder'
  <2> HIDE DEF a, s
  <2>1. /\ Len(wire) + k \in 1 .. Len(s)
        /\ Stored' = Input!Drop(s, Len(wire) + k)
    BY <1>1, <1>5, <1>6, <1>8, DropRight
  <2>2. Increasing(Stored') /\ Elements(Stored') \subseteq Elements(s)
    BY <1>3, <2>1, DropAscends
  <2> QED
    BY <1>4, <2>2 DEF OutputInOrder, Increasing, Elements
<1> QED
  BY <1>1, <1>7, <1>8, StoreDrops

\* Every step keeps the output in order.
LEMMA OutputInOrderNext == IInv /\ OutputInOrder /\ [Next]_vars => OutputInOrder'
<1> SUFFICES ASSUME IInv, OutputInOrder, [Next]_vars PROVE OutputInOrder'
  OBVIOUS
<1>1. tx \in Seq(Nat) /\ wire \in Seq(Nat) /\ Stored \in Seq(Nat) /\ Link
  BY StoredFields DEF IInv
<1>2. CASE Transmits
  <2>1. Stored' = Stored
    BY <1>1, <1>2, HeadMoves DEF Stored, Transmits
  <2> QED
    BY <1>2, <2>1 DEF OutputInOrder, Increasing, Elements, Transmits
<1>3. CASE LeavesOutput
  <2>1. Stored' = Stored
    BY <1>3 DEF Stored, LeavesOutput
  <2>2. \A c \in Elements(Stored) : c \in Nat
    BY <1>1 DEF Elements
  <2>3. \A c \in Elements(Stored) : c < NextCharacter'
    BY <1>3, <2>2 DEF LeavesOutput, OutputInOrder
  <2> QED
    BY <2>1, <2>3 DEF OutputInOrder, Increasing, Elements
<1> QED
  BY <1>1, <1>2, <1>3, StoresInOrder, OutputSteps

\* The firmware's output, if it left any, comes before all others.
LEMMA OutputInOrderInit == Init => OutputInOrder
<1> SUFFICES ASSUME Init PROVE OutputInOrder
  OBVIOUS
<1>1. PICK n \in 0 .. DEPTH : tx = [k \in 1 .. n |-> k] /\ issued = n
  BY DEF Init
<1>2. n \in Nat /\ tx \in Seq(Nat) /\ DOMAIN tx = 1 .. n
  BY <1>1, UartAssumption
<1>3. Stored = tx /\ NextCharacter = n + 1
  BY <1>1, <1>2, ConcatEmptySeq DEF Init, Stored, NextCharacter
<1>4. \A k \in 1 .. n : tx[k] = k
  BY <1>1
<1>5. Increasing(tx)
  BY <1>2, <1>4 DEF Increasing
<1>6. \A c \in Elements(tx) : c < n + 1
  BY <1>2, <1>4 DEF Elements
<1> QED
  BY <1>3, <1>5, <1>6 DEF OutputInOrder

\* What leaves the UART and what it still holds is, at any time, in the order
\* in which callers handed it out, and nothing is in it twice.
THEOREM OutputOrdered == Spec => []OutputInOrder
  BY OutputInOrderInit, OutputInOrderNext, Invariance, PTL DEF Spec

\* Storing the next character, which may cost the transmitter its oldest one
\* or the new one, is a character entering the link.
LEMMA StoresEnters ==
    ASSUME Link, OutputInOrder, Stores
    PROVE  Output!Next
<1> DEFINE c == NextCharacter
           a == Append(tx, c)
<1>1. c \in 1 .. MaxIssued /\ c \in Nat /\ Store(c) /\ wire' = wire
  BY UartAssumption DEF Stores
<1>2. \A i \in DOMAIN Output!Everything : Output!Everything[i] < c
  BY DEF OutputInOrder, Stored, Elements, Output!Everything
<1> HIDE DEF c
<1>3. /\ a \in Seq(Nat) /\ DOMAIN a = 1 .. Len(a)
      /\ tx' = a \/ \E k \in 1 .. Len(a) : tx' = Input!Drop(a, k)
  BY <1>1, StoreDrops
<1> HIDE DEF a
<1>4. tx' = a \/ \E k \in DOMAIN a : tx' = Output!Drop(a, k)
  BY <1>3 DEF Input!Drop, Output!Drop
<1>5. Output!Enter(c)
  BY <1>1, <1>2, <1>4 DEF Output!Enter, a
<1> QED
  BY <1>1, <1>5 DEF Output!Next

\* The driver's writes and the transmitter implement the same link.
THEOREM OutputRefinesLink == Spec => OutputIsLink
<1>1. Init => Output!Init
  <2> SUFFICES ASSUME Init PROVE Output!Init
    OBVIOUS
  <2>1. tx \in Seq(1 .. MaxIssued) /\ wire = <<>> /\ tx \in Seq(Nat)
    BY InitInv, StoredFields DEF IInv, Link, Init
  <2>2. Stored = tx
    BY <2>1, ConcatEmptySeq DEF Stored
  <2> QED
    BY <2>1, <2>2, OutputInOrderInit
    DEF OutputInOrder, Increasing, Output!Init, Output!Ascending
<1>2. IInv /\ OutputInOrder /\ [Next]_vars => [Output!Next]_Output!vars
  <2> SUFFICES ASSUME IInv, OutputInOrder, [Next]_vars
               PROVE  [Output!Next]_Output!vars
    OBVIOUS
  <2>1. CASE Transmits
    BY <2>1 DEF Transmits, Output!Receive, Output!Next
  <2>2. CASE Stores
    BY <2>2, StoresEnters DEF IInv
  <2>3. CASE LeavesOutput
    BY <2>3 DEF LeavesOutput, Output!vars
  <2> QED
    BY <2>1, <2>2, <2>3, OutputSteps
<1> QED
  BY <1>1, <1>2, Invariance, OutputOrdered, PTL DEF Spec, OutputIsLink, Output!Spec
-----------------------------------------------------------------------------
(***************************************************************************)
(* The part of CallsReturn that needs no fairness: a call never waits for  *)
(* the UART.  It makes two accesses per character, three when it transmits *)
(* through the driver, and gives up or goes on after each.                 *)
(***************************************************************************)
AccessesLeft ==
    LET left == call.size - call.done
    IN CASE pc = "read_LSR_for_RBR" -> 2 * left
         [] pc = "read_RBR" -> 2 * left - 1
         [] pc = "read_LSR_for_THR" -> 3 * left
         [] pc = "read_RBR_for_THR" -> 3 * left - 1
         [] pc = "write_THR" -> 3 * left - 2
         [] pc = "read_RBR_for_dputc" -> 2 * left
         [] pc = "write_THR_for_dputc" -> 2 * left - 1
         [] pc = "idle" -> 0

AccessesBounded ==
    /\ AccessesLeft \in 0 .. 3 * MaxSize
    /\ pc # "idle" => AccessesLeft > 0

LEMMA AccessesFromIInv == IInv => AccessesBounded
<1> SUFFICES ASSUME IInv PROVE AccessesBounded
  OBVIOUS
<1>1. PICK left : left = call.size - call.done
  OBVIOUS
<1>2. /\ left \in Nat /\ left <= MaxSize /\ MaxSize \in Nat
      /\ pc # "idle" => left > 0
  BY <1>1, CallFields, UartAssumption DEF IInv, Handed, CallInProgress
<1>3. \/ pc = "idle" /\ AccessesLeft = 0
      \/ pc # "idle" /\ AccessesLeft \in {2 * left, 2 * left - 1, 3 * left, 3 * left - 1, 3 * left - 2}
  BY <1>1 DEF IInv, Handed, Steps, ReceiveSteps, TransmitSteps, DebugSteps, AccessesLeft
<1> QED BY <1>2, <1>3 DEF AccessesBounded

\* The last access of a character: the loop goes round, or the call ends.
LEMMA AdvanceShortens ==
    ASSUME IInv, IInv', NEW again, Advance(again),
           \/ pc = "read_RBR" /\ again = "read_LSR_for_RBR"
           \/ pc = "write_THR" /\ again = "read_LSR_for_THR"
           \/ pc = "write_THR_for_dputc" /\ again = "read_RBR_for_dputc"
    PROVE  AccessesLeft' < AccessesLeft
<1>1. PICK left : left = call.size - call.done
  OBVIOUS
<1>2. call \in Calls /\ call.done < call.size /\ left \in Nat /\ left > 0
  BY <1>1, CallFields DEF IInv, Handed, CallInProgress
<1>3. /\ call'.size - call'.done = left - 1
      /\ pc' \in {again, "idle"}
  <2>1. call'.size = call.size /\ call'.done = call.done + 1 /\ pc' \in {again, "idle"}
    BY <1>2, AdvanceFields DEF Advance
  <2> QED BY <1>1, <1>2, <2>1, CallFields
<1>4. CASE pc' = "idle"
  BY <1>2, <1>4, AccessesFromIInv DEF AccessesBounded, AccessesLeft
<1>5. CASE pc' = again
  BY <1>1, <1>2, <1>3, <1>5 DEF AccessesLeft
<1> QED BY <1>3, <1>4, <1>5

LEMMA ContinueShortens == IInv /\ Continue => AccessesLeft' < AccessesLeft
<1> SUFFICES ASSUME IInv, Continue PROVE AccessesLeft' < AccessesLeft
  OBVIOUS
<1>1. IInv' /\ pc # "idle"
  BY ContinueInv DEF Continue, ReadLsrForRbr, ReadRbr, ReadLsrForThr, ReadRbrForThr,
                     WriteThr, ReadRbrForDputc, WriteThrForDputc
<1>2. CASE ReadRbr \/ WriteThr \/ WriteThrForDputc
  BY <1>1, <1>2, AdvanceShortens DEF ReadRbr, WriteThr, WriteThrForDputc
<1>3. CASE pc' = "idle"
  BY <1>1, <1>3, AccessesFromIInv, UartAssumption DEF AccessesBounded, AccessesLeft
<1>4. CASE pc' # "idle" /\ (ReadLsrForRbr \/ ReadLsrForThr \/ ReadRbrForThr \/ ReadRbrForDputc)
  <2>1. PICK left : left = call.size - call.done
    OBVIOUS
  <2>2. left \in Nat
    BY <2>1, CallFields DEF IInv, Handed, CallInProgress
  <2>3. /\ call' = call
        /\ \/ pc = "read_LSR_for_RBR" /\ pc' = "read_RBR"
           \/ pc = "read_LSR_for_THR" /\ pc' = "read_RBR_for_THR"
           \/ pc = "read_RBR_for_THR" /\ pc' = "write_THR"
           \/ pc = "read_RBR_for_dputc" /\ pc' = "write_THR_for_dputc"
    BY <1>4 DEF ReadLsrForRbr, ReadLsrForThr, ReadRbrForThr, ReadRbrForDputc,
                DiscardInput, Return
  <2>4. \/ AccessesLeft = 2 * left /\ AccessesLeft' = 2 * left - 1
        \/ AccessesLeft = 3 * left /\ AccessesLeft' = 3 * left - 1
        \/ AccessesLeft = 3 * left - 1 /\ AccessesLeft' = 3 * left - 2
    BY <2>1, <2>3 DEF AccessesLeft
  <2> QED BY <2>2, <2>4
<1> QED BY <1>2, <1>3, <1>4 DEF Continue

\* A call never needs more than three accesses per character, and a step of a
\* call in progress is one of them: whatever the UART does meanwhile only
\* happens between two.
NoCallWaits ==
    [][pc # "idle" => \/ AccessesLeft' < AccessesLeft
                      \/ UNCHANGED <<pc, call>>]_vars

\* For every FIFO depth and length of call.
THEOREM CallsRunOut == Spec => []AccessesBounded /\ NoCallWaits
<1>1. IInv /\ [Next]_vars =>
        [pc # "idle" => \/ AccessesLeft' < AccessesLeft
                        \/ UNCHANGED <<pc, call>>]_vars
  <2>1. IInv /\ Continue => AccessesLeft' < AccessesLeft
    BY ContinueShortens
  <2>2. Start => pc = "idle"
    BY DEF Start, Receive, TransmitBuffer, Put, Debug, Begin
  <2>3. Arrive \/ Shift => UNCHANGED <<pc, call>>
    BY DEF Arrive, Shift
  <2> QED BY <2>1, <2>2, <2>3 DEF Next
<1> QED BY <1>1, InitInv, NextInv, AccessesFromIInv, PTL DEF Spec, NoCallWaits
=============================================================================
