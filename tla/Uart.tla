-------------------------------- MODULE Uart --------------------------------
(***************************************************************************)
(* The ns16550a driver (src/kernel/device/ns16550a/{device,debug}.c) and   *)
(* the UART it drives, one register access per step.  The CPU runs one     *)
(* driver call at a time; the UART keeps receiving and transmitting        *)
(* between any two accesses of a call.                                     *)
(*                                                                         *)
(* Characters are numbers.  The n-th character that arrives on the line is *)
(* n; the characters that callers hand out for output are numbered in the  *)
(* order of the calls and, within a call, of their position in the data.   *)
(***************************************************************************)
EXTENDS Naturals, Sequences

CONSTANTS
    DEPTH,         \* characters each FIFO of the UART holds (1: no FIFOs)
    MaxSize,       \* bound: longest buffer or string of a call
    MaxArrivals,   \* bound: characters that ever arrive
    MaxIssued      \* bound: characters ever handed out for output

ASSUME UartAssumption ==
    /\ DEPTH \in Nat \ {0}
    /\ MaxSize \in Nat \ {0}
    /\ MaxArrivals \in Nat
    /\ MaxIssued \in Nat /\ DEPTH <= MaxIssued

VARIABLES
    rx,          \* the UART's received characters, oldest first
    tx,          \* the UART's characters to transmit, oldest first
    wire,        \* characters transmitted so far
    arrived,     \* characters that have arrived so far
    overrun,     \* arrivals lost because rx was full
    pc,          \* the CPU's next register access, or "idle"
    call,        \* the running or last call
    issued,      \* characters handed out for output so far
    delivered,   \* characters that receive_buffer stored, in order
    discarded,   \* arrivals read and thrown away by output
    accepted     \* characters of which transmit answered true

hardware == <<rx, tx, wire, arrived, overrun>>
ghosts == <<issued, delivered, discarded, accepted>>
vars == <<hardware, pc, call, ghosts>>

Garbage == 0     \* what reading RBR yields when nothing has been received

Ops == {"receive", "transmit", "put", "debug"}
ReceiveSteps == {"read_LSR_for_RBR", "read_RBR"}
TransmitSteps == {"read_LSR_for_THR", "read_RBR_for_THR", "write_THR"}
DebugSteps == {"read_RBR_for_dputc", "write_THR_for_dputc"}
Steps == ReceiveSteps \cup TransmitSteps \cup DebugSteps \cup {"idle"}

\* size characters are asked for or handed out (numbered base + 1 onwards),
\* done of them have been dealt with; answer is the value returned.
Calls == [op : Ops, size : 0 .. MaxSize, base : 0 .. MaxIssued,
          done : 0 .. MaxSize, answer : 0 .. MaxSize]

(***************************************************************************)
(* The firmware that ran before the kernel set the UART up, and may have   *)
(* left output in it.                                                      *)
(***************************************************************************)
Init ==
    /\ \E n \in 0 .. DEPTH :
        /\ tx = [k \in 1 .. n |-> k]
        /\ issued = n
    /\ rx = <<>> /\ wire = <<>> /\ arrived = 0 /\ overrun = {}
    /\ pc = "idle"
    /\ call = [op |-> "receive", size |-> 0, base |-> 0, done |-> 0, answer |-> 0]
    /\ delivered = <<>> /\ discarded = {} /\ accepted = {}

-----------------------------------------------------------------------------
(***************************************************************************)
(* The UART.  A full receiver loses the new character or overwrites its    *)
(* newest one; a full transmitter loses the new character or its oldest    *)
(* one: boards differ, and so do FIFO and non-FIFO modes.                  *)
(***************************************************************************)
Arrive ==
    /\ arrived < MaxArrivals
    /\ arrived' = arrived + 1
    /\ \/ /\ Len(rx) < DEPTH
          /\ rx' = Append(rx, arrived')
          /\ UNCHANGED overrun
       \/ /\ Len(rx) = DEPTH
          /\ overrun' = overrun \cup {arrived'}
          /\ UNCHANGED rx
       \/ /\ Len(rx) = DEPTH
          /\ rx' = [rx EXCEPT ![DEPTH] = arrived']
          /\ overrun' = overrun \cup {rx[DEPTH]}
    /\ UNCHANGED <<tx, wire, pc, call, ghosts>>

Shift ==
    /\ tx # <<>>
    /\ wire' = Append(wire, Head(tx))
    /\ tx' = Tail(tx)
    /\ UNCHANGED <<rx, arrived, overrun, pc, call, ghosts>>

\* Storing c in THR.
Store(c) ==
    \/ Len(tx) < DEPTH /\ tx' = Append(tx, c)
    \/ Len(tx) = DEPTH /\ tx' = Append(Tail(tx), c)
    \/ Len(tx) = DEPTH /\ UNCHANGED tx

-----------------------------------------------------------------------------
Return(answer) ==
    /\ pc' = "idle"
    /\ call' = [call EXCEPT !.answer = answer]

\* A plausible mistake: <= for <, so that the loop goes round once too often.
AdvanceOnceTooOften(again) ==
    /\ call' = [call EXCEPT !.done = @ + 1,
                            !.answer = IF call.done < call.size THEN 0 ELSE call.size]
    /\ pc' = IF call.done < call.size THEN again ELSE "idle"

\* One more character is dealt with: the loop goes round or the call ends.
Advance(again) ==
    /\ call' = [call EXCEPT !.done = @ + 1,
                            !.answer = IF call.done + 1 < call.size
                                       THEN 0 ELSE call.size]
    /\ pc' = IF call.done + 1 < call.size THEN again ELSE "idle"

\* A call that has no data or nothing to do returns 0 at once.
Begin(op, size, null, first) ==
    /\ pc = "idle"
    /\ op # "receive" => issued + size <= MaxIssued
    /\ issued' = IF op = "receive" THEN issued ELSE issued + size
    /\ call' = [op |-> op, size |-> size, base |-> issued, done |-> 0, answer |-> 0]
    /\ pc' = IF null \/ size = 0 THEN "idle" ELSE first
    /\ UNCHANGED <<hardware, delivered, discarded, accepted>>

-----------------------------------------------------------------------------
(* ns16550a_receive_buffer: while (i < size && try_receive).               *)

\* A plausible mistake: the first character is read without a look at LSR.
ReceiveUnchecked(size, null) == Begin("receive", size, null, "read_RBR")

Receive(size, null) == Begin("receive", size, null, "read_LSR_for_RBR")

\* A plausible mistake: the answer is the size asked for, as in transmit_buffer.
ReadLsrForRbrAnsweringSize ==
    /\ pc = "read_LSR_for_RBR"
    /\ IF rx # <<>>
       THEN pc' = "read_RBR" /\ UNCHANGED call
       ELSE Return(call.size)
    /\ UNCHANGED <<hardware, ghosts>>

ReadLsrForRbr ==
    /\ pc = "read_LSR_for_RBR"
    /\ IF rx # <<>>
       THEN pc' = "read_RBR" /\ UNCHANGED call
       ELSE Return(call.done)
    /\ UNCHANGED <<hardware, ghosts>>

ReadRbr ==
    /\ pc = "read_RBR"
    /\ IF rx # <<>>
       THEN /\ delivered' = Append(delivered, Head(rx))
            /\ rx' = Tail(rx)
       ELSE /\ delivered' = Append(delivered, Garbage)
            /\ UNCHANGED rx
    /\ Advance("read_LSR_for_RBR")
    /\ UNCHANGED <<tx, wire, arrived, overrun, issued, discarded, accepted>>

-----------------------------------------------------------------------------
(* ns16550a_transmit_buffer, and ns16550a_transmit as the console's put.   *)
(* Without data the answer is 0; the console's write never gets that far,  *)
(* as the strlen of its NULL string fails an assertion (StringFunctions).  *)
TransmitBuffer(size, null) == Begin("transmit", size, null, "read_LSR_for_THR")
Put == Begin("put", 1, FALSE, "read_LSR_for_THR")

\* NS16550A_WRITE_FIELD reads the register it is about to write.  RBR and THR
\* share index 0, so the read takes a received character out of the UART.
DiscardInput ==
    /\ IF rx # <<>>
       THEN rx' = Tail(rx) /\ discarded' = discarded \cup {Head(rx)}
       ELSE UNCHANGED <<rx, discarded>>
    /\ UNCHANGED <<tx, wire, arrived, overrun, call, issued, delivered, accepted>>

\* Plausible mistakes: LSR is not looked at; the call waits for THR instead of
\* giving up; a refused character is skipped and the loop goes on.
TransmitUnchecked ==
    /\ pc = "read_LSR_for_THR"
    /\ pc' = "read_RBR_for_THR"
    /\ UNCHANGED <<hardware, call, ghosts>>

TransmitWaiting ==
    /\ pc = "read_LSR_for_THR"
    /\ pc' = IF tx = <<>> THEN "read_RBR_for_THR" ELSE pc
    /\ UNCHANGED <<hardware, call, ghosts>>

TransmitSkipping ==
    /\ pc = "read_LSR_for_THR"
    /\ IF tx = <<>>
       THEN pc' = "read_RBR_for_THR" /\ UNCHANGED call
       ELSE Advance("read_LSR_for_THR")
    /\ UNCHANGED <<hardware, ghosts>>

\* When THR is not empty, put answers false, but transmit_buffer answers size
\* although it leaves out the rest of the data.
ReadLsrForThr ==
    /\ pc = "read_LSR_for_THR"
    /\ IF tx = <<>>
       THEN pc' = "read_RBR_for_THR" /\ UNCHANGED call
       ELSE Return(IF call.op = "put" THEN 0 ELSE call.size)
    /\ UNCHANGED <<hardware, ghosts>>

ReadRbrForThr ==
    /\ pc = "read_RBR_for_THR"
    /\ pc' = "write_THR"
    /\ DiscardInput

\* Plausible mistakes: the data is taken from its end; the character counts as
\* sent although nothing is written.
WriteThrBackwards ==
    /\ pc = "write_THR"
    /\ Store(call.base + call.size - call.done)
    /\ accepted' = accepted \cup {call.base + call.size - call.done}
    /\ Advance("read_LSR_for_THR")
    /\ UNCHANGED <<rx, wire, arrived, overrun, issued, delivered, discarded>>

WriteThrForgotten ==
    /\ pc = "write_THR"
    /\ accepted' = accepted \cup {call.base + call.done + 1}
    /\ Advance("read_LSR_for_THR")
    /\ UNCHANGED <<hardware, issued, delivered, discarded>>

WriteThr ==
    /\ pc = "write_THR"
    /\ Store(call.base + call.done + 1)
    /\ accepted' = accepted \cup {call.base + call.done + 1}
    /\ Advance("read_LSR_for_THR")
    /\ UNCHANGED <<rx, wire, arrived, overrun, issued, delivered, discarded>>

-----------------------------------------------------------------------------
(* dputs, a dputc per character: no wait for THR.                          *)
Debug(size) == Begin("debug", size, FALSE, "read_RBR_for_dputc")

ReadRbrForDputc ==
    /\ pc = "read_RBR_for_dputc"
    /\ pc' = "write_THR_for_dputc"
    /\ DiscardInput

WriteThrForDputc ==
    /\ pc = "write_THR_for_dputc"
    /\ Store(call.base + call.done + 1)
    /\ Advance("read_RBR_for_dputc")
    /\ UNCHANGED <<rx, wire, arrived, overrun, ghosts>>

-----------------------------------------------------------------------------
Start ==
    \/ \E size \in 0 .. MaxSize, null \in BOOLEAN :
        Receive(size, null) \/ TransmitBuffer(size, null)
    \/ Put
    \/ \E size \in 0 .. MaxSize : Debug(size)

Continue ==
    \/ ReadLsrForRbr \/ ReadRbr
    \/ ReadLsrForThr \/ ReadRbrForThr \/ WriteThr
    \/ ReadRbrForDputc \/ WriteThrForDputc

Next == Start \/ Continue \/ Arrive \/ Shift

Spec == Init /\ [][Next]_vars

\* The CPU finishes the call it runs; nothing is assumed of the UART.
CpuFairSpec == Spec /\ WF_vars(Continue)

\* A clocked UART transmits what it holds.
TransmitterFair == WF_vars(Shift)

-----------------------------------------------------------------------------
Increasing(s) == \A i, j \in DOMAIN s : i < j => s[i] < s[j]
Elements(s) == {s[i] : i \in DOMAIN s}

TypeOK ==
    /\ rx \in Seq(1 .. MaxArrivals) /\ Len(rx) <= DEPTH
    /\ tx \in Seq(1 .. MaxIssued) /\ Len(tx) <= DEPTH
    /\ wire \in Seq(1 .. MaxIssued)
    /\ arrived \in 0 .. MaxArrivals /\ overrun \subseteq 1 .. arrived
    /\ pc \in Steps /\ call \in Calls
    /\ issued \in 0 .. MaxIssued
    /\ delivered \in Seq(0 .. MaxArrivals)
    /\ discarded \subseteq 1 .. arrived /\ accepted \subseteq 1 .. issued

\* Whatever the UART does between the look at LSR and the read of RBR, callers
\* get received characters in the order of arrival and none twice; each
\* arrival is delivered, still in the UART, lost to overrun, or thrown away by
\* output, and only one of these.
InputAccountedFor ==
    LET kept == delivered \o rx
    IN  /\ Increasing(kept)
        /\ Elements(kept) \cup overrun \cup discarded = 1 .. arrived
        /\ Elements(kept) \cap (overrun \cup discarded) = {}
        /\ overrun \cap discarded = {}

\* A look at LSR stays true until the access it guards: only the CPU takes
\* characters from rx or puts characters into tx.
ChecksStayTrue ==
    /\ pc = "read_RBR" => rx # <<>>
    /\ pc \in {"read_RBR_for_THR", "write_THR"} => tx = <<>>

\* A short write leaves no hole: of the characters a transmit call was handed,
\* the ones it accepted so far are the first done.
AcceptedIsPrefix ==
    call.op \in {"transmit", "put"} =>
        accepted \cap (call.base + 1 .. call.base + call.size)
            = call.base + 1 .. call.base + call.done

\* receive_buffer answers how many characters it stored and put whether it sent
\* its character.  transmit_buffer does not: it answers size, sent or not.
AnswersAreTrue ==
    pc = "idle" =>
        /\ call.op \in {"receive", "put"} => call.answer = call.done
        /\ call.op = "transmit" => call.answer \in {0, call.size}

\* A character that transmit accepted leaves the UART onto the wire, unless
\* debug output, which does not wait for room, pushes it out.
AcceptedReachesWire ==
    [][\A c \in accepted \cap Elements(tx) :
        c \notin Elements(tx') =>
            \/ wire' = Append(wire, c)
            \/ pc = "write_THR_for_dputc"]_vars

\* Output never takes a received character from the UART.  Not so in the code.
OutputLeavesInput == discarded = {}

\* Every call returns whatever the UART does: no call waits for the hardware.
CallsReturn == (pc # "idle") ~> (pc = "idle")

\* If the UART transmits what it holds, and as long as no debug output pushes it
\* out, what a caller was told is sent reaches the wire.
AcceptedIsTransmitted ==
    TransmitterFair /\ [](call.op # "debug") =>
        \A c \in 1 .. MaxIssued : (c \in accepted) ~> (c \in Elements(wire))

-----------------------------------------------------------------------------
(***************************************************************************)
(* Each direction of the UART and its driver is a link that may lose but   *)
(* neither reorders nor duplicates nor invents: see LossyLink.             *)
(***************************************************************************)
Input == INSTANCE LossyLink WITH
    Msgs <- 1 .. MaxArrivals, inFlight <- rx, received <- delivered

Output == INSTANCE LossyLink WITH
    Msgs <- 1 .. MaxIssued, inFlight <- tx, received <- wire

InputIsLink == Input!Spec
OutputIsLink == Output!Spec
=============================================================================
