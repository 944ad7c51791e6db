------------------------------- MODULE MCUart -------------------------------
(* A UART whose FIFOs fill up, calls longer than one FIFO, and more        *)
(* arrivals than the receiver holds.                                       *)
EXTENDS Uart, TLC
=============================================================================
