-------------------------- MODULE MCUartStmDuplexDma --------------------------
(* UartStmDuplexDma with a small buffer, and bytes for a few rounds in it. *)
EXTENDS UartStmDuplexDma
=============================================================================
