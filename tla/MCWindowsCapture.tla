-------------------------- MODULE MCWindowsCapture --------------------------
(* A small instance of WindowsCapture: Lag off, one direction delayed and  *)
(* the other not, either way, and a request beyond the limit.              *)
EXTENDS WindowsCapture

Lag(on, in_ms, out_ms) ==
  [enabled |-> on, inbound |-> TRUE, outbound |-> TRUE, inbound_ms |-> in_ms, outbound_ms |-> out_ms]

MCSettings == {Lag(FALSE, 1, 1), Lag(TRUE, 1, 0), Lag(TRUE, 0, 1), Lag(TRUE, 9, 9)}
=============================================================================
