-------------------------- MODULE MCLinuxBackend --------------------------
(* A small instance of LinuxBackend.  The settings are no delay, a delay,  *)
(* and a request beyond the limit.                                         *)
EXTENDS LinuxBackend

Lag(on, ms) ==
  [enabled |-> on, inbound |-> TRUE, outbound |-> TRUE, inbound_ms |-> ms, outbound_ms |-> ms]

MCSettings == {Lag(FALSE, 1), Lag(TRUE, 1), Lag(TRUE, 9)}
=============================================================================
