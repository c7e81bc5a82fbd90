-------------------------- MODULE MCLagQueueArray --------------------------
(* A small instance of LagQueueArray.  Ids are numbers: 0 stands for none. *)
(* Off, both directions delayed differently, one direction switched off,   *)
(* the longest delay, and a request beyond the limit.                      *)
EXTENDS LagQueueArray

Lag(on, in, out, in_ms, out_ms) ==
  [enabled |-> on, inbound |-> in, outbound |-> out,
   inbound_ms |-> in_ms, outbound_ms |-> out_ms]

MCSettings ==
  { Lag(FALSE, TRUE, TRUE, 1, 2), Lag(TRUE, TRUE, TRUE, 1, 2),
    Lag(TRUE, FALSE, TRUE, 2, 1), Lag(TRUE, TRUE, TRUE, 2, 2),
    Lag(TRUE, TRUE, TRUE, 9, 9) }
=============================================================================
