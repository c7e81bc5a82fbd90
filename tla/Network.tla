------------------------------ MODULE Network ------------------------------
(***************************************************************************)
(* The values every part of clumsier passes around: the Lag settings and   *)
(* the selection of traffic.                                               *)
(*                                                                         *)
(* The records and their checks are those of core/network.c.  Delays are   *)
(* in milliseconds in the code; a model counts them in units of its        *)
(* choosing, so the limit and the default are parameters.                  *)
(***************************************************************************)
EXTENDS Integers

CONSTANTS
  LagMaxMs,      (* LAG_MAX_MS: no accepted delay is longer               *)
  LagDefaultMs   (* the delay of freshly initialised settings             *)

ASSUME LagLimitsAssumption ==
  /\ LagMaxMs \in Nat
  /\ LagDefaultMs \in 0 .. LagMaxMs

LagSettings ==
  [enabled : BOOLEAN, inbound : BOOLEAN, outbound : BOOLEAN,
   inbound_ms : Nat, outbound_ms : Nat]

lagSettingsDefault ==
  [enabled |-> FALSE, inbound |-> TRUE, outbound |-> TRUE,
   inbound_ms |-> LagDefaultMs, outbound_ms |-> LagDefaultMs]

lagSettingsValidate(s) ==
  /\ s.inbound_ms <= LagMaxMs
  /\ s.outbound_ms <= LagMaxMs

(* What is captured.  remote stands for the address (0 is any) and native  *)
(* for a filter in the syntax of one backend.                              *)
CaptureTarget ==
  [protocol : {"any", "tcp", "udp"}, direction : {"both", "inbound", "outbound"},
   remote : Nat, remote_port : Nat, native : BOOLEAN]

captureTargetValidate(t) ==
  /\ t.remote_port # 0 => t.protocol # "any"
  /\ t.native => /\ t.protocol = "any" /\ t.direction = "both"
                 /\ t.remote = 0 /\ t.remote_port = 0

(* The delay in force for a direction: none when Lag or the direction is   *)
(* off, whatever the number says.                                          *)
Delay(s, outbound) ==
  IF s.enabled /\ (IF outbound THEN s.outbound ELSE s.inbound)
  THEN IF outbound THEN s.outbound_ms ELSE s.inbound_ms
  ELSE 0
=============================================================================
