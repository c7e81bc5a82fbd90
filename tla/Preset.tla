------------------------------- MODULE Preset -------------------------------
(***************************************************************************)
(* Presets and what one of their steps means (core/preset.c).              *)
(*                                                                         *)
(* A preset is a sequence of steps; each resolves to Lag settings, given   *)
(* the ping the player has without any delay (the baseline).  Names, notes *)
(* and labels are left out: no setting depends on them.  Steps are counted *)
(* from 0, as in the code.                                                 *)
(***************************************************************************)
EXTENDS Network, Sequences

CONSTANTS
  PingMaxMs,       (* PING_MAX_MS                                         *)
  PresetMaxSteps   (* PRESET_MAX_STEPS                                    *)

ASSUME PresetAssumption ==
  /\ PingMaxMs \in Nat
  /\ PresetMaxSteps \in Nat \ {0}

PresetStep ==
  [kind : {"delay", "target", "lowest"}, target_ms : Nat, inbound_ms : Nat, outbound_ms : Nat]

PresetRecord ==
  [target : CaptureTarget, mode : {"added_delay", "target_ping"},
   policy : {"inbound", "outbound", "both"}, loop : BOOLEAN, steps : Seq(PresetStep)]

(* Only the fields of a step's kind may be set, within the limits, and     *)
(* only for directions the policy delays.                                  *)
StepValid(p, step) ==
  /\ step.kind \in (IF p.mode = "added_delay" THEN {"delay"} ELSE {"target", "lowest"})
  /\ step.target_ms <= PingMaxMs
  /\ step.inbound_ms <= LagMaxMs /\ step.outbound_ms <= LagMaxMs
  /\ step.kind # "delay" => step.inbound_ms = 0 /\ step.outbound_ms = 0
  /\ step.kind # "target" => step.target_ms = 0
  /\ p.policy = "inbound" => step.outbound_ms = 0
  /\ p.policy = "outbound" => step.inbound_ms = 0

(* Variant: the policy need not follow the selected direction.             *)
ValidateAnyPolicy(p) ==
  /\ Len(p.steps) \in 1 .. PresetMaxSteps
  /\ captureTargetValidate(p.target)
  /\ \A i \in 1 .. Len(p.steps) : StepValid(p, p.steps[i])

presetValidate(p) ==
  /\ Len(p.steps) \in 1 .. PresetMaxSteps
  /\ captureTargetValidate(p.target)
  /\ ~p.target.native /\ p.target.direction # "both" => p.policy = p.target.direction
  /\ \A i \in 1 .. Len(p.steps) : StepValid(p, p.steps[i])

-----------------------------------------------------------------------------
Refused == [ok |-> FALSE]

(* How far the step's ping lies above the baseline.                        *)
Extra(step, baseline) ==
  IF step.kind = "target" /\ step.target_ms > baseline
  THEN step.target_ms - baseline ELSE 0

(* The delays of a step: its own, or the extra ping put on the directions  *)
(* of the policy; an odd millisecond goes out.                             *)
InboundMs(p, step, baseline) ==
  IF p.mode = "added_delay" THEN step.inbound_ms
  ELSE CASE p.policy = "inbound" -> Extra(step, baseline)
         [] p.policy = "outbound" -> 0
         [] OTHER -> Extra(step, baseline) \div 2

(* Variant: both directions get the lower half.                            *)
OutboundHalf(p, step, baseline) ==
  IF p.mode = "added_delay" THEN step.outbound_ms
  ELSE CASE p.policy = "inbound" -> 0
         [] p.policy = "outbound" -> Extra(step, baseline)
         [] OTHER -> Extra(step, baseline) \div 2

OutboundMs(p, step, baseline) ==
  IF p.mode = "added_delay" THEN step.outbound_ms
  ELSE CASE p.policy = "inbound" -> 0
         [] p.policy = "outbound" -> Extra(step, baseline)
         [] OTHER -> Extra(step, baseline) - Extra(step, baseline) \div 2

StepLag(p, step, baseline) ==
  [enabled |-> InboundMs(p, step, baseline) # 0 \/ OutboundMs(p, step, baseline) # 0,
   inbound |-> p.policy # "outbound",
   outbound |-> p.policy # "inbound",
   inbound_ms |-> InboundMs(p, step, baseline),
   outbound_ms |-> OutboundMs(p, step, baseline)]

StepResolved(p, step, baseline) ==
  [ok |-> TRUE,
   lag |-> StepLag(p, step, baseline),
   below_baseline |-> p.mode = "target_ping" /\ step.kind = "target" /\ step.target_ms < baseline,
   estimated_ping_ms |-> IF p.mode = "target_ping" THEN baseline + Extra(step, baseline) ELSE 0]

presetResolve(p, index, has_baseline, baseline) ==
  IF /\ presetValidate(p)
     /\ index < Len(p.steps)
     /\ p.mode = "target_ping" => has_baseline /\ baseline <= PingMaxMs
     /\ lagSettingsValidate(StepLag(p, p.steps[index + 1], baseline))
  THEN StepResolved(p, p.steps[index + 1], baseline)
  ELSE Refused
=============================================================================
