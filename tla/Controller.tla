----------------------------- MODULE Controller -----------------------------
(***************************************************************************)
(* The application controller (core/controller.c) on top of any backend    *)
(* that keeps the contract of core/network.h.                              *)
(*                                                                         *)
(* One owner runs one operation at a time.  An operation asks the backend  *)
(* whether capture is running, makes its checks, and either answers at     *)
(* once or calls the backend; pc tells where it goes on when that call     *)
(* returns.  Capture may end by itself at any point of an operation.       *)
(***************************************************************************)
EXTENDS Preset

CONSTANTS
  Targets,     (* the selections callers pass, invalid ones among them    *)
  Settings,    (* the Lag settings callers pass, invalid ones among them  *)
  Presets,     (* the presets callers load, invalid ones among them       *)
  Baselines    (* the baselines they are loaded with: has, ms             *)

ASSUME ControllerAssumption ==
  /\ Targets \subseteq CaptureTarget
  /\ Settings \subseteq LagSettings
  /\ Presets \subseteq PresetRecord
  /\ Baselines \subseteq [has : BOOLEAN, ms : Nat]

VARIABLES
  app,      (* AppController: what has been accepted                      *)
  pc,       (* where the operation in progress waits for the backend      *)
  draft,    (* app as the operation will commit it                        *)
  reply,    (* the last operation answered, and whether it succeeded      *)
  (* the backend's, as in NetworkContract *)
  capture, engaged, call, result

ownVars == <<app, pc, draft, reply>>
backendVars == <<capture, engaged, call, result>>
vars == <<ownVars, backendVars>>

B == INSTANCE NetworkContract

-----------------------------------------------------------------------------
Untargeted ==
  [protocol |-> "any", direction |-> "both", remote |-> 0, remote_port |-> 0, native |-> FALSE]

EmptyPreset ==
  [target |-> Untargeted, mode |-> "added_delay", policy |-> "inbound", loop |-> FALSE,
   steps |-> <<>>]

(* Step i of preset p with baseline b, loaded or replacing what was.       *)
Loaded(p, b, i) ==
  LET resolved == presetResolve(p, i, b.has, b.ms)
  IN  [lag |-> resolved.lag, target |-> p.target, preset |-> p, preset_loaded |-> TRUE,
       active_step |-> i, has_baseline |-> b.has, baseline_ms |-> b.ms,
       step_result |-> resolved]

(* Variant: only the first step is checked.                                *)
FirstResolvable(p, b) == presetValidate(p) /\ presetResolve(p, 0, b.has, b.ms).ok

(* The whole sequence is checked before any of it is used.                 *)
Resolvable(p, b) ==
  presetValidate(p) /\ \A i \in 0 .. Len(p.steps) - 1 : presetResolve(p, i, b.has, b.ms).ok

(* moveStep: where an action leads from the active step.                   *)
Moved(action) ==
  LET i == app.active_step
      last == Len(app.preset.steps) - 1
  IN  CASE action = "reset" -> 0
        [] action = "next" -> IF i < last THEN i + 1 ELSE IF app.preset.loop THEN 0 ELSE i
        [] action = "previous" -> IF i > 0 THEN i - 1 ELSE IF app.preset.loop THEN last ELSE i

-----------------------------------------------------------------------------
(* How an operation ends, and how it calls the backend.                    *)
Answer(op, ok) ==
  /\ reply' = [op |-> op, ok |-> ok]
  /\ pc' = "idle"

Refuse(op) ==
  /\ Answer(op, FALSE)
  /\ UNCHANGED <<app, draft, backendVars>>

Commit(op, new) ==
  /\ Answer(op, TRUE)
  /\ app' = new /\ draft' = new
  /\ UNCHANGED backendVars

Ask(op, c, label, new) ==
  /\ B!Issue(c)
  /\ pc' = label
  /\ draft' = new
  /\ reply' = [op |-> op, ok |-> FALSE]
  /\ UNCHANGED app

(* New settings are committed when the backend has accepted them; without  *)
(* a running capture there is nothing to ask.                              *)
ApplyThenCommit(op, new) ==
  IF capture.on THEN Ask(op, B!ApplyCall(new.lag), "apply", new) ELSE Commit(op, new)

-----------------------------------------------------------------------------
(* Variants: a manual delay leaves the sequence loaded, a stop is answered  *)
(* without calling the backend.                                            *)
SetLagLoaded(l) ==
  IF lagSettingsValidate(l)
  THEN ApplyThenCommit("set_lag", [app EXCEPT !.lag = l])
  ELSE Refuse("set_lag")

StopUnasked == Commit("stop", app)

SetTarget(t) ==
  IF capture.on \/ ~captureTargetValidate(t)
  THEN Refuse("set_target")
  ELSE Commit("set_target", [app EXCEPT !.target = t, !.preset_loaded = FALSE])

SetLag(l) ==
  IF lagSettingsValidate(l)
  THEN ApplyThenCommit("set_lag", [app EXCEPT !.lag = l, !.preset_loaded = FALSE])
  ELSE Refuse("set_lag")

LoadPreset(p, b) ==
  IF Resolvable(p, b) /\ (capture.on => app.target = p.target)
  THEN ApplyThenCommit("load", Loaded(p, b, 0))
  ELSE Refuse("load")

UnloadPreset == Commit("unload", [app EXCEPT !.preset_loaded = FALSE])

SelectStep(next) ==
  LET resolved == presetResolve(app.preset, next, app.has_baseline, app.baseline_ms)
  IN  IF app.preset_loaded /\ resolved.ok
      THEN ApplyThenCommit("select", [app EXCEPT !.lag = resolved.lag,
                                                 !.step_result = resolved,
                                                 !.active_step = next])
      ELSE Refuse("select")

MoveStep(action) ==
  IF app.preset_loaded THEN SelectStep(Moved(action)) ELSE Refuse("select")

StartCapture ==
  IF capture.on THEN Commit("start", app)
  ELSE Ask("start", B!StartCall(app.target, app.lag), "start", app)

StopCapture ==
  IF capture.on THEN Ask("stop", B!StopCall, "stop", app) ELSE Commit("stop", app)

ToggleCapture == IF capture.on THEN StopCapture ELSE StartCapture

Shutdown == Ask("shutdown", B!StopCall, "stop", app)

ReplacePreset(p, b, step) ==
  IF Resolvable(p, b) /\ presetResolve(p, step, b.has, b.ms).ok
  THEN IF capture.on /\ app.target # p.target
       THEN Ask("replace", B!StopCall, "replace_stop", Loaded(p, b, step))
       ELSE ApplyThenCommit("replace", Loaded(p, b, step))
  ELSE Refuse("replace")

Request ==
  /\ pc = "idle"
  /\ \/ \E t \in Targets : SetTarget(t)
     \/ \E l \in Settings : SetLag(l)
     \/ \E p \in Presets, b \in Baselines : LoadPreset(p, b)
     \/ UnloadPreset
     \/ \E i \in 0 .. PresetMaxSteps : SelectStep(i)
     \/ \E action \in {"reset", "next", "previous"} : MoveStep(action)
     \/ StartCapture \/ StopCapture \/ ToggleCapture
     \/ Shutdown
     \/ \E p \in Presets, b \in Baselines, i \in 0 .. PresetMaxSteps : ReplacePreset(p, b, i)

-----------------------------------------------------------------------------
(* What an operation does when the backend has returned.                   *)
Returned(label) == pc = label /\ call = B!NoCall

(* Variants: settings are committed whatever the backend answered, a       *)
(* replacement starts with the old delay.                                  *)
AppliedAnyway == Returned("apply") /\ Commit(reply.op, draft)

StartReplacementLate ==
  /\ Returned("replace_stop")
  /\ Ask(reply.op, B!StartCall(draft.target, app.lag), "replace_start", draft)

Applied ==
  /\ Returned("apply")
  /\ IF result THEN Commit(reply.op, draft)
     ELSE Answer(reply.op, FALSE) /\ draft' = app /\ UNCHANGED <<app, backendVars>>

Started == Returned("start") /\ Answer(reply.op, result) /\ UNCHANGED <<app, draft, backendVars>>

Stopped == Returned("stop") /\ Answer(reply.op, TRUE) /\ UNCHANGED <<app, draft, backendVars>>

(* ReplacePreset with another selection: stop, start the new; if that      *)
(* fails, stop again and start the old.                                    *)
StartReplacement ==
  /\ Returned("replace_stop")
  /\ Ask(reply.op, B!StartCall(draft.target, draft.lag), "replace_start", draft)

ReplacementStarted ==
  /\ Returned("replace_start")
  /\ result
  /\ Commit(reply.op, draft)

CleanReplacement ==
  /\ Returned("replace_start")
  /\ ~result
  /\ Ask(reply.op, B!StopCall, "replace_clean", app)

RestoreCapture ==
  /\ Returned("replace_clean")
  /\ Ask(reply.op, B!StartCall(app.target, app.lag), "replace_restore", app)

CaptureRestored ==
  /\ Returned("replace_restore")
  /\ Refuse(reply.op)

Continue ==
  \/ Applied \/ Started \/ Stopped
  \/ StartReplacement \/ ReplacementStarted
  \/ CleanReplacement \/ RestoreCapture \/ CaptureRestored

-----------------------------------------------------------------------------
Init ==
  /\ app = [lag |-> lagSettingsDefault, target |-> Untargeted, preset |-> EmptyPreset,
            preset_loaded |-> FALSE, active_step |-> 0, has_baseline |-> FALSE,
            baseline_ms |-> 0, step_result |-> Refused]
  /\ pc = "idle"
  /\ draft = app
  /\ reply = [op |-> "none", ok |-> FALSE]
  /\ B!Init

Next == Request \/ Continue \/ (B!Backend /\ UNCHANGED ownVars)

Spec == Init /\ [][Next]_vars

-----------------------------------------------------------------------------
Operations ==
  {"none", "set_target", "set_lag", "load", "unload", "select", "start", "stop", "shutdown",
   "replace"}

(* A resolved step, or the zeroes no one reads before a preset is loaded.  *)
StepResults ==
  {Refused} \cup [ok : {TRUE}, lag : LagSettings, below_baseline : BOOLEAN,
                  estimated_ping_ms : Nat]

AppControllers ==
  [lag : LagSettings, target : CaptureTarget, preset : PresetRecord, preset_loaded : BOOLEAN,
   active_step : Nat, has_baseline : BOOLEAN, baseline_ms : Nat, step_result : StepResults]

AppTyped(a) ==
  /\ a \in AppControllers
  /\ lagSettingsValidate(a.lag)
  /\ captureTargetValidate(a.target)

TypeOK ==
  /\ AppTyped(app)
  /\ AppTyped(draft)
  /\ pc \in {"idle", "apply", "start", "stop", "replace_stop", "replace_start",
             "replace_clean", "replace_restore"}
  /\ reply \in [op : Operations, ok : BOOLEAN]
  /\ engaged \in BOOLEAN
  /\ result \in BOOLEAN

Matches(a) == capture = B!Capturing(a.target, a.lag)

(* "This object holds accepted settings" (controller.h:20): between two    *)
(* operations a running capture is exactly the accepted one, whatever      *)
(* failed, was rolled back, or ended by itself on the way.                 *)
CaptureIsAccepted == pc = "idle" /\ capture.on => Matches(app)

(* In the middle of an operation a capture runs under the settings before  *)
(* it or those after it, never under a mixture of both.                    *)
CaptureIsOldOrNew == capture.on => Matches(app) \/ Matches(draft)

(* Cursor, settings and result of a loaded sequence move together          *)
(* (controller.c:74), also when a step is refused by the backend half way. *)
SequenceIsConsistent ==
  app.preset_loaded =>
    /\ app.step_result =
         presetResolve(app.preset, app.active_step, app.has_baseline, app.baseline_ms)
    /\ app.step_result.ok
    /\ app.lag = app.step_result.lag
    /\ app.target = app.preset.target

(* "A high target must not become a surprise failure several hotkey        *)
(* presses into a run" (controller.c:40): in a loaded sequence a hotkey is *)
(* refused by the backend or not at all.                                   *)
HotkeysNeverSurprise ==
  app.preset_loaded =>
    \A action \in {"reset", "next", "previous"} :
      presetResolve(app.preset, Moved(action), app.has_baseline, app.baseline_ms).ok

(* What captures between two operations, or would when started now.        *)
InForce ==
  IF pc = "idle" /\ capture.on THEN capture
  ELSE [target |-> app.target, lag |-> app.lag]

(* The ping a player is told to expect (core/preset.c:65) is the baseline  *)
(* plus the delays in force, flags and the odd millisecond included, and   *)
(* is exactly the target of the active step whenever that can be met:      *)
(* after any operations, refused steps and replacements that failed.       *)
EstimateIsReached ==
  app.preset_loaded /\ app.preset.mode = "target_ping" =>
    LET step == app.preset.steps[app.active_step + 1]
        expected == app.step_result.estimated_ping_ms
    IN  /\ expected =
             app.baseline_ms + Delay(InForce.lag, FALSE) + Delay(InForce.lag, TRUE)
        /\ step.kind = "target" =>
             expected = IF app.step_result.below_baseline THEN app.baseline_ms
                        ELSE step.target_ms

(* "The capture direction must include every direction being delayed"      *)
(* (core/preset.c:39): no step of a loaded sequence asks for a delay which *)
(* the selection in force keeps from happening.                            *)
DelayedIsCaptured ==
  app.preset_loaded =>
    /\ Delay(InForce.lag, FALSE) > 0 => InForce.target.direction # "outbound"
    /\ Delay(InForce.lag, TRUE) > 0 => InForce.target.direction # "inbound"

(* The backend's start leaves a running capture as it is and reports       *)
(* success; no operation calls it while one with other arguments runs.     *)
StartAdoptsItsArguments ==
  call.op = "start" /\ capture.on => capture = B!Capturing(call.target, call.lag)

(* A stop that was answered is final: no rollback, late start or retry     *)
(* brings capture back behind it.                                          *)
AnsweredStopIsFinal ==
  pc = "idle" /\ reply.op \in {"stop", "shutdown"} =>
    /\ ~capture.on
    /\ reply.op = "shutdown" => ~engaged
=============================================================================
