-------------------------- MODULE ControllerProofs --------------------------
(***************************************************************************)
(* The controller's safety properties for every set of presets, baselines, *)
(* selections and settings, over any backend that keeps its contract.      *)
(*                                                                         *)
(* Two inductive invariants: SequenceInv, on what is accepted or about to  *)
(* be, and CaptureInv, which says for each point at which an operation     *)
(* waits what the backend may be running and what it has been asked.       *)
(* They rest on what a resolved step promises, whatever the preset and the *)
(* baseline.                                                               *)
(***************************************************************************)
EXTENDS Controller, TLAPS

-----------------------------------------------------------------------------
(* What presetResolve returns.                                             *)

(* The extra ping of a step is a whole number of milliseconds, and halving *)
(* it loses none of it: the two directions of a policy carry all of it.    *)
LEMMA ExtraIsSplit ==
  ASSUME NEW p \in PresetRecord, NEW step \in PresetStep, NEW base \in Nat
  PROVE  /\ Extra(step, base) \in Nat
         /\ InboundMs(p, step, base) \in Nat
         /\ OutboundMs(p, step, base) \in Nat
         /\ p.mode = "target_ping" =>
              InboundMs(p, step, base) + OutboundMs(p, step, base)
                = Extra(step, base)
<1>1. /\ step.kind \in {"delay", "target", "lowest"} /\ step.target_ms \in Nat
      /\ step.inbound_ms \in Nat /\ step.outbound_ms \in Nat
      /\ p.policy \in {"inbound", "outbound", "both"}
      /\ p.mode \in {"added_delay", "target_ping"}
  BY DEF PresetRecord, PresetStep
<1>2. Extra(step, base) \in Nat
  BY <1>1 DEF Extra
<1>3. /\ Extra(step, base) \div 2 \in Nat
      /\ Extra(step, base) \div 2 <= Extra(step, base)
  BY <1>2
<1>4. InboundMs(p, step, base) \in Nat
  BY <1>1, <1>2, <1>3 DEF InboundMs
<1>5. OutboundMs(p, step, base) \in Nat
  BY <1>1, <1>2, <1>3 DEF OutboundMs
<1>6. p.mode = "target_ping" =>
        InboundMs(p, step, base) + OutboundMs(p, step, base) = Extra(step, base)
  BY <1>1, <1>2, <1>3 DEF InboundMs, OutboundMs
<1> QED BY <1>2, <1>4, <1>5, <1>6

(* A step that resolves: what was checked on the way, and what comes out.  *)
LEMMA ResolvedStep ==
  ASSUME NEW p \in PresetRecord, NEW i \in Nat, NEW has \in BOOLEAN, NEW base \in Nat,
         presetResolve(p, i, has, base).ok
  PROVE  LET step == p.steps[i + 1]
             outcome == presetResolve(p, i, has, base)
         IN  /\ presetValidate(p)
             /\ i + 1 \in 1 .. Len(p.steps)
             /\ step \in PresetStep
             /\ outcome.lag = StepLag(p, step, base)
             /\ lagSettingsValidate(outcome.lag)
             /\ outcome.below_baseline =
                  (p.mode = "target_ping" /\ step.kind = "target" /\ step.target_ms < base)
             /\ outcome.estimated_ping_ms =
                  IF p.mode = "target_ping" THEN base + Extra(step, base) ELSE 0
<1>1. /\ presetValidate(p)
      /\ i < Len(p.steps)
      /\ lagSettingsValidate(StepLag(p, p.steps[i + 1], base))
  BY DEF presetResolve, StepResolved, Refused
<1>2. p.steps \in Seq(PresetStep)
  BY DEF PresetRecord
<1>3. i + 1 \in 1 .. Len(p.steps)
  BY <1>1, <1>2
<1>4. p.steps[i + 1] \in PresetStep
  BY <1>2, <1>3
<1> QED BY <1>1, <1>3, <1>4 DEF presetResolve, StepResolved, Refused

(* The settings a step resolves to are typed and within the limits.        *)
LEMMA ResolvedIsTyped ==
  ASSUME NEW p \in PresetRecord, NEW i \in Nat, NEW has \in BOOLEAN, NEW base \in Nat,
         presetResolve(p, i, has, base).ok
  PROVE  /\ presetResolve(p, i, has, base) \in
              [ok : {TRUE}, lag : LagSettings, below_baseline : BOOLEAN, estimated_ping_ms : Nat]
         /\ lagSettingsValidate(presetResolve(p, i, has, base).lag)
<1> DEFINE step == p.steps[i + 1]
           outcome == presetResolve(p, i, has, base)
<1>1. /\ step \in PresetStep
      /\ lagSettingsValidate(StepLag(p, step, base))
      /\ outcome = [ok |-> TRUE,
                   lag |-> StepLag(p, step, base),
                   below_baseline |->
                     p.mode = "target_ping" /\ step.kind = "target" /\ step.target_ms < base,
                   estimated_ping_ms |->
                     IF p.mode = "target_ping" THEN base + Extra(step, base) ELSE 0]
  BY ResolvedStep DEF presetResolve, StepResolved, Refused
<1>2. StepLag(p, step, base) \in LagSettings
  BY <1>1, ExtraIsSplit DEF StepLag, LagSettings
<1>3. (IF p.mode = "target_ping" THEN base + Extra(step, base) ELSE 0) \in Nat
  BY <1>1, ExtraIsSplit
<1>4. outcome.lag = StepLag(p, step, base)
  BY <1>1
<1> HIDE DEF step
<1> QED BY <1>1, <1>2, <1>3, <1>4
(* The delay a direction is given by a resolved step: the number itself,   *)
(* since the flags that would silence it are only clear where it is 0.     *)
LEMMA FlagsFollowDelays ==
  ASSUME NEW p \in PresetRecord, NEW step \in PresetStep, NEW b \in Nat,
         StepValid(p, step)
  PROVE  /\ Delay(StepLag(p, step, b), FALSE) = InboundMs(p, step, b)
         /\ Delay(StepLag(p, step, b), TRUE) = OutboundMs(p, step, b)
<1>1. /\ InboundMs(p, step, b) \in Nat
      /\ OutboundMs(p, step, b) \in Nat
      /\ p.policy \in {"inbound", "outbound", "both"}
  BY ExtraIsSplit DEF PresetRecord
<1>2. p.policy = "outbound" => InboundMs(p, step, b) = 0
  <2>1. CASE p.mode = "added_delay"
    BY <2>1 DEF InboundMs, StepValid
  <2>2. CASE p.mode # "added_delay"
    BY <2>2 DEF InboundMs
  <2> QED BY <2>1, <2>2
<1>3. p.policy = "inbound" => OutboundMs(p, step, b) = 0
  <2>1. CASE p.mode = "added_delay"
    BY <2>1 DEF OutboundMs, StepValid
  <2>2. CASE p.mode # "added_delay"
    BY <2>2 DEF OutboundMs
  <2> QED BY <2>1, <2>2
<1> QED BY <1>1, <1>2, <1>3 DEF Delay, StepLag

-----------------------------------------------------------------------------
Labels ==
  {"idle", "apply", "start", "stop", "replace_stop", "replace_start", "replace_clean",
   "replace_restore"}

(* What holds of app, and of draft before it is committed.                 *)
Consistent(a) ==
  /\ AppTyped(a)
  /\ a.preset_loaded =>
       /\ a.active_step < Len(a.preset.steps)
       /\ \A i \in 0 .. Len(a.preset.steps) - 1 :
            presetResolve(a.preset, i, a.has_baseline, a.baseline_ms).ok
       /\ a.step_result = presetResolve(a.preset, a.active_step, a.has_baseline, a.baseline_ms)
       /\ a.lag = a.step_result.lag
       /\ a.target = a.preset.target

SequenceInv ==
  /\ Consistent(app)
  /\ Consistent(draft)
  /\ pc \in Labels
  /\ reply \in [op : Operations, ok : BOOLEAN]
  /\ result \in BOOLEAN
  /\ engaged \in BOOLEAN

-----------------------------------------------------------------------------
(* A preset whose whole sequence resolves may be loaded at any of its steps.*)
LEMMA LoadedIsConsistent ==
  ASSUME NEW p \in Presets, NEW b \in Baselines, NEW i \in Nat,
         Resolvable(p, b), presetResolve(p, i, b.has, b.ms).ok
  PROVE  Consistent(Loaded(p, b, i))
<1>1. p \in PresetRecord /\ b.has \in BOOLEAN /\ b.ms \in Nat
  BY ControllerAssumption
<1>2. /\ presetResolve(p, i, b.has, b.ms) \in
           [ok : {TRUE}, lag : LagSettings, below_baseline : BOOLEAN, estimated_ping_ms : Nat]
      /\ lagSettingsValidate(presetResolve(p, i, b.has, b.ms).lag)
  BY <1>1, ResolvedIsTyped
<1>3. i < Len(p.steps)
  BY <1>1 DEF presetResolve, Refused
<1>4. captureTargetValidate(p.target) /\ p.target \in CaptureTarget
  BY <1>1 DEF Resolvable, presetValidate, PresetRecord
<1>5. \A k \in 0 .. Len(p.steps) - 1 : presetResolve(p, k, b.has, b.ms).ok
  BY DEF Resolvable
<1>6. AppTyped(Loaded(p, b, i))
  BY <1>1, <1>2, <1>4 DEF AppTyped, Loaded, AppControllers, StepResults
<1> QED BY <1>3, <1>5, <1>6 DEF Consistent, Loaded

(* Stepping inside a loaded sequence keeps it consistent.                  *)
LEMMA SelectedIsConsistent ==
  ASSUME Consistent(app), app.preset_loaded, NEW i \in Nat,
         presetResolve(app.preset, i, app.has_baseline, app.baseline_ms).ok
  PROVE  LET chosen == presetResolve(app.preset, i, app.has_baseline, app.baseline_ms)
         IN  Consistent([app EXCEPT !.lag = chosen.lag, !.step_result = chosen,
                                    !.active_step = i])
<1> DEFINE chosen == presetResolve(app.preset, i, app.has_baseline, app.baseline_ms)
           new == [app EXCEPT !.lag = chosen.lag, !.step_result = chosen, !.active_step = i]
<1>1. /\ app \in AppControllers /\ app.preset \in PresetRecord
      /\ app.has_baseline \in BOOLEAN /\ app.baseline_ms \in Nat
      /\ captureTargetValidate(app.target)
  BY DEF Consistent, AppTyped, AppControllers
<1>2. /\ chosen \in
           [ok : {TRUE}, lag : LagSettings, below_baseline : BOOLEAN, estimated_ping_ms : Nat]
      /\ lagSettingsValidate(chosen.lag)
  BY <1>1, ResolvedIsTyped
<1>3. i < Len(app.preset.steps)
  BY DEF presetResolve, Refused
<1>4. /\ new.preset = app.preset /\ new.active_step = i /\ new.target = app.target
      /\ new.has_baseline = app.has_baseline /\ new.baseline_ms = app.baseline_ms
      /\ new.step_result = chosen /\ new.lag = chosen.lag
      /\ new \in AppControllers
  BY <1>1, <1>2 DEF AppControllers, StepResults
<1>5. AppTyped(new)
  BY <1>1, <1>2, <1>4 DEF AppTyped
<1>6. /\ \A k \in 0 .. Len(app.preset.steps) - 1 :
           presetResolve(app.preset, k, app.has_baseline, app.baseline_ms).ok
      /\ app.target = app.preset.target
  BY DEF Consistent
<1> HIDE DEF new
<1>7. /\ new.active_step < Len(new.preset.steps)
      /\ \A k \in 0 .. Len(new.preset.steps) - 1 :
           presetResolve(new.preset, k, new.has_baseline, new.baseline_ms).ok
      /\ new.step_result =
           presetResolve(new.preset, new.active_step, new.has_baseline, new.baseline_ms)
      /\ new.lag = new.step_result.lag
      /\ new.target = new.preset.target
  BY <1>3, <1>4, <1>6
<1>8. Consistent(new)
  BY <1>5, <1>7 DEF Consistent
<1> QED BY <1>8 DEF new

(* A change that unloads the sequence only has to be typed.                *)
LEMMA UnloadedIsConsistent ==
  ASSUME Consistent(app)
  PROVE  /\ Consistent([app EXCEPT !.preset_loaded = FALSE])
         /\ \A t \in Targets : captureTargetValidate(t) =>
              Consistent([app EXCEPT !.target = t, !.preset_loaded = FALSE])
         /\ \A l \in Settings : lagSettingsValidate(l) =>
              Consistent([app EXCEPT !.lag = l, !.preset_loaded = FALSE])
<1>1. /\ app \in AppControllers
      /\ lagSettingsValidate(app.lag) /\ captureTargetValidate(app.target)
  BY DEF Consistent, AppTyped
<1>2. Consistent([app EXCEPT !.preset_loaded = FALSE])
  BY <1>1 DEF Consistent, AppTyped, AppControllers
<1>3. ASSUME NEW t \in Targets, captureTargetValidate(t)
      PROVE  Consistent([app EXCEPT !.target = t, !.preset_loaded = FALSE])
  <2>1. t \in CaptureTarget
    BY ControllerAssumption
  <2> QED BY <1>1, <1>3, <2>1 DEF Consistent, AppTyped, AppControllers
<1>4. ASSUME NEW l \in Settings, lagSettingsValidate(l)
      PROVE  Consistent([app EXCEPT !.lag = l, !.preset_loaded = FALSE])
  <2>1. l \in LagSettings
    BY ControllerAssumption
  <2> QED BY <1>1, <1>4, <2>1 DEF Consistent, AppTyped, AppControllers
<1> QED BY <1>2, <1>3, <1>4

(* A hotkey leads to a step of the sequence.                               *)
LEMMA MovedIsAStep ==
  ASSUME Consistent(app), app.preset_loaded, NEW action \in {"reset", "next", "previous"}
  PROVE  Moved(action) \in 0 .. Len(app.preset.steps) - 1
<1>1. /\ app.active_step \in Nat
      /\ app.active_step < Len(app.preset.steps)
      /\ app.preset.steps \in Seq(PresetStep)
  BY DEF Consistent, AppTyped, AppControllers, PresetRecord
<1>2. Len(app.preset.steps) \in Nat
  BY <1>1
<1>3. CASE action = "reset"
  BY <1>1, <1>2, <1>3 DEF Moved
<1>4. CASE action = "next"
  BY <1>1, <1>2, <1>4 DEF Moved
<1>5. CASE action = "previous"
  BY <1>1, <1>2, <1>5 DEF Moved
<1> QED BY <1>3, <1>4, <1>5

-----------------------------------------------------------------------------
(* The ways an operation ends or goes on, given consistent new values.     *)
LEMMA EndingsKeepSequence ==
  ASSUME SequenceInv, NEW op \in Operations, NEW new, Consistent(new)
  PROVE  /\ Refuse(op) => SequenceInv'
         /\ Commit(op, new) => SequenceInv'
         /\ \A c, label : label \in Labels /\ Ask(op, c, label, new) => SequenceInv'
         /\ ApplyThenCommit(op, new) => SequenceInv'
<1>1. Refuse(op) => SequenceInv'
  BY DEF SequenceInv, Refuse, Answer, backendVars, Labels, Consistent, AppTyped
<1>2. Commit(op, new) => SequenceInv'
  BY DEF SequenceInv, Commit, Answer, backendVars, Labels, Consistent, AppTyped
<1>3. ASSUME NEW c, NEW label \in Labels, Ask(op, c, label, new)
      PROVE  SequenceInv'
  BY <1>3 DEF SequenceInv, Ask, B!Issue, Consistent, AppTyped
<1>4. ApplyThenCommit(op, new) => SequenceInv'
  BY <1>2, <1>3 DEF ApplyThenCommit, Labels
<1> QED BY <1>1, <1>2, <1>3, <1>4

LEMMA RequestKeepsSequence ==
  ASSUME SequenceInv, Request
  PROVE  SequenceInv'
<1> USE DEF Operations, Labels
<1>1. Consistent(app) /\ Consistent(draft)
  BY DEF SequenceInv
<1>2. ASSUME NEW t \in Targets, SetTarget(t) PROVE SequenceInv'
  <2>1. CASE capture.on \/ ~captureTargetValidate(t)
    BY <1>1, <1>2, <2>1, EndingsKeepSequence DEF SetTarget
  <2>2. CASE ~(capture.on \/ ~captureTargetValidate(t))
    <3>1. Consistent([app EXCEPT !.target = t, !.preset_loaded = FALSE])
      BY <1>1, <2>2, UnloadedIsConsistent
    <3> QED BY <1>2, <2>2, <3>1, EndingsKeepSequence DEF SetTarget
  <2> QED BY <2>1, <2>2
<1>3. ASSUME NEW l \in Settings, SetLag(l) PROVE SequenceInv'
  <2>1. CASE ~lagSettingsValidate(l)
    BY <1>1, <1>3, <2>1, EndingsKeepSequence DEF SetLag
  <2>2. CASE lagSettingsValidate(l)
    <3>1. Consistent([app EXCEPT !.lag = l, !.preset_loaded = FALSE])
      BY <1>1, <2>2, UnloadedIsConsistent
    <3> QED BY <1>3, <2>2, <3>1, EndingsKeepSequence DEF SetLag
  <2> QED BY <2>1, <2>2
<1>4. ASSUME NEW p \in Presets, NEW b \in Baselines, LoadPreset(p, b) PROVE SequenceInv'
  <2>1. CASE ~(Resolvable(p, b) /\ (capture.on => app.target = p.target))
    BY <1>1, <1>4, <2>1, EndingsKeepSequence DEF LoadPreset
  <2>2. CASE Resolvable(p, b) /\ (capture.on => app.target = p.target)
    <3>1. p.steps \in Seq(PresetStep) /\ Len(p.steps) >= 1
      BY <2>2, ControllerAssumption, PresetAssumption DEF Resolvable, presetValidate, PresetRecord
    <3>2. presetResolve(p, 0, b.has, b.ms).ok
      BY <2>2, <3>1 DEF Resolvable
    <3>3. Consistent(Loaded(p, b, 0))
      BY <2>2, <3>2, LoadedIsConsistent
    <3> QED BY <1>4, <2>2, <3>3, EndingsKeepSequence DEF LoadPreset
  <2> QED BY <2>1, <2>2
<1>5. UnloadPreset => SequenceInv'
  <2>1. Consistent([app EXCEPT !.preset_loaded = FALSE])
    BY <1>1, UnloadedIsConsistent
  <2> QED BY <2>1, EndingsKeepSequence DEF UnloadPreset
<1>6. ASSUME NEW i \in Nat, SelectStep(i) PROVE SequenceInv'
  <2> DEFINE chosen == presetResolve(app.preset, i, app.has_baseline, app.baseline_ms)
             new == [app EXCEPT !.lag = chosen.lag, !.step_result = chosen,
                                !.active_step = i]
  <2>1. CASE ~(app.preset_loaded /\ chosen.ok)
    <3>1. Refuse("select")
      BY <1>6, <2>1 DEF SelectStep
    <3> QED BY <1>1, <3>1, EndingsKeepSequence
  <2>2. CASE app.preset_loaded /\ chosen.ok
    <3>1. Consistent(new)
      BY <1>1, <2>2, SelectedIsConsistent
    <3>2. ApplyThenCommit("select", new)
      BY <1>6, <2>2 DEF SelectStep
    <3> HIDE DEF new
    <3> QED BY <3>1, <3>2, EndingsKeepSequence
  <2> QED BY <2>1, <2>2
<1>7. ASSUME NEW action \in {"reset", "next", "previous"}, MoveStep(action)
      PROVE  SequenceInv'
  <2>1. CASE app.preset_loaded
    <3>1. Moved(action) \in Nat
      <4>1. Moved(action) \in 0 .. Len(app.preset.steps) - 1
        BY <1>1, <2>1, MovedIsAStep
      <4> QED BY <4>1
    <3> QED BY <1>6, <1>7, <2>1, <3>1 DEF MoveStep
  <2>2. CASE ~app.preset_loaded
    BY <1>1, <1>7, <2>2, EndingsKeepSequence DEF MoveStep
  <2> QED BY <2>1, <2>2
<1>8. StartCapture \/ StopCapture \/ ToggleCapture \/ Shutdown => SequenceInv'
  BY <1>1, EndingsKeepSequence DEF StartCapture, StopCapture, ToggleCapture, Shutdown
<1>9. ASSUME NEW p \in Presets, NEW b \in Baselines, NEW i \in Nat, ReplacePreset(p, b, i)
      PROVE  SequenceInv'
  <2>1. CASE ~(Resolvable(p, b) /\ presetResolve(p, i, b.has, b.ms).ok)
    BY <1>1, <1>9, <2>1, EndingsKeepSequence DEF ReplacePreset
  <2>2. CASE Resolvable(p, b) /\ presetResolve(p, i, b.has, b.ms).ok
    <3>1. Consistent(Loaded(p, b, i))
      BY <2>2, LoadedIsConsistent
    <3> QED BY <1>9, <2>2, <3>1, EndingsKeepSequence DEF ReplacePreset
  <2> QED BY <2>1, <2>2
<1>10. 0 .. PresetMaxSteps \subseteq Nat
  BY PresetAssumption
<1> QED BY <1>2, <1>3, <1>4, <1>5, <1>6, <1>7, <1>8, <1>9, <1>10 DEF Request

LEMMA ContinueKeepsSequence ==
  ASSUME SequenceInv, Continue
  PROVE  SequenceInv'
<1>1. Consistent(app) /\ Consistent(draft) /\ reply.op \in Operations
  BY DEF SequenceInv
<1>2. CASE Applied
  <2>1. CASE result
    BY <1>1, <1>2, <2>1, EndingsKeepSequence DEF Applied
  <2>2. CASE ~result
    <3>1. /\ app' = app /\ draft' = app
          /\ pc' = "idle" /\ reply' = [op |-> reply.op, ok |-> FALSE]
          /\ UNCHANGED <<engaged, result>>
      BY <1>2, <2>2 DEF Applied, Answer, backendVars
    <3>2. Consistent(app') /\ Consistent(draft')
      BY <1>1, <3>1
    <3> QED BY <1>1, <3>1, <3>2 DEF SequenceInv, Labels, Consistent, AppTyped
  <2> QED BY <2>1, <2>2
<1>3. CASE Started
  BY <1>1, <1>3 DEF Started, Returned, Answer, backendVars, SequenceInv, Labels, Consistent, AppTyped
<1>4. CASE Stopped
  BY <1>1, <1>4 DEF Stopped, Returned, Answer, backendVars, SequenceInv, Labels, Consistent, AppTyped
<1>5. CASE StartReplacement
  BY <1>1, <1>5, EndingsKeepSequence DEF StartReplacement, Labels
<1>6. CASE ReplacementStarted
  BY <1>1, <1>6, EndingsKeepSequence DEF ReplacementStarted
<1>7. CASE CleanReplacement
  BY <1>1, <1>7, EndingsKeepSequence DEF CleanReplacement, Labels
<1>8. CASE RestoreCapture
  BY <1>1, <1>8, EndingsKeepSequence DEF RestoreCapture, Labels
<1>9. CASE CaptureRestored
  BY <1>1, <1>9, EndingsKeepSequence DEF CaptureRestored
<1> QED BY <1>2, <1>3, <1>4, <1>5, <1>6, <1>7, <1>8, <1>9 DEF Continue

-----------------------------------------------------------------------------
(* The backend has returned from a call, or has still to.                  *)
Calling(c) == call = c \/ call = B!NoCall
RunsAtMost(a) == capture.on => Matches(a)

(* What may be running, and what has been asked for, at each point.        *)
AtIdle == call = B!NoCall /\ draft = app /\ RunsAtMost(app)

AtApply ==
  /\ draft.target = app.target
  /\ \/ call = B!ApplyCall(draft.lag) /\ RunsAtMost(app)
     \/ call = B!NoCall /\ result /\ RunsAtMost(draft)
     \/ call = B!NoCall /\ ~result /\ RunsAtMost(app)

AtStart == draft = app /\ Calling(B!StartCall(app.target, app.lag)) /\ RunsAtMost(app)

AtStop ==
  \/ call = B!StopCall /\ RunsAtMost(app)
  \/ call = B!NoCall /\ ~capture.on /\ ~engaged

AtReplaceStart ==
  /\ RunsAtMost(draft)
  /\ \/ call = B!StartCall(draft.target, draft.lag)
     \/ call = B!NoCall /\ (result \/ ~capture.on)

AtReplaceClean == draft = app /\ Calling(B!StopCall) /\ ~capture.on

CaptureInv ==
  /\ capture.on \in BOOLEAN
  /\ pc = "idle" => AtIdle
  /\ pc = "apply" => AtApply
  /\ pc = "start" => AtStart
  /\ pc = "stop" => AtStop /\ draft = app
  /\ pc = "replace_stop" => AtStop
  /\ pc = "replace_start" => AtReplaceStart
  /\ pc = "replace_clean" => AtReplaceClean
  /\ pc = "replace_restore" => AtStart
  /\ pc \notin {"idle", "stop"} => reply.op \notin {"stop", "shutdown"}
  /\ AnsweredStopIsFinal

LEMMA BackendKeepsCapture ==
  ASSUME CaptureInv, pc \in Labels, B!Backend, UNCHANGED ownVars
  PROVE  CaptureInv'
<1> USE DEF CaptureInv, AtIdle, AtApply, AtStart, AtStop, AtReplaceStart, AtReplaceClean,
            Calling, RunsAtMost, Matches, Labels, ownVars, AnsweredStopIsFinal,
            B!StartCall, B!ApplyCall, B!StopCall, B!NoCall, B!Capturing, B!Stopped
<1>1. CASE B!Engage
  BY <1>1 DEF B!Engage
<1>2. CASE B!Begin
  <2>1. /\ call.op = "start" /\ ~capture.on
        /\ capture' = [on |-> TRUE, target |-> call.target, lag |-> call.lag]
        /\ UNCHANGED <<call, result, engaged, app, draft, pc, reply>>
    BY <1>2 DEF B!Begin
  <2>2. capture'.on \in BOOLEAN
    BY <2>1
  <2>3. pc \in {"start", "replace_start", "replace_restore"}
    BY <2>1
  <2>4. CASE pc \in {"start", "replace_restore"}
    <3>1. call = [op |-> "start", target |-> app.target, lag |-> app.lag]
      BY <2>1, <2>4
    <3>2. capture' = [on |-> TRUE, target |-> app.target, lag |-> app.lag]
      BY <2>1, <3>1
    <3> QED BY <2>1, <2>2, <2>4, <3>2
  <2>5. CASE pc = "replace_start"
    <3>1. call = [op |-> "start", target |-> draft.target, lag |-> draft.lag]
      BY <2>1, <2>5
    <3>2. capture' = [on |-> TRUE, target |-> draft.target, lag |-> draft.lag]
      BY <2>1, <3>1
    <3> QED BY <2>1, <2>2, <2>5, <3>1, <3>2
  <2> QED BY <2>3, <2>4, <2>5
<1>3. CASE B!End
  BY <1>3 DEF B!End
<1>4. CASE B!Disengage
  BY <1>4 DEF B!Disengage
<1>5. ASSUME NEW ok \in BOOLEAN, B!ReturnStart(ok) PROVE CaptureInv'
  BY <1>5 DEF B!ReturnStart, B!Finish
<1>6. ASSUME NEW ok \in BOOLEAN, B!ReturnApply(ok) PROVE CaptureInv'
  <2>1. /\ call.op = "apply"
        /\ call' = [op |-> "none"] /\ result' = ok
        /\ UNCHANGED <<engaged, app, draft, pc, reply>>
    BY <1>6 DEF B!ReturnApply, B!Finish
  <2>2. pc = "apply"
    BY <2>1
  <2>3. call = [op |-> "apply", lag |-> draft.lag] /\ RunsAtMost(app) /\ draft.target = app.target
    BY <2>1, <2>2
  <2>4. CASE ok
    <3>1. capture.on /\ capture' = [on |-> TRUE, target |-> capture.target, lag |-> call.lag]
      BY <1>6, <2>4 DEF B!ReturnApply
    <3>2. capture' = [on |-> TRUE, target |-> draft.target, lag |-> draft.lag]
      <4>1. capture = [on |-> TRUE, target |-> app.target, lag |-> app.lag]
        BY <2>3, <3>1
      <4>2. capture.target = draft.target
        BY <2>3, <4>1
      <4>3. call.lag = draft.lag
        BY <2>3
      <4> QED BY <3>1, <4>2, <4>3
    <3>3. capture'.on \in BOOLEAN
      BY <3>2
    <3>4. capture' = [on |-> TRUE, target |-> draft'.target, lag |-> draft'.lag]
      BY <2>1, <3>2
    <3>5. AtApply'
      BY <2>1, <2>3, <2>4, <3>4
    <3>6. pc' = "apply" /\ reply' = reply /\ reply.op \notin {"stop", "shutdown"}
      BY <2>1, <2>2
    <3> HIDE DEF AtApply
    <3> QED BY <3>3, <3>5, <3>6
  <2>5. CASE ~ok
    <3>1. capture' = capture
      BY <1>6, <2>5 DEF B!ReturnApply
    <3> QED BY <2>1, <2>2, <2>3, <2>5, <3>1
  <2> QED BY <2>4, <2>5
<1>7. CASE B!ReturnStop
  BY <1>7 DEF B!ReturnStop, B!Finish
<1> QED BY <1>1, <1>2, <1>3, <1>4, <1>5, <1>6, <1>7 DEF B!Backend

(* An operation that ends where it began, one that commits, and one that   *)
(* calls the backend.                                                      *)
LEMMA RequestKeepsCapture ==
  ASSUME SequenceInv, CaptureInv, Request
  PROVE  CaptureInv'
<1> USE DEF CaptureInv, AtIdle, AtApply, AtStart, AtStop, AtReplaceStart, AtReplaceClean,
            Calling, RunsAtMost, Matches, AnsweredStopIsFinal, backendVars, Answer
<1>1. /\ pc = "idle" /\ call = B!NoCall /\ draft = app /\ RunsAtMost(app)
      /\ capture.on \in BOOLEAN
  BY DEF Request
<1>2. ASSUME NEW op, op \notin {"stop", "shutdown"}, Refuse(op) PROVE CaptureInv'
  BY <1>1, <1>2 DEF Refuse
<1>3. ASSUME NEW op, NEW new, op \notin {"stop", "shutdown"}, Commit(op, new),
             capture.on => Matches(new)
      PROVE  CaptureInv'
  BY <1>1, <1>3 DEF Commit
<1>4. ASSUME NEW op, NEW new, op \notin {"stop", "shutdown"},
             Ask(op, B!ApplyCall(new.lag), "apply", new), new.target = app.target
      PROVE  CaptureInv'
  BY <1>1, <1>4 DEF Ask, B!Issue
<1>5. ASSUME NEW op, NEW new, op \notin {"stop", "shutdown"}, ApplyThenCommit(op, new),
             capture.on => new.target = app.target
      PROVE  CaptureInv'
  <2>1. CASE capture.on
    BY <1>4, <1>5, <2>1 DEF ApplyThenCommit
  <2>2. CASE ~capture.on
    BY <1>3, <1>5, <2>2 DEF ApplyThenCommit
  <2> QED BY <1>1, <2>1, <2>2
<1>6. app \in AppControllers
  BY DEF SequenceInv, Consistent, AppTyped
<1>7. ASSUME NEW t \in Targets, SetTarget(t) PROVE CaptureInv'
  BY <1>1, <1>2, <1>3, <1>7 DEF SetTarget
<1>8. ASSUME NEW l \in Settings, SetLag(l) PROVE CaptureInv'
  <2>1. [app EXCEPT !.lag = l, !.preset_loaded = FALSE].target = app.target
    BY <1>6 DEF AppControllers
  <2> QED BY <1>2, <1>5, <1>8, <2>1 DEF SetLag
<1>9. ASSUME NEW p \in Presets, NEW b \in Baselines, LoadPreset(p, b) PROVE CaptureInv'
  BY <1>2, <1>5, <1>9 DEF LoadPreset, Loaded
<1>10. UnloadPreset => CaptureInv'
  <2> DEFINE new == [app EXCEPT !.preset_loaded = FALSE]
  <2>1. new.target = app.target /\ new.lag = app.lag
    BY <1>6 DEF AppControllers
  <2>2. UnloadPreset => Commit("unload", new)
    BY DEF UnloadPreset
  <2> HIDE DEF new
  <2>3. capture.on => Matches(new)
    BY <1>1, <2>1
  <2>4. "unload" \notin {"stop", "shutdown"}
    OBVIOUS
  <2> QED BY <1>3, <2>2, <2>3, <2>4, Zenon
<1>11. ASSUME NEW i \in Nat, SelectStep(i) PROVE CaptureInv'
  <2> DEFINE chosen == presetResolve(app.preset, i, app.has_baseline, app.baseline_ms)
             new == [app EXCEPT !.lag = chosen.lag, !.step_result = chosen,
                                !.active_step = i]
  <2>1. new.target = app.target
    BY <1>6 DEF AppControllers
  <2>2. Refuse("select") \/ ApplyThenCommit("select", new)
    BY <1>11 DEF SelectStep
  <2> HIDE DEF new
  <2> QED BY <1>2, <1>5, <2>1, <2>2
<1>12. ASSUME NEW action \in {"reset", "next", "previous"}, MoveStep(action)
       PROVE  CaptureInv'
  <2>1. CASE app.preset_loaded
    <3>1. Consistent(app)
      BY DEF SequenceInv
    <3>2. Moved(action) \in Nat
      <4>1. Moved(action) \in 0 .. Len(app.preset.steps) - 1
        BY <1>12, <2>1, <3>1, MovedIsAStep
      <4> QED BY <4>1
    <3> QED BY <1>11, <1>12, <2>1, <3>2 DEF MoveStep
  <2>2. CASE ~app.preset_loaded
    BY <1>2, <1>12, <2>2 DEF MoveStep
  <2> QED BY <2>1, <2>2
<1>13. StartCapture => CaptureInv'
  <2>1. ASSUME Ask("start", B!StartCall(app.target, app.lag), "start", app)
        PROVE  CaptureInv'
    BY <1>1, <2>1 DEF Ask, B!Issue
  <2>2. Commit("start", app) => CaptureInv'
    BY <1>1, <1>3
  <2> QED BY <2>1, <2>2 DEF StartCapture
<1>14. StopCapture => CaptureInv'
  <2>1. ASSUME Ask("stop", B!StopCall, "stop", app) PROVE CaptureInv'
    BY <1>1, <2>1 DEF Ask, B!Issue
  <2>2. ASSUME Commit("stop", app), ~capture.on PROVE CaptureInv'
    BY <1>1, <2>2 DEF Commit
  <2> QED BY <2>1, <2>2 DEF StopCapture
<1>15. ToggleCapture => CaptureInv'
  BY <1>13, <1>14 DEF ToggleCapture
<1>16. ASSUME Shutdown PROVE CaptureInv'
  BY <1>1, <1>16 DEF Shutdown, Ask, B!Issue
<1>17. ASSUME NEW p \in Presets, NEW b \in Baselines, NEW i \in Nat, ReplacePreset(p, b, i)
       PROVE  CaptureInv'
  <2>1. ASSUME Ask("replace", B!StopCall, "replace_stop", Loaded(p, b, i))
        PROVE  CaptureInv'
    BY <1>1, <2>1 DEF Ask, B!Issue
  <2>2. Loaded(p, b, i).target = p.target
    BY DEF Loaded
  <2> QED BY <1>2, <1>5, <1>17, <2>1, <2>2 DEF ReplacePreset
<1>18. 0 .. PresetMaxSteps \subseteq Nat
  BY PresetAssumption
<1> QED BY <1>7, <1>8, <1>9, <1>10, <1>11, <1>12, <1>13, <1>14, <1>15, <1>16, <1>17, <1>18
        DEF Request

LEMMA ContinueKeepsCapture ==
  ASSUME SequenceInv, CaptureInv, Continue
  PROVE  CaptureInv'
<1> USE DEF CaptureInv, AtIdle, AtApply, AtStart, AtStop, AtReplaceStart, AtReplaceClean,
            Calling, RunsAtMost, Matches, AnsweredStopIsFinal, backendVars, Answer, Returned,
            B!NoCall, B!StopCall, B!StartCall, B!ApplyCall
<1>1. CASE Applied
  BY <1>1 DEF Applied, Commit
<1>2. CASE Started
  BY <1>2 DEF Started
<1>3. CASE Stopped
  BY <1>3 DEF Stopped
<1>4. CASE StartReplacement
  BY <1>4 DEF StartReplacement, Ask, B!Issue
<1>5. CASE ReplacementStarted
  BY <1>5 DEF ReplacementStarted, Commit
<1>6. CASE CleanReplacement
  BY <1>6 DEF CleanReplacement, Ask, B!Issue
<1>7. CASE RestoreCapture
  BY <1>7 DEF RestoreCapture, Ask, B!Issue
<1>8. CASE CaptureRestored
  BY <1>8 DEF CaptureRestored, Refuse
<1> QED BY <1>1, <1>2, <1>3, <1>4, <1>5, <1>6, <1>7, <1>8 DEF Continue

-----------------------------------------------------------------------------
LEMMA InvariantsStart == Init => SequenceInv /\ CaptureInv
<1> SUFFICES ASSUME Init PROVE SequenceInv /\ CaptureInv
  OBVIOUS
<1>1. /\ pc = "idle" /\ draft = app /\ app.preset_loaded = FALSE
      /\ reply = [op |-> "none", ok |-> FALSE]
      /\ capture = [on |-> FALSE] /\ engaged = FALSE /\ call = B!NoCall /\ result = TRUE
  BY DEF Init, B!Init, B!Stopped
<1>2. EmptyPreset \in PresetRecord
  <2>1. Untargeted \in CaptureTarget
    BY DEF Untargeted, CaptureTarget
  <2>2. << >> \in Seq(PresetStep)
    OBVIOUS
  <2> QED BY <2>1, <2>2 DEF EmptyPreset, PresetRecord
<1>3. lagSettingsDefault \in LagSettings /\ lagSettingsValidate(lagSettingsDefault)
  BY LagLimitsAssumption DEF lagSettingsDefault, LagSettings, lagSettingsValidate
<1>4. Untargeted \in CaptureTarget /\ captureTargetValidate(Untargeted)
  BY DEF Untargeted, CaptureTarget, captureTargetValidate
<1>5. AppTyped(app)
  <2>1. app = [lag |-> lagSettingsDefault, target |-> Untargeted, preset |-> EmptyPreset,
               preset_loaded |-> FALSE, active_step |-> 0, has_baseline |-> FALSE,
               baseline_ms |-> 0, step_result |-> Refused]
    BY DEF Init
  <2>2. app \in AppControllers
    BY <1>2, <1>3, <1>4, <2>1 DEF AppControllers, StepResults
  <2> QED BY <1>3, <1>4, <2>1, <2>2 DEF AppTyped
<1>6. SequenceInv
  BY <1>1, <1>5 DEF SequenceInv, Consistent, Labels, Operations
<1>7. CaptureInv
  BY <1>1 DEF CaptureInv, AtIdle, RunsAtMost, Matches, AnsweredStopIsFinal
<1> QED BY <1>6, <1>7

LEMMA InvariantsHold == Spec => [](SequenceInv /\ CaptureInv)
<1>1. SequenceInv /\ CaptureInv /\ [Next]_vars => (SequenceInv /\ CaptureInv)'
  <2> SUFFICES ASSUME SequenceInv, CaptureInv, [Next]_vars
               PROVE  SequenceInv' /\ CaptureInv'
    OBVIOUS
  <2>1. CASE Request
    BY <2>1, RequestKeepsSequence, RequestKeepsCapture
  <2>2. CASE Continue
    BY <2>2, ContinueKeepsSequence, ContinueKeepsCapture
  <2>3. CASE B!Backend /\ UNCHANGED ownVars
    <3>1. pc \in Labels
      BY DEF SequenceInv
    <3>2. CaptureInv'
      BY <2>3, <3>1, BackendKeepsCapture
    <3>3. result' \in BOOLEAN /\ engaged' \in BOOLEAN
      BY <2>3 DEF SequenceInv, B!Backend, B!Engage, B!Begin, B!End, B!Disengage,
                  B!ReturnStart, B!ReturnApply, B!ReturnStop, B!Finish
    <3>4. SequenceInv'
      BY <2>3, <3>3 DEF SequenceInv, Consistent, AppTyped, ownVars, Labels
    <3> QED BY <3>2, <3>4
  <2>4. CASE UNCHANGED vars
    BY <2>4 DEF vars, ownVars, backendVars, SequenceInv, Consistent, AppTyped, Labels,
                CaptureInv, AtIdle, AtApply, AtStart, AtStop, AtReplaceStart, AtReplaceClean,
                Calling, RunsAtMost, Matches, AnsweredStopIsFinal
  <2> QED BY <2>1, <2>2, <2>3, <2>4 DEF Next
<1> QED BY <1>1, InvariantsStart, PTL DEF Spec

(* The active step of a loaded sequence, and what it resolved to.          *)
LEMMA ActiveStep ==
  ASSUME SequenceInv, app.preset_loaded
  PROVE  /\ app.preset \in PresetRecord
         /\ app.active_step \in Nat
         /\ app.has_baseline \in BOOLEAN
         /\ app.baseline_ms \in Nat
         /\ app.step_result = presetResolve(app.preset, app.active_step,
                                            app.has_baseline, app.baseline_ms)
         /\ app.step_result.ok
         /\ app.lag = app.step_result.lag
         /\ app.target = app.preset.target
<1>1. /\ app.active_step \in 0 .. Len(app.preset.steps) - 1
      /\ app.preset \in PresetRecord /\ app.active_step \in Nat
      /\ app.has_baseline \in BOOLEAN /\ app.baseline_ms \in Nat
  BY DEF SequenceInv, Consistent, AppTyped, AppControllers, PresetRecord
<1> QED BY <1>1 DEF SequenceInv, Consistent

(* Everything the controller keeps stays typed and valid.                  *)
THEOREM TypeCorrect == Spec => []TypeOK
<1>1. SequenceInv => TypeOK
  BY DEF SequenceInv, Consistent, TypeOK, Labels
<1> QED BY <1>1, InvariantsHold, PTL

(* Between two operations a running capture is the accepted one, for any   *)
(* backend that keeps its contract (controller.h:20).                      *)
THEOREM CaptureIsAcceptedHolds == Spec => []CaptureIsAccepted
<1>1. CaptureInv => CaptureIsAccepted
  BY DEF CaptureInv, AtIdle, RunsAtMost, CaptureIsAccepted
<1> QED BY <1>1, InvariantsHold, PTL

(* During an operation capture runs under the old settings or the new.     *)
THEOREM CaptureIsOldOrNewHolds == Spec => []CaptureIsOldOrNew
<1>1. SequenceInv /\ CaptureInv => CaptureIsOldOrNew
  BY DEF SequenceInv, Labels, CaptureInv, AtIdle, AtApply, AtStart, AtStop, AtReplaceStart,
         AtReplaceClean, RunsAtMost, CaptureIsOldOrNew
<1> QED BY <1>1, InvariantsHold, PTL

(* Cursor, settings and result of a loaded sequence belong together        *)
(* (controller.c:74).                                                      *)
THEOREM SequenceIsConsistentHolds == Spec => []SequenceIsConsistent
<1>1. SequenceInv => SequenceIsConsistent
  BY ActiveStep DEF SequenceIsConsistent
<1> QED BY <1>1, InvariantsHold, PTL

(* No hotkey of a loaded sequence leads to a step that does not resolve    *)
(* (controller.c:40).                                                      *)
THEOREM HotkeysNeverSurpriseHolds == Spec => []HotkeysNeverSurprise
<1>1. SequenceInv => HotkeysNeverSurprise
  BY MovedIsAStep DEF SequenceInv, Consistent, HotkeysNeverSurprise
<1> QED BY <1>1, InvariantsHold, PTL

(* Start is only called when a capture found running is the one asked for. *)
THEOREM StartAdoptsHolds == Spec => []StartAdoptsItsArguments
<1>1. SequenceInv /\ CaptureInv => StartAdoptsItsArguments
  BY DEF SequenceInv, Labels, CaptureInv, AtIdle, AtApply, AtStart, AtStop, AtReplaceStart,
         AtReplaceClean, Calling, RunsAtMost, Matches, StartAdoptsItsArguments,
         B!NoCall, B!StopCall, B!StartCall, B!ApplyCall, B!Capturing
<1> QED BY <1>1, InvariantsHold, PTL

(* Nothing brings capture back behind an answered stop.                    *)
THEOREM AnsweredStopHolds == Spec => []AnsweredStopIsFinal
<1>1. CaptureInv => AnsweredStopIsFinal
  BY DEF CaptureInv
<1> QED BY <1>1, InvariantsHold, PTL

-----------------------------------------------------------------------------
(* What the player is told of a loaded sequence.                           *)

(* Between two operations what captures is what was accepted.              *)
LEMMA InForceIsAccepted ==
  ASSUME CaptureInv
  PROVE  InForce.lag = app.lag /\ InForce.target = app.target
<1>1. CASE pc = "idle" /\ capture.on
  <2>1. capture = B!Capturing(app.target, app.lag)
    BY <1>1 DEF CaptureInv, AtIdle, RunsAtMost, Matches
  <2> QED BY <1>1, <2>1 DEF InForce, B!Capturing
<1>2. CASE ~(pc = "idle" /\ capture.on)
  BY <1>2 DEF InForce
<1> QED BY <1>1, <1>2

(* The ping a player is told to expect is the one the settings in force    *)
(* produce (core/preset.c:65-86), and the target whenever it can be met.   *)
THEOREM EstimateHolds == Spec => []EstimateIsReached
<1> DEFINE step == app.preset.steps[app.active_step + 1]
           base == app.baseline_ms
           expected == app.step_result.estimated_ping_ms
<1>1. SequenceInv /\ CaptureInv => EstimateIsReached
  <2> SUFFICES ASSUME SequenceInv, CaptureInv,
                      app.preset_loaded, app.preset.mode = "target_ping"
               PROVE  /\ expected =
                           base + Delay(InForce.lag, FALSE) + Delay(InForce.lag, TRUE)
                      /\ step.kind = "target" =>
                           expected = IF app.step_result.below_baseline THEN base
                                      ELSE step.target_ms
    BY DEF EstimateIsReached
  <2>1. /\ app.preset \in PresetRecord /\ app.active_step \in Nat
        /\ app.has_baseline \in BOOLEAN /\ base \in Nat
        /\ app.step_result = presetResolve(app.preset, app.active_step, app.has_baseline, base)
        /\ app.step_result.ok
        /\ app.lag = app.step_result.lag
    BY ActiveStep
  <2>2. /\ presetValidate(app.preset)
        /\ app.active_step + 1 \in 1 .. Len(app.preset.steps)
        /\ step \in PresetStep
        /\ app.lag = StepLag(app.preset, step, base)
        /\ app.step_result.below_baseline =
             (app.preset.mode = "target_ping" /\ step.kind = "target" /\ step.target_ms < base)
        /\ expected = base + Extra(step, base)
    BY <2>1, ResolvedStep
  <2>3. StepValid(app.preset, step)
    BY <2>2 DEF presetValidate
  <2>4. /\ Extra(step, base) \in Nat
        /\ InboundMs(app.preset, step, base) \in Nat
        /\ OutboundMs(app.preset, step, base) \in Nat
        /\ InboundMs(app.preset, step, base) + OutboundMs(app.preset, step, base)
             = Extra(step, base)
    BY <2>1, <2>2, ExtraIsSplit
  <2>5. /\ Delay(InForce.lag, FALSE) = InboundMs(app.preset, step, base)
        /\ Delay(InForce.lag, TRUE) = OutboundMs(app.preset, step, base)
    <3>1. InForce.lag = StepLag(app.preset, step, base)
      BY <2>2, InForceIsAccepted
    <3> HIDE DEF step, base
    <3> QED BY <2>1, <2>2, <2>3, <3>1, FlagsFollowDelays
  <2> HIDE DEF step, base, expected
  <2>6. expected = base + Delay(InForce.lag, FALSE) + Delay(InForce.lag, TRUE)
    <3>1. expected =
            base + (InboundMs(app.preset, step, base) + OutboundMs(app.preset, step, base))
      BY <2>2, <2>4
    <3>2. expected =
            base + InboundMs(app.preset, step, base) + OutboundMs(app.preset, step, base)
      BY <2>1, <2>4, <3>1
    <3> QED BY <2>5, <3>2
  <2>7. ASSUME step.kind = "target"
        PROVE  expected = IF app.step_result.below_baseline THEN base ELSE step.target_ms
    <3>1. step.target_ms \in Nat
      BY <2>2 DEF PresetStep
    <3>2. app.step_result.below_baseline = (step.target_ms < base)
      BY <2>2, <2>7
    <3>3. Extra(step, base) =
            IF step.target_ms > base THEN step.target_ms - base ELSE 0
      BY <2>7 DEF Extra
    <3>4. CASE step.target_ms < base
      <4>1. ~(step.target_ms > base)
        BY <2>1, <3>1, <3>4
      <4>2. app.step_result.below_baseline /\ Extra(step, base) = 0
        BY <3>2, <3>3, <3>4, <4>1, Zenon
      <4>3. expected = base
        BY <2>1, <2>2, <4>2
      <4> QED BY <4>2, <4>3
    <3>5. CASE ~(step.target_ms < base)
      <4>1. ~app.step_result.below_baseline
        BY <3>2, <3>5, Zenon
      <4>2. Extra(step, base) = step.target_ms - base
        BY <2>1, <3>1, <3>3, <3>5
      <4>3. expected = step.target_ms
        BY <2>1, <2>2, <3>1, <4>2
      <4> QED BY <4>1, <4>3
    <3> QED BY <3>4, <3>5
  <2> QED BY <2>6, <2>7
<1> QED BY <1>1, InvariantsHold, PTL

(* No step of a loaded sequence asks for a delay on traffic the selection  *)
(* leaves out (core/preset.c:36, the policy must follow the direction).    *)
THEOREM DelayedIsCapturedHolds == Spec => []DelayedIsCaptured
<1> DEFINE step == app.preset.steps[app.active_step + 1]
           p == app.preset
<1>1. SequenceInv /\ CaptureInv => DelayedIsCaptured
  <2> SUFFICES ASSUME SequenceInv, CaptureInv, app.preset_loaded
               PROVE  /\ Delay(InForce.lag, FALSE) > 0 => InForce.target.direction # "outbound"
                      /\ Delay(InForce.lag, TRUE) > 0 => InForce.target.direction # "inbound"
    BY DEF DelayedIsCaptured
  <2>1. /\ presetValidate(p)
        /\ InForce.lag = StepLag(p, step, app.baseline_ms)
        /\ InForce.target = p.target
        /\ p \in PresetRecord
    BY ActiveStep, ResolvedStep, InForceIsAccepted
  <2>2. p.target.native \in BOOLEAN
    BY <2>1 DEF PresetRecord, CaptureTarget
  <2>3. p.target.direction # "both" => p.policy = p.target.direction
    BY <2>1, <2>2 DEF presetValidate, captureTargetValidate
  <2>4. /\ InForce.lag.inbound = (p.policy # "outbound")
        /\ InForce.lag.outbound = (p.policy # "inbound")
    BY <2>1 DEF StepLag
  <2>5. /\ p.policy = "outbound" => Delay(InForce.lag, FALSE) = 0
        /\ p.policy = "inbound" => Delay(InForce.lag, TRUE) = 0
    BY <2>4 DEF Delay
  <2>6. ~(0 > 0)
    OBVIOUS
  <2>7. ASSUME Delay(InForce.lag, FALSE) > 0 PROVE InForce.target.direction # "outbound"
    <3>1. p.policy # "outbound"
      BY <2>5, <2>6, <2>7, Zenon
    <3> QED BY <2>1, <2>3, <3>1
  <2>8. ASSUME Delay(InForce.lag, TRUE) > 0 PROVE InForce.target.direction # "inbound"
    <3>1. p.policy # "inbound"
      BY <2>5, <2>6, <2>8, Zenon
    <3> QED BY <2>1, <2>3, <3>1
  <2> QED BY <2>7, <2>8
<1> QED BY <1>1, InvariantsHold, PTL
=============================================================================
