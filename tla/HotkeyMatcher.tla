---------------------------- MODULE HotkeyMatcher ----------------------------
(***************************************************************************)
(* From presses and releases to actions and recorded combinations          *)
(* (core/hotkey_matcher.c), as operators on the matcher's record.          *)
(*                                                                         *)
(* A binding is the set of its logical keys.  normalize maps a physical    *)
(* key to its logical one: both Ctrl keys are Ctrl.                        *)
(***************************************************************************)
CONSTANTS
  Keys,       (* physical keys and mouse buttons, as the hooks name them  *)
  normalize,  (* physical to logical keys                                 *)
  Actions     (* AppAction                                                *)

LogicalKeys == {normalize[k] : k \in Keys}
Bindings == [Actions -> SUBSET LogicalKeys]

HotkeyMatchers ==
  [physical : SUBSET Keys, down : SUBSET LogicalKeys, settings : Bindings,
   latched : SUBSET Actions, waitForRelease : BOOLEAN, recording : BOOLEAN,
   recordingStarted : BOOLEAN, recordingReleased : BOOLEAN,
   recorded : SUBSET LogicalKeys]

(* A zeroed matcher.                                                       *)
NoMatcher ==
  [physical |-> {}, down |-> {}, settings |-> [a \in Actions |-> {}],
   latched |-> {}, waitForRelease |-> FALSE, recording |-> FALSE,
   recordingStarted |-> FALSE, recordingReleased |-> FALSE, recorded |-> {}]

Holding(m, physical) ==
  [m EXCEPT !.physical = physical, !.down = {normalize[k] : k \in physical}]

-----------------------------------------------------------------------------
(* Variant: held keys are not waited out.                                  *)
CancelAtOnce(m) ==
  [m EXCEPT !.recording = FALSE, !.waitForRelease = FALSE, !.latched = {}]

hotkeyMatcherCancel(m) ==
  [m EXCEPT !.recording = FALSE, !.waitForRelease = (m.down # {}), !.latched = {}]

hotkeyMatcherApply(m, settings) ==
  hotkeyMatcherCancel([m EXCEPT !.settings = settings])

(* Variant: recording begins with the keys that are down.                  *)
RecordAtOnce(m) ==
  [m EXCEPT !.latched = {}, !.waitForRelease = FALSE, !.recording = TRUE,
     !.recordingStarted = FALSE, !.recordingReleased = FALSE, !.recorded = {}]

hotkeyMatcherRecord(m) ==
  [hotkeyMatcherCancel(m) EXCEPT !.recording = TRUE, !.recordingStarted = FALSE,
     !.recordingReleased = FALSE, !.recorded = {}]

(* The actions whose combination is held; extra keys do not matter.        *)
Matching(m) == {a \in Actions : m.settings[a] # {} /\ m.settings[a] \subseteq m.down}

(* Each press before the first release extends the combination; recording  *)
(* ends when everything is up again.                                       *)
Record(m, press, release) ==
  LET started == m.recordingStarted \/ (press /\ ~m.recordingReleased)
      released == m.recordingReleased \/ (release /\ started)
  IN  [m EXCEPT
         !.recordingStarted = started,
         !.recordingReleased = released,
         !.recorded = IF press /\ ~m.recordingReleased THEN m.down ELSE @,
         !.recording = ~(released /\ m.down = {})]

(* Variant: any further press fires a combination that is still held.      *)
MatchUnlatched(m, press) ==
  LET fired == IF press THEN Matching(m) ELSE {}
  IN  [matcher |-> [m EXCEPT !.latched = fired], actions |-> fired]

(* An action fires on the press that completes its combination and is      *)
(* latched until one of its keys comes up.                                 *)
Match(m, press) ==
  LET fired == IF press THEN Matching(m) \ m.latched ELSE {}
  IN  [matcher |-> [m EXCEPT !.latched = (@ \cap Matching(m)) \cup fired], actions |-> fired]

(* Variant: while held keys are waited out, input is not even tracked.     *)
InputUntracked(m, key, down) ==
  LET wasDown == key \in m.physical
      held == Holding(m, IF down THEN m.physical \cup {key} ELSE m.physical \ {key})
  IN  IF m.waitForRelease THEN [matcher |-> m, actions |-> {}]
      ELSE Match(held, down /\ ~wasDown)

(* One key goes down or up: the matcher afterwards, and the actions fired. *)
hotkeyMatcherInput(m, key, down) ==
  LET wasDown == key \in m.physical
      held == Holding(m, IF down THEN m.physical \cup {key} ELSE m.physical \ {key})
      silent(after) == [matcher |-> after, actions |-> {}]
  IN  IF m.waitForRelease THEN silent([held EXCEPT !.waitForRelease = (held.down # {})])
      ELSE IF m.recording THEN silent(Record(held, down /\ ~wasDown, ~down /\ wasDown))
      ELSE Match(held, down /\ ~wasDown)

-----------------------------------------------------------------------------
(* hotkeyValidate: no combination contains another.                        *)
hotkeyValidate(settings) ==
  \A a, b \in Actions :
    a # b /\ settings[a] # {} /\ settings[b] # {} => ~(settings[a] \subseteq settings[b])
=============================================================================
