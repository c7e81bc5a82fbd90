------------------------------- MODULE Hotkeys -------------------------------
(***************************************************************************)
(* Global shortcuts on Windows: the hooks' thread, the messages it posts,  *)
(* the listener on the user interface's thread                             *)
(* (platform/windows/hotkeys.c) and its one caller, the shortcut half of   *)
(* ui/qt/app_bridge.cpp.                                                   *)
(*                                                                         *)
(* Whatever the listener does to change its mode goes through              *)
(* synchronizeInput, in two steps: messages on their way become stale,     *)
(* then the key state is sampled.  Keys may change in between.  A message  *)
(* carries a generation; only whether it is still the current one is kept. *)
(***************************************************************************)
EXTENDS HotkeyMatcher, Sequences, FiniteSetsExt

CONSTANTS
  Loaded,      (* bindings the settings file may hold                     *)
  Desks,       (* the circumstances to look at, one of which holds        *)
  NoAction,    (* -1                                                      *)
  Edited       (* bound of the model: actions whose binding is edited     *)

(* Circumstances: the keys in use and the messages that may be on their    *)
(* way (bounds of the model); whether an input may be missed (full queue,  *)
(* desktop switch), whether GetAsyncKeyState follows the hooks with a      *)
(* delay, and whether keys change while synchronizeInput runs.             *)
DeskRecord ==
  [keys : SUBSET Keys, queue : Nat \ {0}, lossy : BOOLEAN, lags : BOOLEAN, during : BOOLEAN]

ASSUME HotkeysAssumption ==
  /\ Loaded \subseteq {s \in Bindings : hotkeyValidate(s)}
  /\ Desks \subseteq DeskRecord
  /\ NoAction \notin Actions
  /\ Edited \subseteq Actions

VARIABLES
  matcher,     (* the static HotkeyMatcher                                *)
  posted,      (* INPUT_MESSAGEs, oldest first                            *)
  pauseDepth,
  recorder,    (* recordCallback is set                                   *)
  pc,          (* where the user interface's thread is                    *)
  ui,          (* the bridge's fields                                     *)
  executed,    (* actions handed to the controller by the last step       *)
  keyboard,    (* the keys that are down                                  *)
  async,       (* the keys GetAsyncKeyState says are down                 *)
  desk         (* the circumstances, the same for good                    *)

listener == <<matcher, posted, pauseDepth, recorder>>
input == <<keyboard, async, desk>>
vars == <<listener, pc, ui, executed, input>>

(* A message of an older generation is dropped unread.                     *)
Stale == [current |-> FALSE]
Message == [key : Keys, down : BOOLEAN, current : {TRUE}] \cup {Stale}

Idle == [op |-> "idle"]
Applying(settings) == [op |-> "apply", settings |-> settings]

-----------------------------------------------------------------------------
Init ==
  /\ matcher = NoMatcher
  /\ posted = <<>>
  /\ pauseDepth = 0
  /\ recorder = FALSE
  /\ pc = [op |-> "closed"]
  /\ ui \in [paused : {FALSE}, hotkeysEnabled : BOOLEAN, inputSuspended : {FALSE},
             listening : {FALSE}, keys : Loaded, recordAction : {NoAction},
             enabled : {[a \in Actions |-> TRUE]}]
  /\ executed = {}
  /\ keyboard = {}
  /\ async = {}
  /\ desk \in Desks

-----------------------------------------------------------------------------
(* The hooks.  Input reaches them one event after another; the state       *)
(* GetAsyncKeyState reads follows when the hook has returned.              *)
Post(key, down) ==
  \/ /\ desk.lossy
     /\ UNCHANGED posted
  \/ /\ Len(posted) < desk.queue
     /\ posted' = IF ui.listening
                  THEN Append(posted, [key |-> key, down |-> down, current |-> TRUE])
                  ELSE posted

(* Keys reach the hooks.                                                   *)
Typing == async = keyboard /\ (desk.during \/ pc.op \in {"closed", "idle", "unavailable"})

PressOrRelease(key) ==
  /\ Typing
  /\ keyboard' = IF key \in keyboard THEN keyboard \ {key} ELSE keyboard \cup {key}
  /\ async' = IF desk.lags THEN async ELSE keyboard'
  /\ Post(key, key \notin keyboard)
  /\ executed' = {}
  /\ UNCHANGED <<matcher, pauseDepth, recorder, pc, ui, desk>>

AutoRepeat(key) ==
  /\ Typing
  /\ key \in keyboard
  /\ Post(key, TRUE)
  /\ executed' = {}
  /\ UNCHANGED <<matcher, pauseDepth, recorder, pc, ui, input>>

AsyncFollows ==
  /\ async # keyboard
  /\ async' = keyboard
  /\ executed' = {}
  /\ UNCHANGED <<listener, pc, ui, keyboard, desk>>

-----------------------------------------------------------------------------
(* synchronizeInput, first step: the messages left on their way become     *)
(* stale; the operation goes on when the key state has been sampled.       *)
Synchronize(queue, next) ==
  /\ posted' = [i \in DOMAIN queue |-> Stale]
  /\ pc' = next

NoSynchronize(queue) ==
  /\ posted' = queue
  /\ UNCHANGED pc

(* What a recording leaves in the matcher is not read again.               *)
Settled(m) ==
  IF m.recording THEN m
  ELSE [m EXCEPT !.recordingStarted = FALSE, !.recordingReleased = FALSE, !.recorded = {}]

Sampled(m) == Settled(hotkeyMatcherCancel(Holding(m, async)))

(* Second step.  Pausing, resuming and cancelling end with it.             *)
Synchronized ==
  /\ pc.op = "synchronize"
  /\ matcher' = Sampled(matcher)
  /\ pc' = Idle
  /\ executed' = {}
  /\ UNCHANGED <<posted, pauseDepth, recorder, ui, input>>

Applied ==
  /\ pc.op = "apply"
  /\ matcher' = hotkeyMatcherApply(Sampled(matcher), pc.settings)
  /\ ui' = [ui EXCEPT !.keys = pc.settings]
  /\ pc' = Idle
  /\ executed' = {}
  /\ UNCHANGED <<posted, pauseDepth, recorder, input>>

RecordBegun ==
  /\ pc.op = "record"
  /\ matcher' = hotkeyMatcherRecord(Sampled(matcher))
  /\ recorder' = TRUE
  /\ pc' = Idle
  /\ executed' = {}
  /\ UNCHANGED <<posted, pauseDepth, ui, input>>

-----------------------------------------------------------------------------
(* updateHotkeyPause: the bridge owns at most one of the nested pauses.    *)
UpdateHotkeyPause(next) ==
  LET suspend == next.paused \/ ~next.hotkeysEnabled
  IN  IF ~next.listening \/ suspend = next.inputSuspended
      THEN /\ ui' = next
           /\ NoSynchronize(posted)
           /\ UNCHANGED pauseDepth
      ELSE /\ ui' = [next EXCEPT !.inputSuspended = suspend]
           /\ pauseDepth' = IF suspend THEN pauseDepth + 1
                            ELSE IF pauseDepth > 0 THEN pauseDepth - 1 ELSE 0
           /\ Synchronize(posted, [op |-> "synchronize"])

(* The bridge's constructor.  Nothing is delivered before it returns, so   *)
(* one of the synchronisations it makes stands for all.                    *)
Open ==
  /\ pc.op = "closed"
  /\ \/ /\ pc' = [op |-> "unavailable"]
        /\ UNCHANGED <<ui, pauseDepth>>
     \/ /\ ui' = [ui EXCEPT !.listening = TRUE, !.inputSuspended = ~ui.hotkeysEnabled]
        /\ pauseDepth' = IF ui.hotkeysEnabled THEN 0 ELSE 1
        /\ pc' = Applying(ui.keys)
  /\ executed' = {}
  /\ UNCHANGED <<matcher, posted, recorder, input>>

(* hotkeysClose: the hooks end, then the window goes with its messages.    *)
Close ==
  /\ pc = Idle
  /\ pc' = [op |-> "unavailable"]
  /\ ui' = [ui EXCEPT !.listening = FALSE]
  /\ matcher' = NoMatcher
  /\ posted' = <<>>
  /\ recorder' = FALSE
  /\ executed' = {}
  /\ UNCHANGED <<pauseDepth, input>>

setInputPaused(paused) ==
  /\ pc = Idle
  /\ ui.paused # paused
  /\ UpdateHotkeyPause([ui EXCEPT !.paused = paused])
  /\ executed' = {}
  /\ UNCHANGED <<matcher, recorder, input>>

(* Nothing happens when the preference cannot be saved.                    *)
setHotkeysEnabled(enabled) ==
  /\ pc = Idle
  /\ ui.hotkeysEnabled # enabled
  /\ UpdateHotkeyPause([ui EXCEPT !.hotkeysEnabled = enabled])
  /\ executed' = {}
  /\ UNCHANGED <<matcher, recorder, input>>

setBindingEnabled(action, enabled) ==
  /\ pc = Idle
  /\ ui' = [ui EXCEPT !.enabled[action] = enabled]
  /\ executed' = {}
  /\ UNCHANGED <<listener, pc, input>>

(* Asked for on the Hotkeys page, which pauses input while its window is   *)
(* the active one (Main.qml:20).                                           *)
recordBinding(action) ==
  /\ pc = Idle
  /\ ui.paused
  /\ ui' = [ui EXCEPT !.recordAction = action]
  /\ Synchronize(posted, [op |-> "record"])
  /\ executed' = {}
  /\ UNCHANGED <<matcher, pauseDepth, recorder, input>>

cancelRecording ==
  /\ pc = Idle
  /\ ui' = [ui EXCEPT !.recordAction = NoAction]
  /\ recorder' = FALSE
  /\ Synchronize(posted, [op |-> "synchronize"])
  /\ executed' = {}
  /\ UNCHANGED <<matcher, pauseDepth, input>>

(* saveBinding and hotkeysApply up to the synchronisation: bindings that   *)
(* are not valid or cannot be saved leave the old ones in force.           *)
SaveBinding(queue, action, binding) ==
  \/ NoSynchronize(queue)
  \/ LET next == [ui.keys EXCEPT ![action] = binding]
     IN  hotkeyValidate(next) /\ Synchronize(queue, Applying(next))

(* The Clear button, on the same page.                                     *)
clearBinding(action) ==
  /\ pc = Idle
  /\ ui.paused
  /\ SaveBinding(posted, action, {})
  /\ recorder' = (recorder /\ pc' = Idle)
  /\ executed' = {}
  /\ UNCHANGED <<matcher, pauseDepth, ui, input>>

-----------------------------------------------------------------------------
(* executeHotkey, behind the listener's own check of pauseDepth.           *)
executeHotkey(action) ==
  pauseDepth = 0 /\ ui.enabled[action] /\ ui.hotkeysEnabled /\ ~ui.paused

(* deliverInput, with what the matcher made of the event.  The recorder's  *)
(* last call saves the combination.                                        *)
DeliverInput(queue, after, actions) ==
  /\ executed' = {a \in actions : executeHotkey(a)}
  /\ matcher' = Settled(after)
  /\ IF matcher.recording /\ recorder /\ ~after.recording
     THEN /\ ui' = [ui EXCEPT !.recordAction = NoAction]
          /\ recorder' = FALSE
          /\ SaveBinding(queue, ui.recordAction, after.recorded)
     ELSE /\ NoSynchronize(queue)
          /\ UNCHANGED <<ui, recorder>>
  /\ UNCHANGED <<pauseDepth, input>>

(* The window's procedure drops a message of an older generation.          *)
InputMessage ==
  /\ pc = Idle
  /\ posted # <<>>
  /\ IF Head(posted).current
     THEN LET heard == hotkeyMatcherInput(matcher, Head(posted).key, Head(posted).down)
          IN  DeliverInput(Tail(posted), heard.matcher, heard.actions)
     ELSE DeliverInput(Tail(posted), matcher, {})

Missed == matcher.physical \ async

(* WM_TIMER, every 250 ms and behind all messages: keys that are no longer *)
(* down are released.  No release fires an action.                         *)
Timer ==
  /\ pc = Idle
  /\ posted = <<>>
  /\ Missed # {}
  /\ DeliverInput(posted,
       FoldSet(LAMBDA key, m : hotkeyMatcherInput(m, key, FALSE).matcher, matcher, Missed), {})

-----------------------------------------------------------------------------
Input == AsyncFollows \/ \E key \in desk.keys : PressOrRelease(key) \/ AutoRepeat(key)

Delivery == Synchronized \/ Applied \/ RecordBegun \/ InputMessage \/ Timer

Calls ==
  \/ Open \/ Close \/ cancelRecording
  \/ \E on \in BOOLEAN : setInputPaused(on) \/ setHotkeysEnabled(on)
  \/ \E a \in Edited, on \in BOOLEAN : setBindingEnabled(a, on)
  \/ \E a \in Edited : recordBinding(a) \/ clearBinding(a)

Next == Input \/ Delivery \/ Calls

Spec == Init /\ [][Next]_vars

(* The key state follows the hooks.  The thread is never kept from its     *)
(* event loop, which takes messages as they come and asks for the timer's  *)
(* each time it has none.                                                  *)
Fairness ==
  /\ WF_vars(AsyncFollows)
  /\ WF_vars(Synchronized \/ Applied \/ RecordBegun)
  /\ SF_vars(InputMessage)
  /\ SF_vars(Timer)

FairSpec == Spec /\ Fairness

-----------------------------------------------------------------------------
TypeOK ==
  /\ matcher \in HotkeyMatchers
  /\ hotkeyValidate(matcher.settings)
  /\ posted \in Seq(Message)
  /\ pauseDepth \in Nat
  /\ recorder \in BOOLEAN
  /\ pc.op \in {"closed", "unavailable", "idle", "apply", "record", "synchronize"}
  /\ ui.keys \in Bindings /\ hotkeyValidate(ui.keys)
  /\ ui.recordAction \in Actions \cup {NoAction}
  /\ executed \subseteq Actions
  /\ keyboard \subseteq Keys
  /\ async \subseteq Keys
  /\ desk \in DeskRecord

(* When all keys are up, shortcuts come back to life: the matcher waits    *)
(* for no release any more, and the nested pauses of the listener, of      *)
(* which the bridge owns at most one, are what the interface wants them to *)
(* be (app_bridge.cpp:614).                                                *)
ShortcutsComeBack ==
  <>[](keyboard = {}) =>
    []<>(/\ ~matcher.waitForRelease
         /\ ui.listening => (pauseDepth > 0) = (ui.paused \/ ~ui.hotkeysEnabled))
=============================================================================
