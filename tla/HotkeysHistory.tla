--------------------------- MODULE HotkeysHistory ---------------------------
(***************************************************************************)
(* Hotkeys with what the player's hands did: which keys have been held     *)
(* since the last change of mode, which were pressed since, and how often  *)
(* each combination was completed.  It is kept where the hooks see all     *)
(* there is to see.                                                        *)
(***************************************************************************)
EXTENDS Hotkeys

VARIABLES
  heldOver,  (* keys held without a break since the last change of mode   *)
  pressed,   (* keys pressed since it began                               *)
  credit     (* completions of each combination not yet acted upon,       *)
             (* counted up to CreditCap                                   *)

historyVars == <<vars, heldOver, pressed, credit>>

(* As many completions may be on their way as there are messages; more     *)
(* need not be told apart.                                                 *)
CreditCap == desk.queue + 1

Completed(a) ==
  LET settings == IF pc'.op = "apply" THEN pc'.settings ELSE matcher'.settings
      complete(keys) == settings[a] \subseteq {normalize[k] : k \in keys}
  IN  settings[a] # {} /\ complete(keyboard') /\ ~complete(keyboard)

Remember ==
  LET began == pc' # pc /\ pc' # Idle
      earned(a) == credit[a] + (IF Completed(a) THEN 1 ELSE 0) - (IF a \in executed' THEN 1 ELSE 0)
  IN  IF desk.lossy THEN UNCHANGED <<heldOver, pressed, credit>> ELSE
      /\ heldOver' = IF began THEN keyboard ELSE heldOver \cap keyboard'
      /\ pressed' = IF began THEN {} ELSE pressed \cup (keyboard' \ keyboard)
      /\ credit' = [a \in Actions |-> IF began THEN 0 ELSE Min({earned(a), CreditCap})]

HistoryInit ==
  /\ Init
  /\ heldOver = {}
  /\ pressed = {}
  /\ credit = [a \in Actions |-> 0]

HistoryNext == Next /\ Remember

HistorySpec == HistoryInit /\ [][HistoryNext]_historyVars /\ Fairness

-----------------------------------------------------------------------------
(* PRESETS.md:41: "Closing an editor waits for held keys to be released    *)
(* before rearming shortcuts", and so does every other change of mode: as  *)
(* long as a key is held over from before, nothing acts.                   *)
HeldKeysNeverAct ==
  [][~desk.lossy /\ executed' # {} => heldOver = {}]_historyVars

(* README.md:52: "Holding a combination does not repeat it": an action is  *)
(* executed at most once for each time its combination was completed.      *)
NeverRepeats == \A a \in Actions : credit[a] >= 0

(* README.md:44: "The opening click is excluded": every key of a recorded  *)
(* combination was pressed after the recording began.                      *)
RecordedIsPressed ==
  [][~desk.lossy /\ pc = Idle /\ pc'.op = "apply" /\ ui'.recordAction # ui.recordAction =>
       pc'.settings[ui.recordAction] \subseteq {normalize[k] : k \in pressed}]_historyVars
=============================================================================
