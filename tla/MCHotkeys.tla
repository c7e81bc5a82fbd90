----------------------------- MODULE MCHotkeys -----------------------------
(* Both Ctrl keys and one letter, two actions.  The binding of one is      *)
(* edited: "Q", "Ctrl" and "Ctrl+Q" may be asked of it, the last two in    *)
(* conflict with the other's where that is bound.  One desk misses inputs, *)
(* is late and types at any time; the others are faithful, with more       *)
(* messages on their way or more keys.                                     *)
EXTENDS HotkeysHistory

MCNormalize == [k \in Keys |-> IF k = "Q" THEN "Q" ELSE "Ctrl"]

MCLoaded == {[toggle |-> {"Q"}, next |-> {"Ctrl"}], [toggle |-> {"Q"}, next |-> {}]}

MCDesks ==
  {[keys |-> {"LCtrl", "Q"}, queue |-> 1, lossy |-> TRUE, lags |-> TRUE, during |-> TRUE],
   [keys |-> {"LCtrl", "Q"}, queue |-> 2, lossy |-> FALSE, lags |-> FALSE, during |-> FALSE],
   [keys |-> Keys, queue |-> 1, lossy |-> FALSE, lags |-> FALSE, during |-> FALSE]}
=============================================================================
