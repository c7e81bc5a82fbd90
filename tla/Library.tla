------------------------------- MODULE Library -------------------------------
(***************************************************************************)
(* What the player's files promise: sequences, and hotkeys.ini.  A         *)
(* document is replaced as a whole or not at all, the answer to a save     *)
(* says which, and neither a crash nor the loss of power changes one.      *)
(* Bundled sequences are put into a library that was found empty, never    *)
(* over one that can be read, and never again once that was finished or    *)
(* declined.  Until then each launch puts back those that are missing.     *)
(***************************************************************************)
CONSTANTS
  Starters,   (* names of the bundled sequences                           *)
  Own,        (* names of the player's sequences: a bound of the model    *)
  Bindings,   (* the name of hotkeys.ini                                  *)
  Documents,  (* what a file may hold                                     *)
  Bundled,    (* what the bundled sequences hold                          *)
  Defaults,   (* the bindings of a program that can read none             *)
  Nothing,    (* no file, no request                                      *)
  Unreadable  (* a file that is no document                               *)

VARIABLES
  files,      (* what a program that opens them finds                     *)
  hidden,     (* the folder of the sequences cannot be listed             *)
  started,    (* bundled sequences are being put into the library         *)
  installed,  (* they have been, or never will be                         *)
  phase,      (* of the program: closed, starting or open                 *)
  keys,       (* the bindings in force                                    *)
  asked,      (* the save that has no answer yet                          *)
  answer      (* to the last one                                          *)

vars == <<files, hidden, started, installed, phase, keys, asked, answer>>

Library == Starters \cup Own
Names == Library \cup {Bindings}
Readable(n) == files[n] \in Documents
Listed == IF hidden THEN {} ELSE {n \in Library : Readable(n)}
Loaded == IF Readable(Bindings) THEN files[Bindings] ELSE Defaults

Init ==
  /\ files \in [Names -> Documents \cup {Nothing, Unreadable}]
  /\ hidden \in BOOLEAN
  /\ started = FALSE /\ installed = FALSE
  /\ phase = "closed" /\ keys = Defaults
  /\ asked = Nothing /\ answer = "none"

Launch ==
  /\ phase = "closed"
  /\ phase' = "starting" /\ keys' = Loaded
  /\ UNCHANGED <<files, hidden, started, installed, asked, answer>>

Ends ==
  /\ phase' = "closed" /\ keys' = Defaults
  /\ asked' = Nothing /\ answer' = "none"
  /\ UNCHANGED <<files, hidden, started, installed>>

(* A library that holds something is its user's.                           *)
Adopt ==
  /\ phase = "starting" /\ ~started /\ Listed # {}
  /\ installed' = TRUE /\ phase' = "open"
  /\ UNCHANGED <<files, hidden, started, keys, asked, answer>>

Begin ==
  /\ phase = "starting" /\ ~installed /\ Listed = {}
  /\ started' = TRUE
  /\ UNCHANGED <<files, hidden, installed, phase, keys, asked, answer>>

(* Also of a sequence its user deleted, or of a file nobody can read, as   *)
(* long as the installation is not finished.                               *)
Seed(n) ==
  /\ phase = "starting" /\ started /\ ~installed /\ ~Readable(n)
  /\ files' = [files EXCEPT ![n] = Bundled]
  /\ UNCHANGED <<hidden, started, installed, phase, keys, asked, answer>>

Finish ==
  /\ phase = "starting" /\ started /\ \A n \in Starters : Readable(n)
  /\ installed' = TRUE /\ phase' = "open"
  /\ UNCHANGED <<files, hidden, started, keys, asked, answer>>

(* Nothing is to be installed, or it is left for the next launch.          *)
Abandon ==
  /\ phase = "starting"
  /\ phase' = "open"
  /\ UNCHANGED <<files, hidden, started, installed, keys, asked, answer>>

Ask(n, doc) ==
  /\ phase = "open" /\ asked = Nothing
  /\ asked' = [name |-> n, doc |-> doc] /\ answer' = "none"
  /\ UNCHANGED <<files, hidden, started, installed, phase, keys>>

Saved ==
  /\ asked # Nothing
  /\ files' = [files EXCEPT ![asked.name] = asked.doc]
  /\ keys' = IF asked.name = Bindings THEN asked.doc ELSE keys
  /\ asked' = Nothing /\ answer' = "saved"
  /\ UNCHANGED <<hidden, started, installed, phase>>

Refused ==
  /\ asked # Nothing
  /\ asked' = Nothing /\ answer' = "failed"
  /\ UNCHANGED <<files, hidden, started, installed, phase, keys>>

Delete(n) ==
  /\ phase = "open" /\ asked = Nothing
  /\ files' = [files EXCEPT ![n] = Nothing]
  /\ UNCHANGED <<hidden, started, installed, phase, keys, asked, answer>>

(* Other programs write files, and take away and give back the folder.     *)
Outside ==
  /\ phase # "starting" /\ asked = Nothing
  /\ \/ /\ \E n \in Names, c \in Documents \cup {Nothing, Unreadable} :
             files' = [files EXCEPT ![n] = c]
        /\ UNCHANGED hidden
     \/ hidden' = ~hidden /\ UNCHANGED files
  /\ UNCHANGED <<started, installed, phase, keys, asked, answer>>

Next ==
  \/ Launch \/ Ends
  \/ Adopt \/ Begin \/ Finish \/ Abandon \/ \E n \in Starters : Seed(n)
  \/ \E n \in Names, doc \in Documents : Ask(n, doc)
  \/ Saved \/ Refused
  \/ \E n \in Library : Delete(n)
  \/ Outside

Spec == Init /\ [][Next]_vars
=============================================================================
