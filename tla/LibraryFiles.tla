---------------------------- MODULE LibraryFiles ----------------------------
(***************************************************************************)
(* The files behind Library: the stores (platform/windows/preset_store.c,  *)
(* platform/linux/preset_store.cpp), hotkeys.ini (hotkey_settings.c) and   *)
(* the launch (ui/qt/app_bridge.cpp).  The program may end, and the power  *)
(* fail, between any two calls of the system.                              *)
(*                                                                         *)
(* On Linux QSaveFile takes the steps of a replacement; it is external, as *)
(* is preferences.ini, which Qt writes as a whole or not at all.           *)
(*                                                                         *)
(* A file that is whole can be read: a read that fails for a moment (a     *)
(* lock, no memory) is left out, and so is a library that cannot be opened *)
(* at all.                                                                 *)
(***************************************************************************)
EXTENDS Naturals, SequencesExt

CONSTANTS
  StarterList,  (* the names of the bundled sequences, in their order     *)
  Own, Bindings, Documents, Bundled, Defaults, Nothing, Unreadable,
  MaxFaults     (* a bound of the model: calls that fail, crashes, power  *)
                (* cuts                                                   *)

VARIABLES
  disk,         (* by name: the document, and whether it is on the disk   *)
  hidden,
  preferences,  (* preferences.ini                                        *)
  pc,           (* closed, opening, seeding or open                       *)
  index,        (* of the bundled sequence that is next                   *)
  write,        (* the replacement under way, or Nothing                  *)
  keys, answer,
  faults

program == <<pc, index, write, keys, answer>>
outside == <<disk, hidden>>
filesVars == <<outside, preferences, program, faults>>

Starters == ToSet(StarterList)
Library == Starters \cup Own
Names == Library \cup {Bindings}
Held == Documents \cup {Nothing, Unreadable}

(* A file that is being replaced.                                          *)
Replacements ==
  [name : Names, new : Documents, at : {"asked", "created", "written", "flushed"},
   temporary : [doc : Held, flushed : BOOLEAN]]

ASSUME LibraryAssumption ==
  /\ MaxFaults \in Nat
  /\ StarterList \in Seq(Starters)
  /\ Starters \cap Own = {} /\ Bindings \notin Library
  /\ Bundled \in Documents
  /\ {Defaults, Nothing, Unreadable} \cap Documents = {} /\ Nothing # Unreadable
  /\ Nothing \notin Replacements \cup [name : Names, doc : Documents]

OnDisk(c) == [doc |-> c, flushed |-> TRUE]
Found(n) == disk[n].doc
Readable(n) == Found(n) \in Documents

FilesInit ==
  /\ disk \in [Names -> {OnDisk(c) : c \in Held}]
  /\ hidden \in BOOLEAN
  /\ preferences = [started |-> FALSE, installed |-> FALSE]
  /\ pc = "closed" /\ index = 1 /\ write = Nothing
  /\ keys = Defaults /\ answer = "none"
  /\ faults = 0

(* A call of the system fails.                                             *)
Fault == faults < MaxFaults /\ faults' = faults + 1
Works == UNCHANGED faults

-----------------------------------------------------------------------------
(* Replacing a file.  The temporary file lives beside its destination.     *)
Replacement(n, c) == [name |-> n, new |-> c, at |-> "asked", temporary |-> OnDisk(Nothing)]

CreateTemporary ==
  /\ write # Nothing /\ write.at = "asked"
  /\ write' = [write EXCEPT !.at = "created",
                            !.temporary = [doc |-> Unreadable, flushed |-> FALSE]]
  /\ Works /\ UNCHANGED <<outside, preferences, pc, index, keys, answer>>

WriteTemporary ==
  /\ write # Nothing /\ write.at = "created"
  /\ write' = [write EXCEPT !.at = "written", !.temporary.doc = write.new]
  /\ Works /\ UNCHANGED <<outside, preferences, pc, index, keys, answer>>

FlushTemporary ==
  /\ write # Nothing /\ write.at = "written"
  /\ write' = [write EXCEPT !.at = "flushed", !.temporary.flushed = TRUE]
  /\ Works /\ UNCHANGED <<outside, preferences, pc, index, keys, answer>>

(* What a save has done once it is done: the next bundled sequence, or the *)
(* answer and, of hotkeys.ini, the bindings in force.                      *)
Done ==
  /\ write' = Nothing
  /\ IF pc = "seeding"
     THEN index' = index + 1 /\ UNCHANGED <<keys, answer>>
     ELSE /\ keys' = IF write.name = Bindings THEN write.new ELSE keys
          /\ answer' = "saved"
          /\ UNCHANGED index
  /\ UNCHANGED pc

(* Variant: the file is replaced before the new one is on the disk.        *)
MoveUnflushed ==
  /\ write # Nothing /\ write.at \in {"written", "flushed"}
  /\ disk' = [disk EXCEPT ![write.name] = write.temporary]
  /\ Done
  /\ Works /\ UNCHANGED <<hidden, preferences>>

MoveTemporary ==
  /\ write # Nothing /\ write.at = "flushed"
  /\ disk' = [disk EXCEPT ![write.name] = write.temporary]
  /\ Done
  /\ Works /\ UNCHANGED <<hidden, preferences>>

(* The temporary file is deleted, and the previous file has been kept.     *)
WriteFails ==
  /\ write # Nothing /\ Fault
  /\ write' = Nothing
  /\ IF pc = "seeding" THEN pc' = "open" /\ UNCHANGED answer
     ELSE answer' = "failed" /\ UNCHANGED pc
  /\ UNCHANGED <<outside, preferences, index, keys>>

-----------------------------------------------------------------------------
(* A launch *)

hotkeyLoad == IF Readable(Bindings) THEN Found(Bindings) ELSE Defaults

Launch ==
  /\ pc = "closed"
  /\ pc' = "opening" /\ keys' = hotkeyLoad
  /\ Works /\ UNCHANGED <<outside, preferences, index, write, answer>>

(* refresh: what is unreadable is skipped, and a folder that cannot be     *)
(* listed leaves the list empty.                                           *)
presets == IF hidden THEN {} ELSE {n \in Library : Readable(n)}

(* preferences are stored, or not, and what comes next of the program.     *)
Prefer(key, stored, next) ==
  \/ preferences' = [preferences EXCEPT ![key] = TRUE] /\ pc' = stored /\ Works
  \/ UNCHANGED preferences /\ pc' = next /\ Fault

installStarterPresets ==
  /\ pc = "opening"
  /\ index' = 1
  /\ CASE preferences.installed -> pc' = "open" /\ Works /\ UNCHANGED preferences
       [] ~preferences.installed /\ presets # {} /\ ~preferences.started ->
            Prefer("installed", "open", "open")
       [] OTHER -> Prefer("started", "seeding", "open")
  /\ UNCHANGED <<outside, write, keys, answer>>

(* Variant: an installation that was interrupted is not resumed.           *)
SeedOnce ==
  /\ pc = "seeding" /\ write = Nothing /\ index <= Len(StarterList)
  /\ IF Readable(StarterList[index])
     THEN pc' = "open" /\ UNCHANGED <<index, write>>
     ELSE write' = Replacement(StarterList[index], Bundled) /\ UNCHANGED <<index, pc>>
  /\ Works /\ UNCHANGED <<outside, preferences, keys, answer>>

Seed ==
  /\ pc = "seeding" /\ write = Nothing /\ index <= Len(StarterList)
  /\ IF Readable(StarterList[index])
     THEN index' = index + 1 /\ UNCHANGED write
     ELSE write' = Replacement(StarterList[index], Bundled) /\ UNCHANGED index
  /\ Works /\ UNCHANGED <<outside, preferences, pc, keys, answer>>

FinishSeeding ==
  /\ pc = "seeding" /\ index > Len(StarterList)
  /\ Prefer("installed", "open", "open")
  /\ UNCHANGED <<outside, index, write, keys, answer>>

-----------------------------------------------------------------------------
(* The user *)

(* save asks for the file it has read, or makes a name that is new.        *)
SaveSequence(n, c) ==
  /\ pc = "open" /\ write = Nothing
  /\ Readable(n) \/ (n \in Own /\ Found(n) = Nothing)
  /\ write' = Replacement(n, c) /\ answer' = "none"
  /\ Works /\ UNCHANGED <<outside, preferences, pc, index, keys>>

(* hotkeySave replaces whatever there is.                                  *)
SaveBindings(c) ==
  /\ pc = "open" /\ write = Nothing
  /\ write' = Replacement(Bindings, c) /\ answer' = "none"
  /\ Works /\ UNCHANGED <<outside, preferences, pc, index, keys>>

DeleteSequence(n) ==
  /\ pc = "open" /\ write = Nothing /\ Found(n) # Nothing
  /\ disk' = [disk EXCEPT ![n] = OnDisk(Nothing)]
  /\ Works /\ UNCHANGED <<hidden, preferences, program>>

Ended ==
  /\ pc' = "closed" /\ index' = 1 /\ write' = Nothing
  /\ keys' = Defaults /\ answer' = "none"

Close ==
  /\ pc = "open" /\ write = Nothing
  /\ Ended
  /\ Works /\ UNCHANGED <<outside, preferences>>

(* A crash leaves what the program wrote to the system, which has it.      *)
Crash ==
  /\ pc # "closed" /\ Ended
  /\ Fault /\ UNCHANGED <<outside, preferences>>

(* The loss of power loses what was not flushed.                           *)
PowerCut ==
  /\ pc # "closed" /\ Ended
  /\ \E lost \in SUBSET {n \in Names : ~disk[n].flushed} :
       disk' = [n \in Names |-> OnDisk(IF n \in lost THEN Unreadable ELSE Found(n))]
  /\ Fault /\ UNCHANGED <<hidden, preferences>>

(* Other programs, between launches or while the program waits for its     *)
(* user.                                                                   *)
Outside ==
  /\ pc \in {"closed", "open"} /\ write = Nothing
  /\ \/ /\ \E n \in Names, c \in Held :
             disk' = [disk EXCEPT ![n] = OnDisk(c)]
        /\ UNCHANGED hidden
     \/ hidden' = ~hidden /\ UNCHANGED disk
  /\ Works /\ UNCHANGED <<preferences, program>>

-----------------------------------------------------------------------------
Writing == CreateTemporary \/ WriteTemporary \/ FlushTemporary \/ MoveTemporary \/ WriteFails
Starting == Launch \/ installStarterPresets \/ Seed \/ FinishSeeding

FilesNext ==
  \/ Writing \/ Starting
  \/ \E n \in Library, c \in Documents : SaveSequence(n, c)
  \/ \E c \in Documents : SaveBindings(c)
  \/ \E n \in Library : DeleteSequence(n)
  \/ Close \/ Crash \/ PowerCut \/ Outside

FilesSpec == FilesInit /\ [][FilesNext]_filesVars

(* A program that was started goes on; it is started again after it ended. *)
FairFilesSpec == FilesSpec /\ WF_filesVars(Writing) /\ WF_filesVars(Starting)

-----------------------------------------------------------------------------
Promised == INSTANCE Library WITH
  files <- [n \in Names |-> Found(n)],
  started <- preferences.started,
  installed <- preferences.installed,
  phase <- CASE pc = "closed" -> "closed" [] pc = "open" -> "open" [] OTHER -> "starting",
  asked <- IF pc = "open" /\ write # Nothing THEN [name |-> write.name, doc |-> write.new]
           ELSE Nothing

(* "An interrupted save leaves the old file intact" (preset_store.c:86),   *)
(* "Save first. If disk access fails, the user's working bindings stay     *)
(* active" (hotkeys.c:180), "Existing libraries belong to their users.     *)
(* Only seed an empty library" (app_bridge.cpp:178): whatever fails and    *)
(* wherever the program ends, every file is the old or the new document    *)
(* and the answer says which.  An installation begins only where no        *)
(* sequence was listed; no bundled sequence replaces one that can be read; *)
(* and none is put in place once the installation was finished or          *)
(* declined, so that one deleted after that stays deleted.  Nothing is     *)
(* promised of one that is deleted while the installation is interrupted:  *)
(* the next launch puts it back.                                           *)
ImplementsLibrary == Promised!Spec

(* "Unreadable or excess library files are reported and left untouched"    *)
(* (docs/PRESETS.md:59): no launch and no save replaces a file that cannot *)
(* be read.  Violated: the installation takes a bundled sequence it cannot *)
(* read for one that is missing (app_bridge.cpp:190) and writes over it.   *)
UnreadableIsLeftAlone ==
  [][Starting \/ Writing =>
       \A n \in Library : Found(n) = Unreadable => disk'[n] = disk[n]]_filesVars

(* "record progress so an interrupted first launch can resume safely"      *)
(* (app_bridge.cpp:179): once begun, the installation is completed by a    *)
(* launch that nothing disturbs.                                           *)
InterruptedLaunchResumes ==
  preferences.started /\ pc = "closed" /\ faults = MaxFaults ~> preferences.installed
=============================================================================
