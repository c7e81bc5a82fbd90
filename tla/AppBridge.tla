------------------------------ MODULE AppBridge ------------------------------
(***************************************************************************)
(* The bridge between the Qt Quick interface and the controller            *)
(* (ui/qt/app_bridge.cpp): activity, selection, draft, library files and   *)
(* server baselines, over the controller's contract.                       *)
(*                                                                         *)
(* On Linux a call of the backend runs an event loop without user input    *)
(* (platform/linux/qt_backend.cpp:88).  pending is the operation that      *)
(* waits for such a call; the autosave timer may fire meanwhile.           *)
(*                                                                         *)
(* The interface (Main.qml, LiveWorkspace.qml) decides which operations    *)
(* can be asked for; those guards are named where they are used.           *)
(***************************************************************************)
EXTENDS Naturals

CONSTANTS
  Ids,         (* library ids: a bound of the model                       *)
  Contents,    (* what a sequence may say, its name aside                 *)
  Quick,       (* what Quick Controls may say                             *)
  Traffic,     (* the traffic each selects                                *)
  Steps,       (* the number of steps of each                             *)
  Targeted,    (* those that need a server's baseline                     *)
  Profiles,    (* server profiles                                         *)
  Baselines,   (* and their baselines                                     *)
  StaleStarts, (* Start is pressed also when the controller holds other   *)
               (* settings than those shown: a restriction when FALSE     *)
  None

ASSUME AppBridgeAssumption ==
  /\ Contents \cap Quick = {} /\ Quick # {}
  /\ Targeted \subseteq Contents /\ Targeted # {}
  /\ DOMAIN Traffic = Contents \cup Quick
  /\ Steps \in [Contents -> Nat \ {0}]
  /\ StaleStarts \in BOOLEAN
  /\ None \notin Ids \cup Contents \cup Quick \cup Profiles \cup Baselines

VARIABLES
  app,       (* AppController: content, step and baseline accepted last,  *)
             (* and whether as a sequence                                 *)
  capture,   (* what the backend captures by, or Off                      *)
  ui,        (* activity, ready, id, profile, draft, saved, quick         *)
  autoSave, timer,
  files,     (* the library: content by id                                *)
  baseline,  (* server profiles: baseline by profile                      *)
  server,    (* sequence-servers.ini: profile by id                       *)
  pending

saving == <<autoSave, timer>>
store == <<files, baseline, server>>
vars == <<app, capture, ui, saving, store, pending>>

Off == [on |-> FALSE]
Idle == [op |-> "none"]
idle == pending = Idle
running == capture.on
sequences == ui.activity = "sequences"
dirty == ui.draft # ui.saved
canStart == ui.ready /\ (sequences => ~dirty)

KnownIn(stored) == {p \in Profiles : stored[p] # None}
Known == KnownIn(baseline)
BaselineIn(stored, p) == IF p = None THEN None ELSE stored[p]
BaselineOf(p) == BaselineIn(baseline, p)
BaseOf(c, b) == IF c \in Targeted THEN b ELSE None

(* A profile that is named has to be there, and a target ping needs one.   *)
ResolvableIn(stored, c, p) == IF p = None THEN c \notin Targeted ELSE p \in KnownIn(stored)
Resolvable(c, p) == ResolvableIn(baseline, c, p)

(* What the controller holds of content c at a step with baseline b.       *)
Loaded(c, step, b) == [seq |-> c, step |-> step, base |-> BaseOf(c, b), loaded |-> TRUE]
QuickLoaded(q) == [seq |-> q, step |-> 1, base |-> None, loaded |-> FALSE]
CapturedBy(a) == [on |-> TRUE, seq |-> a.seq, step |-> a.step, base |-> a.base]

Clamped(step, c) == IF step < Steps[c] THEN step ELSE Steps[c]

-----------------------------------------------------------------------------
NoDelay == CHOOSE q \in Quick : TRUE

InitialUi ==
  [activity |-> "quick", ready |-> TRUE, id |-> None, profile |-> None,
   draft |-> None, saved |-> None, quick |-> NoDelay]

Init ==
  /\ app = QuickLoaded(NoDelay)
  /\ capture = Off
  /\ ui = InitialUi
  /\ autoSave = FALSE /\ timer = FALSE
  /\ files \in [Ids -> Contents \cup {None}]
  /\ baseline = [p \in Profiles |-> None]
  /\ server = [i \in Ids |-> None]
  /\ pending = Idle

(* The program ends or crashes, its helper with it, and is opened again.   *)
Reopened ==
  /\ app' = QuickLoaded(NoDelay)
  /\ capture' = Off
  /\ ui' = InitialUi
  /\ timer' = FALSE
  /\ pending' = Idle
  /\ UNCHANGED <<autoSave, store>>

-----------------------------------------------------------------------------
(* Calls of the backend.  op is what the operation does when the call      *)
(* returns, then what it changes of ui.                                    *)
Call(op, kind, new, then) ==
  /\ pending' = [op |-> op, call |-> kind, new |-> new, then |-> then]
  /\ UNCHANGED <<app, capture, ui>>

(* The interface in state u, but for what then says of it.                 *)
With(then, u) == [f \in DOMAIN u |-> IF f \in DOMAIN then THEN then[f] ELSE u[f]]

Shutdown(op, then) == Call(op, "stop", app, then)

(* controllerReplacePreset with settings that resolve, and what follows    *)
(* at once when nothing runs.                                              *)
Change(new) == IF Traffic[app.seq] = Traffic[new.seq] THEN "apply" ELSE "restart"

Replace(op, new, then) ==
  IF running
  THEN Call(op, Change(new), new, then)
  ELSE /\ app' = new
       /\ ui' = With(then, ui)
       /\ UNCHANGED <<capture, pending>>

Succeeds ==
  /\ pending' = Idle
  /\ app' = IF pending.call = "stop" THEN app ELSE pending.new
  /\ capture' = IF pending.call = "stop" THEN Off ELSE CapturedBy(pending.new)

(* A restart that fails tries what was accepted before; any failure may be *)
(* the end of the capture.                                                 *)
Fails ==
  /\ pending.call # "stop"
  /\ pending' = Idle
  /\ UNCHANGED app
  /\ \/ capture' = Off
     \/ pending.call = "apply" /\ UNCHANGED capture
     \/ pending.call = "restart" /\ capture' = CapturedBy(app)

(* The capture ends by itself, and a status request finds out.             *)
CaptureEnds ==
  /\ idle /\ running
  /\ capture' = Off
  /\ UNCHANGED <<app, ui, saving, store, pending>>

(* Variant: what was asked for is shown whether or not it was accepted.    *)
ShowsAnyway ==
  /\ pending.op \in {"show", "discard"}
  /\ Succeeds \/ Fails
  /\ ui' = With(pending.then, ui)
  /\ UNCHANGED <<saving, store>>

(* An operation with nothing more to do than to show what was accepted.    *)
Returns ==
  /\ pending.op \in {"show", "discard"}
  /\ \/ Succeeds /\ ui' = With(pending.then, ui)
     \/ Fails /\ UNCHANGED ui
  /\ UNCHANGED <<saving, store>>

-----------------------------------------------------------------------------
(* loadSequence takes what is saved, and only when nothing else is shown.  *)
Loads(new, stored) ==
  /\ new.saved # None /\ new.draft = new.saved
  /\ ResolvableIn(stored, new.saved, new.profile)

(* Variant: a sequence that is not ready leaves Start as it was.           *)
PreparesReady(new, stored) ==
  IF Loads(new, stored)
  THEN /\ app' = Loaded(new.saved, 1, BaselineIn(stored, new.profile))
       /\ ui' = [new EXCEPT !.ready = TRUE]
  ELSE ui' = new /\ UNCHANGED app

(* prepareSequence with the interface in state new and these baselines,    *)
(* nothing running: what is saved, and nothing else, becomes what Start    *)
(* activates.                                                              *)
Prepares(new, stored) ==
  /\ app' = IF Loads(new, stored) THEN Loaded(new.saved, 1, BaselineIn(stored, new.profile))
            ELSE [app EXCEPT !.loaded = FALSE]
  /\ ui' = [new EXCEPT !.ready = Loads(new, stored)]

Prepare(new, stored) == Prepares(new, stored) /\ UNCHANGED <<capture, pending>>

(* An operation that shut capture down and prepares what is selected now.  *)
PrepareReturns ==
  /\ pending.op = "prepare"
  /\ pending' = Idle /\ capture' = Off
  /\ Prepares(With(pending.then, ui), baseline)
  /\ UNCHANGED <<saving, store>>

(* restoreServerAssociation: the linked server; if there is none, one with *)
(* the name the sequence carries.  Names change, in a file as in Manage    *)
(* servers: it may be any, and another one each time.                      *)
Restored(i) == IF server[i] \in Known THEN {server[i]} ELSE Known \cup {None}

-----------------------------------------------------------------------------
(* Editing *)

commitDraft(c) ==
  /\ idle /\ sequences /\ ui.draft # None
  /\ IF running
     THEN /\ Resolvable(c, ui.profile)
          /\ \E step \in 1 .. Steps[c] :
               Replace("commit", Loaded(c, step, BaselineOf(ui.profile)),
                       [draft |-> c, ready |-> TRUE])
          /\ UNCHANGED timer
     ELSE /\ c # ui.draft
          /\ ui' = [ui EXCEPT !.draft = c]
          /\ timer' = (autoSave \/ timer)
          /\ UNCHANGED <<app, capture, pending>>
  /\ UNCHANGED <<autoSave, store>>

(* updateDraft, when the backend has accepted the edit.                    *)
CommitReturns ==
  /\ pending.op = "commit"
  /\ \/ /\ Succeeds
        /\ ui' = With(pending.then, ui)
        /\ timer' = (autoSave \/ timer)
     \/ Fails /\ UNCHANGED <<ui, timer>>
  /\ UNCHANGED <<autoSave, store>>

(* The second half of save with the interface in state u: the file and the *)
(* association.  Writing the file may fail; so may, alone, the second.     *)
SaveIds(u) == IF u.id = None THEN {i \in Ids : files[i] = None} ELSE {u.id}

SavedAs(u, i) == [u EXCEPT !.id = i, !.saved = u.draft]

Writes(u, i) ==
  /\ files' = [files EXCEPT ![i] = u.draft]
  /\ \E linked \in BOOLEAN :
       server' = [server EXCEPT ![i] = IF linked THEN u.profile
                                       ELSE IF u.id = None THEN None ELSE @]
  /\ UNCHANGED baseline

(* The first half.  seen is what the backend answers meanwhile: while a    *)
(* call or a status request is pending it refuses another.                 *)
Save(seen, busy) ==
  /\ timer' = FALSE
  /\ UNCHANGED autoSave
  /\ \/ UNCHANGED <<app, capture, ui, store, pending>>
     \/ /\ ui.draft # None
        /\ ui.id # None => files[ui.id] = ui.saved
        /\ IF sequences /\ seen
           THEN /\ ~busy /\ Resolvable(ui.draft, ui.profile)
                /\ Replace("save", Loaded(ui.draft, Clamped(app.step, ui.draft),
                                          BaselineOf(ui.profile)), [ready |-> TRUE])
                /\ UNCHANGED store
           ELSE /\ \E i \in SaveIds(ui) :
                     /\ Writes(ui, i)
                     /\ IF sequences THEN Prepares(SavedAs(ui, i), baseline)
                        ELSE ui' = SavedAs(ui, i) /\ UNCHANGED app
                /\ UNCHANGED <<capture, pending>>

save == idle /\ dirty /\ Save(running, FALSE)

(* saveTimer runs out.                                                     *)
Autosave ==
  /\ timer /\ dirty
  /\ \/ idle /\ \E busy \in BOOLEAN : Save(running, busy)
     \/ /\ ~idle
        /\ \E seen \in IF pending.call = "restart" THEN BOOLEAN ELSE {running} : Save(seen, TRUE)

NothingToSave ==
  /\ timer /\ ~dirty
  /\ timer' = FALSE
  /\ UNCHANGED <<app, capture, ui, autoSave, store, pending>>

(* Variant: the draft is clean although its file could not be written.     *)
CleanUnwritten ==
  /\ pending.op = "save"
  /\ \/ /\ Succeeds
        /\ \/ ui' = With(pending.then, [ui EXCEPT !.saved = ui.draft]) /\ UNCHANGED store
           \/ \E i \in SaveIds(ui) : Writes(ui, i) /\ ui' = With(pending.then, SavedAs(ui, i))
     \/ Fails /\ UNCHANGED <<ui, store>>
  /\ UNCHANGED saving

SaveReturns ==
  /\ pending.op = "save"
  /\ \/ /\ Succeeds
        /\ \/ ui' = With(pending.then, ui) /\ UNCHANGED store
           \/ \E i \in SaveIds(ui) : Writes(ui, i) /\ ui' = With(pending.then, SavedAs(ui, i))
     \/ Fails /\ UNCHANGED <<ui, store>>
  /\ UNCHANGED saving

(* The button is shown with autosave off, the dialog after a save that     *)
(* failed; both mean that no autosave is due.                              *)
discard ==
  /\ idle /\ dirty /\ ~timer
  /\ LET clean == [ui EXCEPT !.draft = ui.saved]
     IN  CASE sequences /\ running ->
                /\ ui.saved # None /\ Resolvable(ui.saved, ui.profile)
                /\ Replace("discard", Loaded(ui.saved, Clamped(app.step, ui.saved),
                                             BaselineOf(ui.profile)),
                           [draft |-> ui.saved, ready |-> TRUE])
           [] sequences /\ ~running -> Prepare(clean, baseline)
           [] ~sequences -> ui' = clean /\ UNCHANGED <<app, capture, pending>>
  /\ UNCHANGED <<saving, store>>

setAutoSave ==
  /\ idle /\ (dirty => ~timer)
  /\ autoSave' = ~autoSave
  /\ timer' = (autoSave' /\ dirty)
  /\ UNCHANGED <<app, capture, ui, store, pending>>

-----------------------------------------------------------------------------
(* Selection.  Each asks for a clean draft.                                *)

selectPreset(i) ==
  /\ idle /\ ~dirty /\ files[i] # None
  /\ ~(i = ui.id /\ sequences)
  /\ \E p \in Restored(i) :
       LET c == files[i]
           then == [activity |-> "sequences", ready |-> TRUE, id |-> i, profile |-> p,
                    draft |-> c, saved |-> c]
       IN  IF running
           THEN Resolvable(c, p) /\ Replace("show", Loaded(c, 1, BaselineOf(p)), then)
           ELSE Prepare(With(then, ui), baseline)
  /\ UNCHANGED <<saving, store>>

(* A new draft: what presetDefault proposes, a target ping, under the      *)
(* server used last; a copy of the one shown; or a file.                   *)
Default == CHOOSE c \in Targeted : TRUE

newPreset ==
  /\ idle /\ ~dirty
  /\ \E p \in Known \cup {None} :
       Shutdown("prepare", [activity |-> "sequences", id |-> None, profile |-> p,
                            draft |-> Default, saved |-> None])
  /\ UNCHANGED <<saving, store>>

duplicate ==
  /\ idle /\ ~dirty /\ ui.draft # None
  /\ Shutdown("prepare", [activity |-> "sequences", id |-> None, saved |-> None])
  /\ UNCHANGED <<saving, store>>

importPreset ==
  /\ idle /\ ~dirty
  /\ \E c \in Contents, p \in Known \cup {None} :
       Shutdown("import", [activity |-> "sequences", id |-> None, profile |-> p,
                           draft |-> c, saved |-> None])
  /\ UNCHANGED <<saving, store>>

ImportReturns ==
  LET new == With(pending.then, ui)
  IN  /\ pending.op = "import"
      /\ pending' = Idle /\ capture' = Off
      /\ timer' = FALSE
      /\ \/ Prepares(new, baseline) /\ UNCHANGED store
         \/ \E i \in SaveIds(new) : Writes(new, i) /\ Prepares(SavedAs(new, i), baseline)
      /\ UNCHANGED autoSave

(* deletePreset, and batchSequences, which also forgets the server.  A     *)
(* link of a file that is gone is dropped: ids are never used again.       *)
Deselected == [id |-> None, saved |-> None, draft |-> None]
DeselectedWithServer == [id |-> None, saved |-> None, draft |-> None, profile |-> None]

Delete(i, then) ==
  /\ idle /\ ~dirty /\ files[i] # None
  /\ files' = [files EXCEPT ![i] = None]
  /\ server' = [server EXCEPT ![i] = None]
  /\ IF i # ui.id THEN UNCHANGED <<app, capture, ui, pending>>
     ELSE IF sequences THEN Shutdown("prepare", then)
     ELSE ui' = With(then, ui) /\ UNCHANGED <<app, capture, pending>>
  /\ UNCHANGED <<baseline, saving>>

deletePreset == ui.id # None /\ sequences /\ Delete(ui.id, Deselected)

BatchDelete(i) == Delete(i, DeselectedWithServer)

BatchDuplicate(i, j) ==
  /\ idle /\ ~dirty /\ files[i] # None /\ files[j] = None
  /\ files' = [files EXCEPT ![j] = files[i]]
  /\ server' = [server EXCEPT ![j] = server[i]]
  /\ UNCHANGED <<app, capture, ui, saving, baseline, pending>>

-----------------------------------------------------------------------------
(* Servers *)

(* storeServerAssociation: a draft without a file is not linked.           *)
Linked(p) == IF ui.id = None THEN server ELSE [server EXCEPT ![ui.id] = p]

(* The server is shown and the link stored first; both are taken back when *)
(* the capture refuses it, the link unless that write fails.               *)
selectProfile(p) ==
  /\ idle /\ sequences /\ ui.draft # None
  /\ p \in Known \cup {None}
  /\ \/ /\ ~running
        /\ server' = Linked(p)
        /\ Prepare([ui EXCEPT !.profile = p], baseline)
     \/ /\ running /\ Resolvable(ui.draft, p)
        /\ server' = Linked(p)
        /\ ui' = [ui EXCEPT !.profile = p]
        /\ LET new == Loaded(ui.draft, Clamped(app.step, ui.draft), BaselineOf(p))
           IN  pending' = [op |-> "profile", call |-> Change(new), new |-> new,
                           then |-> [ready |-> TRUE], before |-> ui.profile]
        /\ UNCHANGED <<app, capture>>
     \/ /\ running /\ ~Resolvable(ui.draft, p)
        /\ server' \in {Linked(p), Linked(ui.profile)}
        /\ UNCHANGED <<app, capture, ui, pending>>
  /\ UNCHANGED <<files, baseline, saving>>

ProfileReturns ==
  /\ pending.op = "profile"
  /\ \/ Succeeds /\ ui' = With(pending.then, ui) /\ UNCHANGED server
     \/ /\ Fails
        /\ ui' = [ui EXCEPT !.profile = pending.before]
        /\ server' \in {server, Linked(pending.before)}
  /\ UNCHANGED <<files, baseline, saving>>

(* The id of a new profile is one that nothing names.                      *)
Unused(p) == p \notin Known /\ p # ui.profile /\ \A i \in Ids : server[i] # p

(* A profile in use by the running sequence is applied before it is        *)
(* stored.  Otherwise, as the dialog does not select it, nothing is        *)
(* prepared again.                                                         *)
saveProfile(p, b) ==
  /\ idle /\ sequences
  /\ p \in Known \/ Unused(p)
  /\ b # baseline[p]
  /\ IF p = ui.profile /\ running
     THEN /\ Replace("baseline", [app EXCEPT !.base = BaseOf(app.seq, b), !.loaded = TRUE],
                     [profile |-> p, baseline |-> b, before |-> [app EXCEPT !.loaded = TRUE]])
          /\ UNCHANGED baseline
     ELSE /\ baseline' = [baseline EXCEPT ![p] = b]
          /\ UNCHANGED <<app, capture, ui, pending>>
  /\ UNCHANGED <<files, server, saving>>

(* When it cannot be stored, the baseline before is applied again; when    *)
(* that is refused too, capture is shut down.                              *)
BaselineReturns ==
  /\ pending.op = "baseline"
  /\ \/ /\ Succeeds
        /\ baseline' = [baseline EXCEPT ![pending.then.profile] = pending.then.baseline]
     \/ /\ app' = pending.new
        /\ capture' = CapturedBy(app')
        /\ pending' = [op |-> "rollback", call |-> "apply", new |-> pending.then.before]
        /\ UNCHANGED baseline
     \/ Fails /\ UNCHANGED baseline
  /\ UNCHANGED <<ui, files, server, saving>>

RollbackReturns ==
  /\ pending.op = "rollback"
  /\ \/ Succeeds
     \/ /\ pending' = [op |-> "show", call |-> "stop", new |-> app, then |-> <<>>]
        /\ capture' \in {capture, Off}
        /\ UNCHANGED app
  /\ UNCHANGED <<ui, saving, store>>

(* A link to a profile that is gone is the same as none.                   *)
deleteProfile(p) ==
  /\ idle /\ sequences /\ p \in Known
  /\ baseline' = [baseline EXCEPT ![p] = None]
  /\ server' = [i \in Ids |-> IF server[i] = p THEN None ELSE server[i]]
  /\ IF ui.profile = p THEN Shutdown("deselect", <<>>)
     ELSE UNCHANGED <<app, capture, ui, pending>>
  /\ UNCHANGED <<files, saving>>

(* No server is selected then; when that cannot be stored, the one that is *)
(* gone stays selected, and what was loaded with it stays loaded.          *)
DeselectReturns ==
  /\ pending.op = "deselect"
  /\ pending' = Idle /\ capture' = Off
  /\ \/ Prepares([ui EXCEPT !.profile = None], baseline)
     \/ ui.id # None /\ UNCHANGED <<app, ui>>
  /\ UNCHANGED <<saving, store>>

(* prepareSequence while capture runs: the saved sequence is applied from  *)
(* its first step.                                                         *)
Reload(new, stored) ==
  /\ app' = [app EXCEPT !.loaded = FALSE]
  /\ ui' = [new EXCEPT !.ready = FALSE]
  /\ pending' =
       IF Loads(new, stored) /\ Traffic[new.saved] = Traffic[app.seq]
       THEN [op |-> "show", call |-> "apply", then |-> [ready |-> TRUE],
             new |-> Loaded(new.saved, 1, BaselineIn(stored, new.profile))]
       ELSE Idle
  /\ UNCHANGED capture

(* resolveServer: a profile for a name that sequences carry and no profile *)
(* has; they are linked to it, unless the links cannot be written.         *)
resolveServer(p, b) ==
  /\ idle /\ Unused(p)
  /\ baseline' = [baseline EXCEPT ![p] = b]
  /\ \E named \in SUBSET {i \in Ids : files[i] # None /\ server[i] \notin Known} :
       /\ named # {}
       /\ \/ UNCHANGED <<server, app, capture, ui, pending>>
          \/ /\ server' = [i \in Ids |-> IF i \in named THEN p ELSE server[i]]
             /\ \E q \in IF ui.id = None THEN {ui.profile}
                         ELSE IF ui.id \in named THEN {p} ELSE Restored(ui.id) :
                  LET new == [ui EXCEPT !.profile = q]
                  IN  IF q = ui.profile \/ ~sequences
                      THEN ui' = new /\ UNCHANGED <<app, capture, pending>>
                      ELSE IF running THEN Reload(new, baseline') ELSE Prepare(new, baseline')
  /\ UNCHANGED <<files, saving>>

-----------------------------------------------------------------------------
(* Activities and playback *)

quickDelay(q) ==
  Replace("show", QuickLoaded(q), [activity |-> "quick", ready |-> TRUE, quick |-> q])

(* The dialog goes on with the switch also when the capture has refused to *)
(* discard the edit (Main.qml:276), which then waits for Save or Discard   *)
(* beside Quick Controls.                                                  *)
switchActivity ==
  /\ idle /\ (dirty => sequences /\ ~timer)
  /\ LET then == [activity |-> "sequences"]
     IN  CASE sequences -> quickDelay(ui.quick)
           [] ~sequences /\ ui.saved = None -> Shutdown("prepare", then)
           [] ~sequences /\ ui.saved # None /\ ~running -> Prepare(With(then, ui), baseline)
           [] ~sequences /\ ui.saved # None /\ running ->
                /\ Resolvable(ui.saved, ui.profile)
                /\ Replace("show", Loaded(ui.saved, 1, BaselineOf(ui.profile)),
                           [activity |-> "sequences", ready |-> TRUE])
  /\ UNCHANGED <<saving, store>>

SetQuick ==
  /\ idle /\ ~sequences
  /\ \E q \in Quick : quickDelay(q)
  /\ UNCHANGED <<saving, store>>

(* The controller holds what is shown.                                     *)
Current ==
  sequences => app.seq = ui.saved /\ app.base = BaseOf(app.seq, BaselineOf(ui.profile))

Start ==
  /\ idle /\ ~running /\ canStart
  /\ StaleStarts \/ Current
  /\ Call("show", "start", app, <<>>)
  /\ UNCHANGED <<saving, store>>

Stop ==
  /\ idle /\ running
  /\ Shutdown("show", <<>>)
  /\ UNCHANGED <<saving, store>>

(* Next, previous, reset, and a step that is clicked on.                   *)
Move ==
  /\ idle /\ app.loaded
  /\ \E step \in 1 .. Steps[app.seq] : Replace("show", [app EXCEPT !.step = step], <<>>)
  /\ UNCHANGED <<saving, store>>

(* Another program changes a file of the library.                          *)
OutsideEdit(i, c) ==
  /\ idle
  /\ c # files[i]
  /\ files' = [files EXCEPT ![i] = c]
  /\ UNCHANGED <<app, capture, ui, saving, baseline, server, pending>>

-----------------------------------------------------------------------------
Operation ==
  \/ \E c \in Contents : commitDraft(c)
  \/ save \/ discard \/ setAutoSave
  \/ \E i \in Ids : selectPreset(i)
  \/ newPreset \/ duplicate \/ importPreset \/ deletePreset
  \/ \E i \in Ids : BatchDelete(i)
  \/ \E i, j \in Ids : BatchDuplicate(i, j)
  \/ \E p \in Profiles \cup {None} : selectProfile(p)
  \/ \E p \in Profiles, b \in Baselines : saveProfile(p, b)
  \/ \E p \in Profiles, b \in Baselines : resolveServer(p, b)
  \/ \E p \in Profiles : deleteProfile(p)
  \/ switchActivity \/ SetQuick
  \/ Start \/ Stop \/ Move

Return ==
  \/ Returns \/ PrepareReturns \/ CommitReturns \/ SaveReturns \/ ImportReturns
  \/ ProfileReturns \/ DeselectReturns \/ BaselineReturns \/ RollbackReturns

Next ==
  \/ Operation
  \/ Return
  \/ Autosave \/ NothingToSave
  \/ CaptureEnds
  \/ \E i \in Ids, c \in Contents \cup {None} : OutsideEdit(i, c)
  \/ Reopened

Spec == Init /\ [][Next]_vars

-----------------------------------------------------------------------------
(* "Read backend state rather than assuming a successful button click"     *)
(* (app_bridge.cpp:107): between two operations a running capture that is  *)
(* not shown as "not ready" (:219) is what the interface shows, and not a  *)
(* value of an edit that was refused, of a selection before, or of a       *)
(* server that is no longer chosen.                                        *)
ShownGoverns ==
  idle /\ running /\ ui.ready =>
    capture = CapturedBy(IF sequences
                         THEN Loaded(ui.draft, app.step, BaselineOf(ui.profile))
                         ELSE QuickLoaded(ui.quick))

(* "A selected but incomplete sequence must never leave the previous quick *)
(* delay armed" (app_bridge.cpp:524), nor may the panel leave a sequence   *)
(* armed: what Start would activate belongs to the activity that is shown. *)
Armed ==
  idle /\ ~running /\ canStart =>
    IF sequences THEN app.loaded ELSE app = QuickLoaded(ui.quick)

(* The user's own ways to leave an edit behind.                            *)
LeavesEdit ==
  \/ \E c \in Contents : commitDraft(c)
  \/ pending.op \in {"commit", "discard"} /\ pending' = Idle
  \/ discard
  \/ Reopened

(* An edit is lost to nothing else: no selection, deletion, import or call *)
(* that comes back late replaces a draft that is not saved, and a draft    *)
(* passes as saved only once the file it is shown as holds it ("Resolve    *)
(* the draft before changing pages or replacing the selection",            *)
(* Main.qml:234).                                                          *)
EditsSurvive ==
  [][dirty /\ ~LeavesEdit =>
       /\ ui'.draft = ui.draft
       /\ ui'.draft = ui'.saved => ui'.id # None /\ files'[ui'.id] = ui'.draft]_vars
=============================================================================
