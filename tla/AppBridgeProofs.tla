--------------------------- MODULE AppBridgeProofs ---------------------------
(***************************************************************************)
(* What TLC checks of AppBridge on a small instance, proved for every set  *)
(* of ids, contents, servers and baselines: Armed, ShownGoverns where      *)
(* Start is pressed on what is shown, and EditsSurvive.                    *)
(*                                                                         *)
(* Inv says what the interface, the controller and the backend hold        *)
(* between two steps, and what an operation that waits for the backend     *)
(* will install when it returns, whatever the autosave timer does first.   *)
(*                                                                         *)
(* The last part is about the files under the interface: that LibraryFiles *)
(* implements Library, whatever fails and wherever the program ends.       *)
(***************************************************************************)
EXTENDS AppBridge, LibraryFiles, TLAPS

UiFields == {"activity", "ready", "id", "profile", "draft", "saved", "quick"}
AppFields == {"seq", "step", "base", "loaded"}

Sound(u) ==
  /\ DOMAIN u = UiFields
  /\ u.id \in Ids \cup {None}
  /\ u.profile \in Profiles \cup {None}

(* The controller holds a, the interface shows u.                          *)
Agrees(a, u) ==
  /\ u.activity # "sequences" => a = QuickLoaded(u.quick)
  /\ u.activity = "sequences" /\ u.ready => a.loaded

(* a is the sequence of u and, if u is ready, has its server's baseline.   *)
Governs(stored, a, u) ==
  ~StaleStarts /\ u.activity = "sequences" =>
    /\ a.seq = u.draft
    /\ u.ready => a.base = BaseOf(a.seq, BaselineIn(stored, u.profile))

-----------------------------------------------------------------------------
(* What is known of an operation p that waits for the backend, while the   *)
(* interface is in state u.                                                *)
Applies == {"show", "discard", "commit", "save", "profile"}
Prepared == {"prepare", "import"}

Called(p, c) ==
  /\ p.call \in {"start", "stop", "apply", "restart"}
  /\ p.call # "stop" => DOMAIN p.new = AppFields
  /\ p.call \in {"apply", "restart"} => c.on
  /\ p.op \in Applies \cup Prepared \cup {"deselect", "baseline", "rollback"}
  /\ p.call = "stop" /\ p.op \in Applies => p.op = "show" /\ p.then = <<>>
  /\ p.call = "restart" => p.op \in Applies /\ "ready" \in DOMAIN p.then /\ p.then.ready

Shows(p, u, stored) ==
  p.op \in Applies /\ p.call # "stop" =>
    /\ Sound(With(p.then, u))
    /\ Agrees(p.new, With(p.then, u))
    /\ Governs(stored, p.new, With(p.then, u))
    /\ p.call = "start" /\ u.activity = "sequences" => u.draft = u.saved

KeepsEdit(p, u) ==
  /\ p.op = "show" => \/ u.draft = u.saved
                      \/ "draft" \notin DOMAIN p.then /\ "saved" \notin DOMAIN p.then
  /\ p.op = "save" => DOMAIN p.then = {"ready"}
  /\ p.op = "profile" => DOMAIN p.then = {"ready"}
  /\ p.op \in {"commit", "discard"} => "activity" \notin DOMAIN p.then

PreparesNext(p, u) ==
  /\ p.op \in Prepared => /\ p.call = "stop" /\ u.draft = u.saved
                          /\ Sound(With(p.then, u))
                          /\ With(p.then, u).activity = "sequences"
  /\ p.op = "deselect" => p.call = "stop" /\ u.activity = "sequences"

ChangesBaseline(p, a, u) ==
  p.op = "baseline" =>
    /\ p.call = "apply" /\ u.activity = "sequences"
    /\ p.then.profile = u.profile /\ u.profile \in Profiles
    /\ p.new.seq = a.seq /\ p.new.base = BaseOf(a.seq, p.then.baseline) /\ p.new.loaded
    /\ DOMAIN p.then.before = AppFields
    /\ p.then.before.seq = a.seq /\ p.then.before.base = a.base /\ p.then.before.loaded

RollsBack(p, u, stored) ==
  p.op = "rollback" =>
    /\ p.call = "apply" /\ u.activity = "sequences"
    /\ p.new.loaded /\ Governs(stored, p.new, u)

(* The server asked for is shown already: the one before may come back.    *)
ChangesServer(p, a, u, stored) ==
  p.op = "profile" =>
    /\ u.activity = "sequences" /\ p.before \in Profiles \cup {None}
    /\ ~StaleStarts => p.call = "apply"
    /\ Governs(stored, a, [u EXCEPT !.profile = p.before])

Due(p, a, u, c, stored) ==
  /\ Called(p, c) /\ Shows(p, u, stored) /\ KeepsEdit(p, u)
  /\ PreparesNext(p, u) /\ ChangesBaseline(p, a, u) /\ RollsBack(p, u, stored)
  /\ ChangesServer(p, a, u, stored)

-----------------------------------------------------------------------------
waiting == pending.op # "none"

Shapes ==
  /\ Sound(ui) /\ DOMAIN app = AppFields
  /\ DOMAIN files = Ids /\ DOMAIN baseline = Profiles

Captured == running /\ ~(waiting /\ pending.call = "restart") => capture = CapturedBy(app)

Shown ==
  running /\ ~(waiting /\ (pending.call = "stop" \/ pending.op \in {"rollback", "profile"})) =>
    Governs(baseline, app, ui)

Inv ==
  /\ waiting \/ idle
  /\ Shapes /\ Agrees(app, ui) /\ Captured /\ Shown
  /\ waiting => Due(pending, app, ui, capture, baseline)

-----------------------------------------------------------------------------
(* The operators of the model, field by field.                             *)

LEMMA WithFields ==
  ASSUME NEW u, DOMAIN u = UiFields, NEW then
  PROVE  /\ DOMAIN With(then, u) = UiFields
         /\ \A f \in UiFields :
              With(then, u)[f] = IF f \in DOMAIN then THEN then[f] ELSE u[f]
  BY DEF With

LEMMA SavedAsFields ==
  ASSUME NEW u, DOMAIN u = UiFields, NEW i
  PROVE  /\ DOMAIN SavedAs(u, i) = UiFields
         /\ SavedAs(u, i).id = i /\ SavedAs(u, i).saved = u.draft
         /\ SavedAs(u, i).draft = u.draft /\ SavedAs(u, i).activity = u.activity
         /\ SavedAs(u, i).profile = u.profile /\ SavedAs(u, i).quick = u.quick
         /\ SavedAs(u, i).ready = u.ready
  BY DEF SavedAs, UiFields

LEMMA LoadedFields ==
  ASSUME NEW c, NEW step, NEW b
  PROVE  /\ DOMAIN Loaded(c, step, b) = AppFields
         /\ Loaded(c, step, b).seq = c /\ Loaded(c, step, b).base = BaseOf(c, b)
         /\ Loaded(c, step, b).step = step /\ Loaded(c, step, b).loaded
  BY DEF Loaded, AppFields

LEMMA QuickFields ==
  ASSUME NEW q PROVE DOMAIN QuickLoaded(q) = AppFields /\ ~QuickLoaded(q).loaded
  BY DEF QuickLoaded, AppFields

LEMMA CapturedByFields ==
  ASSUME NEW a
  PROVE  /\ CapturedBy(a).on /\ CapturedBy(a).seq = a.seq
         /\ CapturedBy(a).step = a.step /\ CapturedBy(a).base = a.base
  BY DEF CapturedBy

LEMMA IdleFacts == ~Off.on /\ (pending = Idle => ~waiting)
  BY DEF Off, Idle, waiting

(* What prepareSequence leaves behind.                                     *)
LEMMA PreparesFields ==
  ASSUME NEW u, DOMAIN u = UiFields, DOMAIN app = AppFields, NEW stored, Prepares(u, stored)
  PROVE  /\ DOMAIN ui' = UiFields /\ DOMAIN app' = AppFields
         /\ ui'.activity = u.activity /\ ui'.id = u.id /\ ui'.profile = u.profile
         /\ ui'.draft = u.draft /\ ui'.saved = u.saved /\ ui'.quick = u.quick
         /\ ui'.ready => Loads(u, stored)
         /\ ~Loads(u, stored) => app'.seq = app.seq
         /\ Loads(u, stored) =>
              /\ app'.loaded /\ app'.seq = u.saved
              /\ app'.base = BaseOf(u.saved, BaselineIn(stored, u.profile))
<1>1. /\ DOMAIN ui' = UiFields
      /\ ui'.activity = u.activity /\ ui'.id = u.id /\ ui'.profile = u.profile
      /\ ui'.draft = u.draft /\ ui'.saved = u.saved /\ ui'.quick = u.quick
  BY DEF Prepares, UiFields
<1>2. ui'.ready => Loads(u, stored)
  BY DEF Prepares, UiFields
<1>3. DOMAIN app' = AppFields
  BY DEF Prepares, Loaded, AppFields
<1>4. Loads(u, stored) =>
              /\ app'.loaded /\ app'.seq = u.saved
              /\ app'.base = BaseOf(u.saved, BaselineIn(stored, u.profile))
  BY LoadedFields DEF Prepares
<1>5. ~Loads(u, stored) => app'.seq = app.seq
  BY DEF Prepares, AppFields
<1>. QED BY <1>1, <1>2, <1>3, <1>4, <1>5

LEMMA PreparesAgrees ==
  ASSUME NEW u, Sound(u), u.activity = "sequences", DOMAIN app = AppFields,
         NEW stored, Prepares(u, stored)
  PROVE  /\ Sound(ui') /\ DOMAIN app' = AppFields /\ Agrees(app', ui')
         /\ (~StaleStarts => app.seq = u.draft) => Governs(stored, app', ui')
<1>1. DOMAIN u = UiFields
  BY DEF Sound
<1>2. Sound(ui') /\ DOMAIN app' = AppFields
  BY <1>1, PreparesFields DEF Sound
<1>3. Agrees(app', ui')
  BY <1>1, PreparesFields DEF Agrees
<1>4. ASSUME ~StaleStarts => app.seq = u.draft PROVE Governs(stored, app', ui')
  BY <1>1, <1>4, PreparesFields DEF Governs, Loads
<1>. QED BY <1>2, <1>3, <1>4

-----------------------------------------------------------------------------
(* The shapes a step can have.                                             *)

(* Nothing waits afterwards and nothing runs.                              *)
LEMMA Stopped ==
  ASSUME Shapes', Agrees(app, ui)', pending' = Idle, ~running'
  PROVE  Inv'
  BY IdleFacts DEF Inv, Captured, Shown, waiting, idle, Idle

(* Nothing waits afterwards.                                               *)
LEMMA Settled ==
  ASSUME Shapes', Agrees(app, ui)', pending' = Idle,
         running' => capture' = CapturedBy(app)' /\ Governs(baseline, app, ui)'
  PROVE  Inv'
  BY DEF Inv, Captured, Shown, waiting, idle, Idle

(* Interface, controller, backend and baselines stay as they are.          *)
LEMMA Untouched ==
  ASSUME Inv, UNCHANGED <<app, capture, ui, pending, baseline>>, DOMAIN files' = Ids
  PROVE  Inv'
<1>1. Shapes'
  BY DEF Inv, Shapes
<1>2. Agrees(app, ui)' /\ Captured' /\ Shown'
  BY DEF Inv, Captured, Shown, waiting, running
<1>3. (waiting \/ idle)' /\ (waiting' => Due(pending, app, ui, capture, baseline)')
  BY DEF Inv, waiting, idle
<1>. QED BY <1>1, <1>2, <1>3 DEF Inv

(* An operation asks the backend.                                          *)
LEMMA Asks ==
  ASSUME Inv, idle, NEW op, NEW kind, NEW new, NEW then, Call(op, kind, new, then),
         DOMAIN files' = Ids, DOMAIN baseline' = Profiles,
         kind # "stop" => baseline' = baseline,
         Due([op |-> op, call |-> kind, new |-> new, then |-> then], app, ui, capture, baseline')
  PROVE  Inv'
<1>1. ~waiting
  BY IdleFacts DEF idle
<1>2. Shapes' /\ Agrees(app, ui)'
  BY DEF Inv, Shapes, Call
<1>3. Captured'
  BY <1>1 DEF Inv, Captured, Call, running
<1>4. pending' = [op |-> op, call |-> kind, new |-> new, then |-> then]
  BY DEF Call
<1>a. pending'.op = op /\ pending'.call = kind
  BY <1>4
<1>5. Shown'
  <2>1. CASE kind = "stop"
    <3>1. kind = "stop" => op # "none"
      BY DEF Due, Called, Applies, Prepared
    <3>. QED BY <2>1, <3>1, <1>a DEF Shown, waiting
  <2>2. CASE kind # "stop"
    <3>1. running => Governs(baseline, app, ui)
      BY <1>1 DEF Inv, Shown
    <3>. QED BY <2>2, <3>1 DEF Shown, Call, running
  <2>. QED BY <2>1, <2>2
<1>6. Due(pending, app, ui, capture, baseline)'
  BY <1>4 DEF Call
<1>7. waiting'
  BY <1>6 DEF Due, Called, Applies, Prepared, waiting
<1>. QED BY <1>2, <1>3, <1>5, <1>6, <1>7 DEF Inv

(* What is asked when capture is only to be shut down.                     *)
LEMMA ShutdownDue ==
  ASSUME NEW op, NEW then, NEW a, NEW u, NEW c, NEW stored, NEW new,
         \/ op = "show" /\ then = <<>>
         \/ /\ op \in Prepared /\ u.draft = u.saved
            /\ Sound(With(then, u)) /\ With(then, u).activity = "sequences"
         \/ op = "deselect" /\ u.activity = "sequences"
  PROVE  Due([op |-> op, call |-> "stop", new |-> new, then |-> then], a, u, c, stored)
<1>. DEFINE p == [op |-> op, call |-> "stop", new |-> new, then |-> then]
<1>1. p.op = op /\ p.call = "stop" /\ p.then = then
  OBVIOUS
<1>. HIDE DEF p
<1>2. Called(p, c) /\ Shows(p, u, stored) /\ KeepsEdit(p, u)
  BY <1>1 DEF Called, Shows, KeepsEdit, Applies, Prepared
<1>3. PreparesNext(p, u) /\ ChangesBaseline(p, a, u) /\ RollsBack(p, u, stored)
      /\ ChangesServer(p, a, u, stored)
  BY <1>1 DEF PreparesNext, ChangesBaseline, RollsBack, ChangesServer, Prepared
<1>. QED BY <1>2, <1>3 DEF Due, p

(* What is asked when settings are to be installed.                        *)
LEMMA ApplyDue ==
  ASSUME NEW op \in Applies \ {"profile"}, NEW kind \in {"start", "apply", "restart"},
         NEW new, NEW then,
         NEW a, NEW u, NEW c, NEW stored,
         DOMAIN new = AppFields, Sound(With(then, u)),
         Agrees(new, With(then, u)), Governs(stored, new, With(then, u)),
         kind = "start" /\ u.activity = "sequences" => u.draft = u.saved,
         kind # "start" => c.on,
         kind = "restart" => "ready" \in DOMAIN then /\ then.ready,
         KeepsEdit([op |-> op, call |-> kind, new |-> new, then |-> then], u)
  PROVE  Due([op |-> op, call |-> kind, new |-> new, then |-> then], a, u, c, stored)
<1>. DEFINE p == [op |-> op, call |-> kind, new |-> new, then |-> then]
<1>1. p.op = op /\ p.call = kind /\ p.then = then /\ p.new = new
  OBVIOUS
<1>. HIDE DEF p
<1>2. Called(p, c)
  BY <1>1 DEF Called, Applies
<1>3. Shows(p, u, stored) /\ KeepsEdit(p, u)
  BY <1>1 DEF Shows, p
<1>4. PreparesNext(p, u) /\ ChangesBaseline(p, a, u) /\ RollsBack(p, u, stored)
      /\ ChangesServer(p, a, u, stored)
  BY <1>1 DEF PreparesNext, ChangesBaseline, RollsBack, ChangesServer, Applies, Prepared
<1>. QED BY <1>2, <1>3, <1>4 DEF Due, p

(* controllerReplacePreset, running or not.                                *)
LEMMA Replaces ==
  ASSUME Inv, idle, NEW op \in Applies \ {"profile"}, NEW new, NEW then, Replace(op, new, then),
         DOMAIN files' = Ids, UNCHANGED baseline,
         DOMAIN new = AppFields, Sound(With(then, ui)),
         Agrees(new, With(then, ui)), Governs(baseline, new, With(then, ui)),
         \/ "ready" \in DOMAIN then /\ then.ready
         \/ new.seq = app.seq,
         \/ op = "show" /\ \/ ui.draft = ui.saved
                           \/ "draft" \notin DOMAIN then /\ "saved" \notin DOMAIN then
         \/ op = "save" /\ DOMAIN then = {"ready"}
         \/ op \in {"commit", "discard"} /\ "activity" \notin DOMAIN then
  PROVE  Inv'
<1>1. CASE running
  <2>. DEFINE kind == Change(new)
  <2>1. Call(op, kind, new, then)
    BY <1>1 DEF Replace
  <2>2. kind \in {"apply", "restart"} /\ (kind = "restart" => new.seq # app.seq)
    BY DEF Change
  <2>. HIDE DEF kind
  <2>3. KeepsEdit([op |-> op, call |-> kind, new |-> new, then |-> then], ui)
    BY DEF KeepsEdit
  <2>4. Due([op |-> op, call |-> kind, new |-> new, then |-> then], app, ui, capture, baseline')
    BY <2>2, <2>3, <1>1, ApplyDue DEF running
  <2>5. DOMAIN baseline' = Profiles
    BY DEF Inv, Shapes
  <2>. QED BY <2>1, <2>4, <2>5, Asks
<1>2. CASE ~running
  <2>1. app' = new /\ ui' = With(then, ui) /\ UNCHANGED <<capture, pending>>
    BY <1>2 DEF Replace
  <2>2. Shapes' /\ Agrees(app, ui)'
    BY <2>1 DEF Inv, Shapes
  <2>3. ~running' /\ pending' = Idle
    BY <2>1, <1>2 DEF running, idle
  <2>. QED BY <2>2, <2>3, Stopped
<1>. QED BY <1>1, <1>2

(* prepareSequence while nothing runs.                                     *)
LEMMA PreparesAll ==
  ASSUME Inv, NEW u, Sound(u), u.activity = "sequences", Prepares(u, baseline'),
         DOMAIN files' = Ids, DOMAIN baseline' = Profiles, pending' = Idle, ~running'
  PROVE  Inv'
<1>1. DOMAIN app = AppFields
  BY DEF Inv, Shapes
<1>2. Sound(ui') /\ DOMAIN app' = AppFields /\ Agrees(app', ui')
  BY <1>1, PreparesAgrees
<1>. QED BY <1>2, Stopped DEF Shapes

(* What the window shows when it opens.                                    *)
LEMMA Initially == Init => Inv
<1>. SUFFICES ASSUME Init PROVE Inv
  OBVIOUS
<1>1. Sound(ui) /\ Agrees(app, ui)
  BY DEF Init, InitialUi, Sound, Agrees, UiFields
<1>2. DOMAIN app = AppFields
  BY QuickFields DEF Init
<1>3. DOMAIN files = Ids /\ DOMAIN baseline = Profiles
  BY DEF Init
<1>4. ~running /\ idle /\ ~waiting
  BY IdleFacts DEF Init, running, idle
<1>. QED BY <1>1, <1>2, <1>3, <1>4 DEF Inv, Shapes, Captured, Shown

-----------------------------------------------------------------------------
(* The user's operations.                                                  *)

LEMMA CommitKeeps ==
  ASSUME Inv, NEW c \in Contents, commitDraft(c) PROVE Inv'
<1>1. idle /\ sequences /\ ui.draft # None /\ DOMAIN files' = Ids /\ UNCHANGED baseline
      /\ Sound(ui) /\ DOMAIN baseline = Profiles
  BY DEF commitDraft, store, Inv, Shapes
<1>2. CASE running
  <2>1. PICK step \in 1 .. Steps[c] :
          Replace("commit", Loaded(c, step, BaselineOf(ui.profile)),
                  [draft |-> c, ready |-> TRUE])
    BY <1>2 DEF commitDraft
  <2>. DEFINE then == [draft |-> c, ready |-> TRUE]
              new == Loaded(c, step, BaselineOf(ui.profile))
  <2>2. /\ With(then, ui).activity = "sequences" /\ With(then, ui).draft = c
        /\ With(then, ui).profile = ui.profile /\ With(then, ui).id = ui.id
        /\ DOMAIN With(then, ui) = UiFields
    BY <1>1, WithFields DEF Sound, UiFields, sequences
  <2>3. "ready" \in DOMAIN then /\ then.ready /\ "activity" \notin DOMAIN then
    OBVIOUS
  <2>. HIDE DEF then
  <2>4. Sound(With(then, ui))
    BY <1>1, <2>2 DEF Sound
  <2>5. Agrees(new, With(then, ui)) /\ Governs(baseline, new, With(then, ui))
    BY <2>2, LoadedFields DEF Agrees, Governs, BaselineOf
  <2>6. DOMAIN new = AppFields
    BY LoadedFields
  <2>7. Replace("commit", new, then) /\ "commit" \in Applies
    BY <2>1 DEF then, Applies
  <2>. HIDE DEF new
  <2>. QED BY <1>1, <2>3, <2>4, <2>5, <2>6, <2>7, Replaces
<1>3. CASE ~running
  <2>1. ui' = [ui EXCEPT !.draft = c] /\ UNCHANGED <<app, capture, pending>>
    BY <1>3 DEF commitDraft
  <2>2. /\ DOMAIN ui' = UiFields /\ ui'.id = ui.id /\ ui'.profile = ui.profile
        /\ ui'.activity = ui.activity /\ ui'.ready = ui.ready
    BY <1>1, <2>1 DEF Sound, UiFields
  <2>3. Shapes'
    BY <1>1, <2>1, <2>2 DEF Inv, Shapes, Sound
  <2>4. Agrees(app, ui)'
    BY <1>1, <2>1, <2>2 DEF Inv, Agrees, sequences
  <2>5. ~running' /\ pending' = Idle
    BY <1>1, <1>3, <2>1 DEF running, idle
  <2>. QED BY <2>3, <2>4, <2>5, Stopped
<1>. QED BY <1>2, <1>3

(* A draft is saved beside Quick Controls, whatever waits for the backend.  *)
LEMMA BesideQuickKeeps ==
  ASSUME Inv, dirty, ~sequences, NEW i \in SaveIds(ui), Writes(ui, i), ui' = SavedAs(ui, i),
         UNCHANGED <<app, capture, pending>>
  PROVE  Inv'
<1>1. Sound(ui) /\ DOMAIN files = Ids /\ DOMAIN baseline = Profiles /\ DOMAIN ui = UiFields
  BY DEF Inv, Shapes, Sound
<1>2. i \in Ids /\ UNCHANGED baseline /\ DOMAIN files' = Ids
  BY <1>1 DEF SaveIds, Writes, Sound
<1>3. /\ DOMAIN ui' = UiFields /\ ui'.id = i /\ ui'.saved = ui.draft
      /\ \A f \in UiFields \ {"id", "saved"} : ui'[f] = ui[f]
  BY <1>1, SavedAsFields DEF UiFields
<1>4. Shapes' /\ Agrees(app, ui)' /\ Captured' /\ Shown'
  BY <1>1, <1>2, <1>3
  DEF Inv, Shapes, Sound, Agrees, Captured, Shown, Governs, UiFields, running, waiting
<1>5. ASSUME waiting PROVE Due(pending, app, ui, capture, baseline)'
  <2>1. Due(pending, app, ui, capture, baseline)
    BY <1>5 DEF Inv
  <2>2. pending.op \notin Prepared \cup {"deselect", "baseline", "rollback", "profile"}
    BY <2>1 DEF Due, PreparesNext, ChangesBaseline, RollsBack, ChangesServer, dirty, sequences
  <2>. DEFINE u == With(pending.then, ui)
              v == With(pending.then, ui')
  <2>3. /\ DOMAIN v = UiFields /\ v.id \in {u.id, i}
        /\ \A f \in UiFields \ {"id", "saved"} : v[f] = u[f]
    BY <1>1, <1>3, WithFields DEF UiFields
  <2>4. /\ v.activity = u.activity /\ v.ready = u.ready /\ v.profile = u.profile
        /\ v.draft = u.draft /\ v.quick = u.quick
    BY <2>3 DEF UiFields
  <2>. HIDE DEF u, v
  <2>5. Sound(u) => Sound(v)
    BY <1>2, <2>3, <2>4 DEF Sound
  <2>6. /\ Agrees(pending.new, u) => Agrees(pending.new, v)
        /\ Governs(baseline, pending.new, u) => Governs(baseline', pending.new, v)
    BY <1>2, <2>4 DEF Agrees, Governs
  <2>7. Shows(pending, ui', baseline')
    BY <1>3, <2>1, <2>5, <2>6 DEF Due, Shows, UiFields, sequences, u, v
  <2>8. Called(pending, capture)' /\ KeepsEdit(pending, ui')
    BY <1>3, <2>1 DEF Due, Called, KeepsEdit, UiFields
  <2>. QED BY <2>2, <2>7, <2>8
    DEF Due, PreparesNext, ChangesBaseline, RollsBack, ChangesServer
<1>. QED BY <1>4, <1>5 DEF Inv, waiting, idle

(* save and the autosave timer, while nothing waits for the backend.       *)
LEMMA SaveKeeps ==
  ASSUME Inv, idle, dirty, NEW busy, Save(running, busy) PROVE Inv'
<1>1. Sound(ui) /\ DOMAIN files = Ids /\ DOMAIN baseline = Profiles /\ pending = Idle
  BY DEF Inv, Shapes, idle
<1>3. CASE UNCHANGED <<app, capture, ui, store, pending>>
  BY <1>3, <1>1, Untouched DEF store
<1>2. CASE ~sequences /\ \E i \in SaveIds(ui) : Writes(ui, i) /\ ui' = SavedAs(ui, i)
             /\ UNCHANGED <<app, capture, pending>>
  BY <1>2, BesideQuickKeeps
<1>4. CASE /\ sequences /\ running /\ UNCHANGED store
           /\ Replace("save", Loaded(ui.draft, Clamped(app.step, ui.draft),
                                     BaselineOf(ui.profile)), [ready |-> TRUE])
  <2>. DEFINE then == [ready |-> TRUE]
              new == Loaded(ui.draft, Clamped(app.step, ui.draft), BaselineOf(ui.profile))
  <2>1. UNCHANGED baseline /\ DOMAIN files' = Ids
    BY <1>1, <1>4 DEF store
  <2>2. /\ With(then, ui).activity = "sequences" /\ With(then, ui).draft = ui.draft
        /\ With(then, ui).profile = ui.profile /\ With(then, ui).id = ui.id
        /\ DOMAIN With(then, ui) = UiFields
    BY <1>1, <1>4, WithFields DEF Sound, UiFields, sequences
  <2>3. "ready" \in DOMAIN then /\ then.ready /\ DOMAIN then = {"ready"}
    OBVIOUS
  <2>7. Replace("save", new, then) /\ "save" \in Applies
    BY <1>4 DEF Applies
  <2>. HIDE DEF then
  <2>4. Sound(With(then, ui))
    BY <1>1, <2>2 DEF Sound
  <2>5. Agrees(new, With(then, ui)) /\ Governs(baseline, new, With(then, ui))
    BY <2>2, LoadedFields DEF Agrees, Governs, BaselineOf
  <2>6. DOMAIN new = AppFields
    BY LoadedFields
  <2>. HIDE DEF new
  <2>. QED BY <2>1, <2>3, <2>4, <2>5, <2>6, <2>7, Replaces
<1>5. CASE /\ sequences /\ ~running /\ UNCHANGED <<capture, pending>>
           /\ \E i \in SaveIds(ui) : Writes(ui, i) /\ Prepares(SavedAs(ui, i), baseline)
  <2>1. PICK i \in SaveIds(ui) : Writes(ui, i) /\ Prepares(SavedAs(ui, i), baseline)
    BY <1>5
  <2>2. i \in Ids
    BY <1>1, <2>1 DEF SaveIds, Sound
  <2>3. UNCHANGED baseline /\ DOMAIN files' = Ids
    BY <1>1, <2>1 DEF Writes
  <2>4. Sound(SavedAs(ui, i)) /\ SavedAs(ui, i).activity = "sequences"
    BY <1>1, <1>5, <2>2, SavedAsFields DEF Sound, sequences
  <2>5. pending' = Idle /\ ~running'
    BY <1>1, <1>5 DEF running
  <2>6. Prepares(SavedAs(ui, i), baseline')
    BY <2>1, <2>3
  <2>7. DOMAIN baseline' = Profiles
    BY <1>1, <2>3
  <2>. QED BY <2>3, <2>4, <2>5, <2>6, <2>7, PreparesAll
<1>. QED BY <1>2, <1>3, <1>4, <1>5 DEF Save

LEMMA DiscardKeeps == ASSUME Inv, discard PROVE Inv'
<1>1. /\ idle /\ Sound(ui) /\ DOMAIN files' = Ids
        /\ DOMAIN baseline = Profiles
      /\ UNCHANGED <<baseline, files>> /\ pending = Idle
  BY DEF discard, store, Inv, Shapes, idle
<1>2. CASE sequences /\ running
  <2>. DEFINE then == [draft |-> ui.saved, ready |-> TRUE]
              new == Loaded(ui.saved, Clamped(app.step, ui.saved), BaselineOf(ui.profile))
  <2>2. /\ With(then, ui).activity = "sequences" /\ With(then, ui).draft = ui.saved
        /\ With(then, ui).profile = ui.profile /\ With(then, ui).id = ui.id
        /\ DOMAIN With(then, ui) = UiFields
    BY <1>1, <1>2, WithFields DEF Sound, UiFields, sequences
  <2>3. "ready" \in DOMAIN then /\ then.ready /\ "activity" \notin DOMAIN then
    OBVIOUS
  <2>7. Replace("discard", new, then) /\ "discard" \in Applies
    BY <1>2 DEF discard, Applies
  <2>. HIDE DEF then
  <2>4. Sound(With(then, ui))
    BY <1>1, <2>2 DEF Sound
  <2>5. Agrees(new, With(then, ui)) /\ Governs(baseline, new, With(then, ui))
    BY <2>2, LoadedFields DEF Agrees, Governs, BaselineOf
  <2>6. DOMAIN new = AppFields
    BY LoadedFields
  <2>. HIDE DEF new
  <2>. QED BY <1>1, <2>3, <2>4, <2>5, <2>6, <2>7, Replaces
<1>3. CASE sequences /\ ~running
  <2>. DEFINE u == [ui EXCEPT !.draft = ui.saved]
  <2>1. DOMAIN u = UiFields /\ u.id = ui.id /\ u.profile = ui.profile
          /\ u.activity = ui.activity
    BY <1>1 DEF Sound, UiFields
  <2>2. Prepares(u, baseline) /\ UNCHANGED <<capture, pending>>
    BY <1>3 DEF discard, Prepare
  <2>. HIDE DEF u
  <2>3. Sound(u) /\ u.activity = "sequences"
    BY <1>1, <1>3, <2>1 DEF Sound, sequences
  <2>4. ~running' /\ pending' = Idle
    BY <1>1, <1>3, <2>2 DEF running
  <2>5. Prepares(u, baseline') /\ DOMAIN baseline' = Profiles
    BY <2>2, <1>1
  <2>. QED BY <1>1, <2>3, <2>4, <2>5, PreparesAll
<1>4. CASE ~sequences
  <2>1. ui' = [ui EXCEPT !.draft = ui.saved] /\ UNCHANGED <<app, capture, pending>>
    BY <1>4 DEF discard
  <2>2. /\ DOMAIN ui' = UiFields
        /\ \A f \in UiFields \ {"draft"} : ui'[f] = ui[f]
    BY <1>1, <2>1 DEF Sound, UiFields
  <2>3. Shapes' /\ Agrees(app, ui)' /\ Governs(baseline, app, ui)'
    BY <1>1, <1>4, <2>1, <2>2 DEF Inv, Shapes, Sound, Agrees, Governs, UiFields, sequences
  <2>4. running' => capture' = CapturedBy(app)'
    BY <1>1, <2>1, IdleFacts DEF Inv, Captured, running
  <2>. QED BY <1>1, <2>1, <2>3, <2>4, Settled
<1>. QED BY <1>2, <1>3, <1>4

LEMMA SelectKeeps == ASSUME Inv, NEW i \in Ids, selectPreset(i) PROVE Inv'
<1>1. /\ idle /\ ui.draft = ui.saved /\ Sound(ui) /\ DOMAIN files' = Ids
      /\ DOMAIN baseline = Profiles /\ UNCHANGED baseline /\ pending = Idle
  BY DEF selectPreset, store, Inv, Shapes, idle, dirty
<1>2. PICK p \in Restored(i) :
        LET c == files[i]
            then == [activity |-> "sequences", ready |-> TRUE, id |-> i, profile |-> p,
                     draft |-> c, saved |-> c]
        IN  IF running
            THEN Resolvable(c, p) /\ Replace("show", Loaded(c, 1, BaselineOf(p)), then)
            ELSE Prepare(With(then, ui), baseline)
  BY DEF selectPreset
<1>. DEFINE c == files[i]
            then == [activity |-> "sequences", ready |-> TRUE, id |-> i, profile |-> p,
                     draft |-> c, saved |-> c]
            new == Loaded(c, 1, BaselineOf(p))
<1>3. p \in Profiles \cup {None}
  BY DEF Restored, Known, KnownIn
<1>4. /\ With(then, ui).activity = "sequences" /\ With(then, ui).draft = c
      /\ With(then, ui).profile = p /\ With(then, ui).id = i
      /\ DOMAIN With(then, ui) = UiFields
  BY <1>1, WithFields DEF Sound, UiFields
<1>5. "ready" \in DOMAIN then /\ then.ready
  OBVIOUS
<1>6. IF running THEN Replace("show", new, then) ELSE Prepare(With(then, ui), baseline)
  BY <1>2
<1>. HIDE DEF then
<1>7. Sound(With(then, ui))
  BY <1>3, <1>4 DEF Sound
<1>8. CASE running
  <2>1. Agrees(new, With(then, ui)) /\ Governs(baseline, new, With(then, ui))
    BY <1>4, LoadedFields DEF Agrees, Governs, BaselineOf
  <2>2. DOMAIN new = AppFields /\ "show" \in Applies
    BY LoadedFields DEF Applies
  <2>. HIDE DEF new
  <2>. QED BY <1>1, <1>5, <1>6, <1>7, <1>8, <2>1, <2>2, Replaces
<1>9. CASE ~running
  <2>1. Prepares(With(then, ui), baseline') /\ ~running' /\ pending' = Idle
    BY <1>1, <1>6, <1>9 DEF Prepare, running
  <2>2. DOMAIN baseline' = Profiles
    BY <1>1
  <2>. QED BY <1>1, <1>4, <1>7, <2>1, <2>2, PreparesAll
<1>. QED BY <1>8, <1>9

(* newPreset, duplicate, importPreset, and deletePreset on its page.       *)
LEMMA ShutsDownToPrepare ==
  ASSUME Inv, idle, ui.draft = ui.saved, NEW op \in Prepared, NEW then, Shutdown(op, then),
         DOMAIN files' = Ids, UNCHANGED baseline,
         Sound(With(then, ui)), With(then, ui).activity = "sequences"
  PROVE  Inv'
<1>1. Due([op |-> op, call |-> "stop", new |-> app, then |-> then], app, ui, capture, baseline')
  BY ShutdownDue
<1>2. DOMAIN baseline' = Profiles
  BY DEF Inv, Shapes
<1>3. Call(op, "stop", app, then)
  BY DEF Shutdown
<1>. QED BY <1>1, <1>2, <1>3, Asks

LEMMA NewKeeps == ASSUME Inv, newPreset PROVE Inv'
<1>1. /\ idle /\ ui.draft = ui.saved /\ Sound(ui) /\ DOMAIN files' = Ids
        /\ UNCHANGED baseline
  BY DEF newPreset, store, Inv, Shapes, dirty
<1>2. PICK p \in Known \cup {None} :
         Shutdown("prepare", [activity |-> "sequences", id |-> None, profile |-> p,
                              draft |-> Default, saved |-> None])
  BY DEF newPreset
<1>. DEFINE then == [activity |-> "sequences", id |-> None, profile |-> p,
                     draft |-> Default, saved |-> None]
<1>3. /\ With(then, ui).activity = "sequences" /\ With(then, ui).profile = p
      /\ With(then, ui).id = None /\ DOMAIN With(then, ui) = UiFields
  BY <1>1, WithFields DEF Sound, UiFields
<1>. HIDE DEF then
<1>4. Sound(With(then, ui))
  BY <1>3 DEF Sound, Known, KnownIn
<1>5. Shutdown("prepare", then)
  BY <1>2 DEF then
<1>. QED BY <1>1, <1>3, <1>4, <1>5, ShutsDownToPrepare DEF Prepared

LEMMA DuplicateKeeps == ASSUME Inv, duplicate PROVE Inv'
<1>1. /\ idle /\ ui.draft = ui.saved /\ Sound(ui) /\ DOMAIN files' = Ids
        /\ UNCHANGED baseline
  BY DEF duplicate, store, Inv, Shapes, dirty
<1>. DEFINE then == [activity |-> "sequences", id |-> None, saved |-> None]
<1>3. /\ With(then, ui).activity = "sequences" /\ With(then, ui).profile = ui.profile
      /\ With(then, ui).id = None /\ DOMAIN With(then, ui) = UiFields
  BY <1>1, WithFields DEF Sound, UiFields
<1>5. Shutdown("prepare", then)
  BY DEF duplicate
<1>. HIDE DEF then
<1>4. Sound(With(then, ui))
  BY <1>1, <1>3 DEF Sound
<1>. QED BY <1>1, <1>3, <1>4, <1>5, ShutsDownToPrepare DEF Prepared

LEMMA ImportKeeps == ASSUME Inv, importPreset PROVE Inv'
<1>1. /\ idle /\ ui.draft = ui.saved /\ Sound(ui) /\ DOMAIN files' = Ids
        /\ UNCHANGED baseline
  BY DEF importPreset, store, Inv, Shapes, dirty
<1>2. PICK c \in Contents, p \in Known \cup {None} :
         Shutdown("import", [activity |-> "sequences", id |-> None, profile |-> p,
                             draft |-> c, saved |-> None])
  BY DEF importPreset
<1>. DEFINE then == [activity |-> "sequences", id |-> None, profile |-> p,
                     draft |-> c, saved |-> None]
<1>3. /\ With(then, ui).activity = "sequences" /\ With(then, ui).profile = p
      /\ With(then, ui).id = None /\ DOMAIN With(then, ui) = UiFields
  BY <1>1, WithFields DEF Sound, UiFields
<1>. HIDE DEF then
<1>4. Sound(With(then, ui))
  BY <1>3 DEF Sound, Known, KnownIn
<1>5. Shutdown("import", then)
  BY <1>2 DEF then
<1>. QED BY <1>1, <1>3, <1>4, <1>5, ShutsDownToPrepare DEF Prepared

LEMMA DeleteKeeps ==
  ASSUME Inv, NEW i \in Ids, NEW then, Delete(i, then),
         then = Deselected \/ then = DeselectedWithServer
  PROVE  Inv'
<1>1. /\ idle /\ ui.draft = ui.saved /\ Sound(ui) /\ DOMAIN files' = Ids
        /\ UNCHANGED baseline
      /\ DOMAIN baseline = Profiles /\ pending = Idle
  BY DEF Delete, Inv, Shapes, dirty, idle
<1>2. /\ DOMAIN With(then, ui) = UiFields
      /\ With(then, ui).activity = ui.activity /\ With(then, ui).quick = ui.quick
      /\ With(then, ui).draft = None /\ With(then, ui).saved = None
      /\ With(then, ui).id = None /\ With(then, ui).ready = ui.ready
      /\ With(then, ui).profile \in {ui.profile, None}
  <2>1. CASE then = Deselected
    BY <2>1, <1>1, WithFields DEF Sound, UiFields, Deselected
  <2>2. CASE then = DeselectedWithServer
    BY <2>2, <1>1, WithFields DEF Sound, UiFields, DeselectedWithServer
  <2>. QED BY <2>1, <2>2
<1>3. Sound(With(then, ui))
  BY <1>1, <1>2 DEF Sound
<1>4. CASE UNCHANGED <<app, capture, ui, pending>>
  BY <1>1, <1>4, Untouched
<1>5. CASE sequences /\ Shutdown("prepare", then)
  BY <1>1, <1>2, <1>3, <1>5, ShutsDownToPrepare DEF Prepared, sequences
<1>6. CASE ~sequences /\ ui' = With(then, ui) /\ UNCHANGED <<app, capture, pending>>
  <2>1. Shapes'
    BY <1>1, <1>3, <1>6 DEF Inv, Shapes
  <2>2. Agrees(app, ui)' /\ Governs(baseline, app, ui)'
    BY <1>2, <1>6 DEF Inv, Agrees, Governs, sequences
  <2>3. running' => capture' = CapturedBy(app)'
    BY <1>1, <1>6, IdleFacts DEF Inv, Captured, running
  <2>4. pending' = Idle
    BY <1>1, <1>6
  <2>. QED BY <2>1, <2>2, <2>3, <2>4, Settled
<1>. QED BY <1>4, <1>5, <1>6 DEF Delete

LEMMA SelectProfileKeeps ==
  ASSUME Inv, NEW p \in Profiles \cup {None}, selectProfile(p) PROVE Inv'
<1>1. /\ idle /\ sequences /\ Sound(ui) /\ DOMAIN files' = Ids /\ UNCHANGED baseline
      /\ DOMAIN baseline = Profiles /\ pending = Idle
  BY DEF selectProfile, Inv, Shapes, idle
<1>2. CASE UNCHANGED <<app, capture, ui, pending>>
  BY <1>1, <1>2, Untouched
<1>3. CASE /\ running /\ ui' = [ui EXCEPT !.profile = p] /\ UNCHANGED <<app, capture>>
           /\ LET new == Loaded(ui.draft, Clamped(app.step, ui.draft), BaselineOf(p))
              IN  pending' = [op |-> "profile", call |-> Change(new), new |-> new,
                              then |-> [ready |-> TRUE], before |-> ui.profile]
  <2>. DEFINE then == [ready |-> TRUE]
              new == Loaded(ui.draft, Clamped(app.step, ui.draft), BaselineOf(p))
              q == [op |-> "profile", call |-> Change(new), new |-> new,
                    then |-> then, before |-> ui.profile]
  <2>1. /\ DOMAIN ui' = UiFields /\ ui'.profile = p
        /\ \A f \in UiFields \ {"profile"} : ui'[f] = ui[f]
    BY <1>1, <1>3 DEF Sound, UiFields
  <2>2. /\ With(then, ui').activity = "sequences" /\ With(then, ui').draft = ui.draft
        /\ With(then, ui').profile = p /\ With(then, ui').id = ui.id
        /\ DOMAIN With(then, ui') = UiFields
    BY <1>1, <2>1, WithFields DEF Sound, UiFields, sequences
  <2>3. "ready" \in DOMAIN then /\ then.ready /\ DOMAIN then = {"ready"}
    OBVIOUS
  <2>4. /\ pending' = q /\ q.op = "profile" /\ q.new = new /\ q.then = then
        /\ q.before = ui.profile /\ q.call = Change(new)
    BY <1>3
  <2>5. /\ Governs(baseline, app, ui)
        /\ Change(new) \in {"apply", "restart"}
        /\ app.seq = ui.draft => Change(new) = "apply"
    BY <1>1, <1>3, LoadedFields, IdleFacts DEF Inv, Shown, Change, idle
  <2>. HIDE DEF then, q
  <2>6. Sound(ui') /\ Sound(With(then, ui'))
    BY <1>1, <2>1, <2>2 DEF Sound, UiFields
  <2>7. Agrees(new, With(then, ui')) /\ Governs(baseline, new, With(then, ui'))
    BY <2>2, LoadedFields DEF Agrees, Governs, BaselineOf
  <2>8. DOMAIN new = AppFields
    BY LoadedFields
  <2>. HIDE DEF new
  <2>9. Called(q, capture') /\ Shows(q, ui', baseline') /\ KeepsEdit(q, ui')
    BY <1>1, <1>3, <2>3, <2>4, <2>5, <2>6, <2>7, <2>8
    DEF Called, Shows, KeepsEdit, Applies, running
  <2>10. ChangesServer(q, app', ui', baseline')
    <3>1. DOMAIN [ui' EXCEPT !.profile = ui.profile] = UiFields
          /\ \A f \in UiFields : [ui' EXCEPT !.profile = ui.profile][f] = ui[f]
      BY <2>1
    <3>2. Governs(baseline, app, [ui' EXCEPT !.profile = ui.profile])
      BY <2>5, <3>1 DEF Governs, UiFields
    <3>3. ~StaleStarts => q.call = "apply"
      BY <1>1, <2>4, <2>5 DEF Governs, sequences
    <3>4. ui'.activity = "sequences" /\ ui.profile \in Profiles \cup {None}
      BY <1>1, <2>1 DEF Sound, UiFields, sequences
    <3>. QED BY <1>1, <1>3, <2>4, <3>2, <3>3, <3>4 DEF ChangesServer
  <2>11. Due(q, app', ui', capture', baseline')
    BY <2>4, <2>9, <2>10 DEF Due, PreparesNext, ChangesBaseline, RollsBack, Prepared
  <2>12. Shapes' /\ Agrees(app, ui)'
    BY <1>1, <1>3, <2>1, <2>6 DEF Inv, Shapes, Agrees, UiFields
  <2>13. Captured' /\ Shown' /\ waiting'
    BY <1>1, <1>3, <2>4, IdleFacts DEF Inv, Captured, Shown, running, waiting
  <2>. QED BY <2>4, <2>11, <2>12, <2>13 DEF Inv
<1>4. CASE ~running /\ Prepare([ui EXCEPT !.profile = p], baseline)
  <2>. DEFINE u == [ui EXCEPT !.profile = p]
  <2>1. DOMAIN u = UiFields /\ u.id = ui.id /\ u.profile = p /\ u.activity = ui.activity
    BY <1>1 DEF Sound, UiFields
  <2>2. Prepares(u, baseline) /\ UNCHANGED <<capture, pending>>
    BY <1>4 DEF Prepare
  <2>. HIDE DEF u
  <2>3. Sound(u) /\ u.activity = "sequences"
    BY <1>1, <2>1 DEF Sound, sequences
  <2>4. ~running' /\ pending' = Idle
    BY <1>1, <1>4, <2>2 DEF running
  <2>5. Prepares(u, baseline') /\ DOMAIN baseline' = Profiles
    BY <2>2, <1>1
  <2>. QED BY <1>1, <2>3, <2>4, <2>5, PreparesAll
<1>. QED BY <1>2, <1>3, <1>4 DEF selectProfile

(* The baseline of a running sequence is applied before it is stored.      *)
LEMMA SaveProfileKeeps ==
  ASSUME Inv, NEW p \in Profiles, NEW b \in Baselines, saveProfile(p, b) PROVE Inv'
<1>1. /\ idle /\ sequences /\ Sound(ui) /\ DOMAIN files' = Ids /\ DOMAIN app = AppFields
      /\ DOMAIN baseline = Profiles /\ pending = Idle /\ p # None
  BY AppBridgeAssumption DEF saveProfile, Inv, Shapes, idle
<1>2. CASE /\ p = ui.profile /\ running /\ UNCHANGED baseline
           /\ Replace("baseline", [app EXCEPT !.base = BaseOf(app.seq, b), !.loaded = TRUE],
                      [profile |-> p, baseline |-> b, before |-> [app EXCEPT !.loaded = TRUE]])
  <2>. DEFINE new == [app EXCEPT !.base = BaseOf(app.seq, b), !.loaded = TRUE]
              before == [app EXCEPT !.loaded = TRUE]
              then == [profile |-> p, baseline |-> b, before |-> before]
              q == [op |-> "baseline", call |-> "apply", new |-> new, then |-> then]
  <2>1. DOMAIN new = AppFields /\ new.seq = app.seq /\ new.base = BaseOf(app.seq, b)
          /\ new.loaded
    BY <1>1 DEF AppFields
  <2>2. /\ DOMAIN before = AppFields /\ before.seq = app.seq /\ before.base = app.base
        /\ before.loaded
    BY <1>1 DEF AppFields
  <2>3. Replace("baseline", new, then)
    BY <1>2
  <2>. HIDE DEF new, before
  <2>4. Call("baseline", "apply", new, then)
    BY <1>2, <2>1, <2>3 DEF Replace, Change
  <2>5. /\ q.op = "baseline" /\ q.call = "apply" /\ q.new = new /\ q.then = then
        /\ then.profile = p /\ then.baseline = b /\ then.before = before
    OBVIOUS
  <2>. HIDE DEF q, then
  <2>6. Called(q, capture) /\ Shows(q, ui, baseline') /\ KeepsEdit(q, ui)
    BY <1>2, <2>1, <2>5 DEF Called, Shows, KeepsEdit, Applies, Prepared, running
  <2>7. PreparesNext(q, ui) /\ RollsBack(q, ui, baseline')
        /\ ChangesServer(q, app, ui, baseline')
    BY <2>5 DEF PreparesNext, RollsBack, ChangesServer, Prepared
  <2>8. ChangesBaseline(q, app, ui)
    BY <1>1, <1>2, <2>1, <2>2, <2>5 DEF ChangesBaseline, sequences
  <2>9. Due([op |-> "baseline", call |-> "apply", new |-> new, then |-> then],
            app, ui, capture, baseline')
    BY <2>6, <2>7, <2>8 DEF Due, q
  <2>10. DOMAIN baseline' = Profiles
    BY <1>1, <1>2
  <2>. QED BY <1>1, <1>2, <2>4, <2>9, <2>10, Asks
<1>3. CASE /\ ~(p = ui.profile /\ running)
           /\ baseline' = [baseline EXCEPT ![p] = b] /\ UNCHANGED <<app, capture, ui, pending>>
  <2>1. DOMAIN baseline' = Profiles
          /\ (\A r \in Profiles : r # p => baseline'[r] = baseline[r])
    BY <1>1, <1>3
  <2>2. Shapes' /\ Agrees(app, ui)' /\ pending' = Idle
    BY <1>1, <1>3, <2>1 DEF Inv, Shapes
  <2>3. running' => capture' = CapturedBy(app)'
    BY <1>1, <1>3, IdleFacts DEF Inv, Captured, running
  <2>4. running' => Governs(baseline, app, ui)'
    <3>1. running' => Governs(baseline, app, ui)
      BY <1>1, <1>3, IdleFacts DEF Inv, Shown, running
    <3>2. running' => BaselineIn(baseline', ui.profile) = BaselineIn(baseline, ui.profile)
      BY <1>1, <1>3, <2>1 DEF BaselineIn, Sound, running
    <3>. QED BY <1>3, <3>1, <3>2 DEF Governs
  <2>. QED BY <2>2, <2>3, <2>4, Settled
<1>. QED BY <1>2, <1>3 DEF saveProfile

LEMMA DeleteProfileKeeps ==
  ASSUME Inv, NEW p \in Profiles, deleteProfile(p) PROVE Inv'
<1>1. /\ idle /\ sequences /\ Sound(ui) /\ DOMAIN files' = Ids /\ p # None
      /\ DOMAIN baseline = Profiles /\ pending = Idle
      /\ baseline' = [baseline EXCEPT ![p] = None]
  BY AppBridgeAssumption DEF deleteProfile, Inv, Shapes, idle
<1>2. DOMAIN baseline' = Profiles
        /\ (\A r \in Profiles : r # p => baseline'[r] = baseline[r])
  BY <1>1
<1>3. CASE Shutdown("deselect", <<>>)
  <2>1. Due([op |-> "deselect", call |-> "stop", new |-> app, then |-> <<>>],
            app, ui, capture, baseline')
    BY <1>1, ShutdownDue DEF sequences
  <2>2. Call("deselect", "stop", app, <<>>)
    BY <1>3 DEF Shutdown
  <2>. QED BY <1>1, <1>2, <2>1, <2>2, Asks
<1>4. CASE ui.profile # p /\ UNCHANGED <<app, capture, ui, pending>>
  <2>2. Shapes' /\ Agrees(app, ui)' /\ pending' = Idle
    BY <1>1, <1>4, <1>2 DEF Inv, Shapes
  <2>3. running' => capture' = CapturedBy(app)'
    BY <1>1, <1>4, IdleFacts DEF Inv, Captured, running
  <2>4. running' => Governs(baseline, app, ui)'
    <3>1. running' => Governs(baseline, app, ui)
      BY <1>1, <1>4, IdleFacts DEF Inv, Shown, running
    <3>2. BaselineIn(baseline', ui.profile) = BaselineIn(baseline, ui.profile)
      BY <1>1, <1>4, <1>2 DEF BaselineIn, Sound
    <3>. QED BY <1>4, <3>1, <3>2 DEF Governs
  <2>. QED BY <2>2, <2>3, <2>4, Settled
<1>. QED BY <1>3, <1>4 DEF deleteProfile

(* prepareSequence while capture runs.                                     *)
LEMMA ReloadKeeps ==
  ASSUME Inv, idle, running, NEW u, Sound(u), u.activity = "sequences", Reload(u, baseline'),
         DOMAIN files' = Ids, DOMAIN baseline' = Profiles,
         ~StaleStarts => app.seq = u.draft
  PROVE  Inv'
<1>. DEFINE then == [ready |-> TRUE]
            new == Loaded(u.saved, 1, BaselineIn(baseline', u.profile))
            p == [op |-> "show", call |-> "apply", then |-> then, new |-> new]
<1>1. DOMAIN app = AppFields /\ DOMAIN u = UiFields /\ capture = CapturedBy(app)
  BY IdleFacts DEF Inv, Shapes, Captured, Sound, idle
<1>2. /\ DOMAIN ui' = UiFields /\ ui'.id = u.id /\ ui'.profile = u.profile
      /\ ui'.activity = u.activity /\ ui'.draft = u.draft /\ ui'.saved = u.saved
      /\ ~ui'.ready
  BY <1>1 DEF Reload, UiFields
<1>3. /\ DOMAIN app' = AppFields /\ app'.seq = app.seq /\ app'.step = app.step
      /\ app'.base = app.base
  BY <1>1 DEF Reload, AppFields
<1>4. UNCHANGED capture
  BY DEF Reload
<1>5. CapturedBy(app') = CapturedBy(app)
  BY <1>3 DEF CapturedBy
<1>6. Shapes'
  BY <1>2, <1>3 DEF Shapes, Sound
<1>7. Agrees(app, ui)' /\ Governs(baseline, app, ui)'
  BY <1>2, <1>3 DEF Agrees, Governs
<1>8. Captured' /\ Shown'
  BY <1>1, <1>4, <1>5, <1>7 DEF Captured, Shown
<1>9. CASE pending' = Idle
  BY <1>6, <1>7, <1>8, <1>9 DEF Inv, waiting, idle, Idle
<1>10. CASE pending' = p /\ Loads(u, baseline')
  <2>1. p.op = "show" /\ p.call = "apply" /\ p.then = then /\ p.new = new
    OBVIOUS
  <2>2. /\ DOMAIN then = {"ready"} /\ then.ready
    OBVIOUS
  <2>3. DOMAIN new = AppFields /\ new.loaded /\ new.seq = u.saved
        /\ new.base = BaseOf(u.saved, BaselineIn(baseline', u.profile))
    BY LoadedFields
  <2>. HIDE DEF then, new, p
  <2>4. /\ DOMAIN With(then, ui') = UiFields /\ With(then, ui').activity = "sequences"
        /\ With(then, ui').profile = u.profile /\ With(then, ui').id = u.id
        /\ With(then, ui').draft = u.draft
    BY <1>2, <2>2, WithFields DEF UiFields
  <2>5. u.draft = u.saved
    BY <1>10 DEF Loads
  <2>6. Called(p, capture)
    BY <2>1, <2>3 DEF Called, Applies, running
  <2>7. Sound(With(then, ui')) /\ Agrees(new, With(then, ui'))
        /\ Governs(baseline', new, With(then, ui'))
    BY <2>3, <2>4, <2>5 DEF Sound, Agrees, Governs
  <2>8. Shows(p, ui', baseline')
    BY <2>1, <2>7 DEF Shows
  <2>9. KeepsEdit(p, ui')
    BY <1>2, <2>1, <2>5 DEF KeepsEdit
  <2>10. PreparesNext(p, ui') /\ ChangesBaseline(p, app', ui')
           /\ RollsBack(p, ui', baseline') /\ ChangesServer(p, app', ui', baseline')
    BY <2>1 DEF PreparesNext, ChangesBaseline, RollsBack, ChangesServer, Prepared
  <2>11. Due(p, app', ui', capture', baseline')
    BY <1>4, <2>6, <2>8, <2>9, <2>10 DEF Due
  <2>. QED BY <1>6, <1>7, <1>8, <1>10, <2>1, <2>11 DEF Inv, waiting
<1>. QED BY <1>9, <1>10 DEF Reload

(* The new server is stored before the sequence is prepared with it.       *)
LEMMA ResolveKeeps ==
  ASSUME Inv, NEW p \in Profiles, NEW b \in Baselines, resolveServer(p, b) PROVE Inv'
<1>1. /\ idle /\ Unused(p) /\ Sound(ui) /\ DOMAIN files' = Ids /\ p # None
      /\ DOMAIN baseline = Profiles /\ pending = Idle
      /\ baseline' = [baseline EXCEPT ![p] = b]
  BY AppBridgeAssumption DEF resolveServer, Inv, Shapes, idle
<1>2. DOMAIN baseline' = Profiles
        /\ (\A r \in Profiles : r # p => baseline'[r] = baseline[r])
  BY <1>1
<1>3. BaselineIn(baseline', ui.profile) = BaselineIn(baseline, ui.profile)
  BY <1>1, <1>2 DEF BaselineIn, Sound, Unused
<1>4. running => capture = CapturedBy(app) /\ Governs(baseline', app, ui)
  <2>1. running => capture = CapturedBy(app) /\ Governs(baseline, app, ui)
    BY <1>1, IdleFacts DEF Inv, Captured, Shown
  <2>. QED BY <2>1, <1>3 DEF Governs
<1>5. CASE UNCHANGED <<app, capture, ui, pending>>
  <2>1. Shapes' /\ Agrees(app, ui)'
    BY <1>1, <1>2, <1>5 DEF Inv, Shapes
  <2>2. pending' = Idle /\ (running' => capture' = CapturedBy(app)'
          /\ Governs(baseline, app, ui)')
    BY <1>1, <1>4, <1>5 DEF running
  <2>. QED BY <2>1, <2>2, Settled
<1>6. CASE \E named \in SUBSET {i \in Ids : files[i] # None /\ server[i] \notin Known} :
             \E q \in IF ui.id = None THEN {ui.profile}
                      ELSE IF ui.id \in named THEN {p} ELSE Restored(ui.id) :
               LET new == [ui EXCEPT !.profile = q]
               IN  IF q = ui.profile \/ ~sequences
                   THEN ui' = new /\ UNCHANGED <<app, capture, pending>>
                   ELSE IF running THEN Reload(new, baseline') ELSE Prepare(new, baseline')
  <2>1. PICK q \in Profiles \cup {None} :
               LET new == [ui EXCEPT !.profile = q]
               IN  IF q = ui.profile \/ ~sequences
                   THEN ui' = new /\ UNCHANGED <<app, capture, pending>>
                   ELSE IF running THEN Reload(new, baseline') ELSE Prepare(new, baseline')
    BY <1>1, <1>6 DEF Restored, Known, KnownIn, Sound
  <2>. DEFINE u == [ui EXCEPT !.profile = q]
  <2>2. /\ DOMAIN u = UiFields /\ u.id = ui.id /\ u.profile = q
          /\ u.activity = ui.activity
        /\ u.draft = ui.draft /\ u.saved = ui.saved /\ u.quick = ui.quick /\ u.ready = ui.ready
    BY <1>1 DEF Sound, UiFields
  <2>3. IF q = ui.profile \/ ~sequences
        THEN ui' = u /\ UNCHANGED <<app, capture, pending>>
        ELSE IF running THEN Reload(u, baseline') ELSE Prepare(u, baseline')
    BY <2>1
  <2>. HIDE DEF u
  <2>4. Sound(u)
    BY <1>1, <2>2 DEF Sound
  <2>5. CASE (q = ui.profile \/ ~sequences) /\ ui' = u /\ UNCHANGED <<app, capture, pending>>
    <3>1. Shapes' /\ Agrees(app, ui)'
      BY <1>2, <1>1, <2>2, <2>4, <2>5 DEF Inv, Shapes, Agrees
    <3>2. running' => Governs(baseline, app, ui)'
      BY <1>4, <2>2, <2>5 DEF Governs, running, sequences
    <3>3. pending' = Idle /\ (running' => capture' = CapturedBy(app)')
      BY <1>1, <1>4, <2>5 DEF running
    <3>. QED BY <3>1, <3>2, <3>3, Settled
  <2>6. CASE sequences /\ running /\ Reload(u, baseline')
    <3>1. ~StaleStarts => app.seq = u.draft
      BY <1>4, <2>2, <2>6 DEF Governs, sequences
    <3>. QED BY <1>1, <1>2, <2>2, <2>4, <2>6, <3>1, ReloadKeeps DEF sequences
  <2>7. CASE sequences /\ ~running /\ Prepare(u, baseline')
    <3>1. Prepares(u, baseline') /\ pending' = Idle /\ ~running'
      BY <1>1, <2>7 DEF Prepare, running
    <3>. QED BY <1>1, <1>2, <2>2, <2>4, <2>7, <3>1, PreparesAll DEF sequences
  <2>. QED BY <2>3, <2>5, <2>6, <2>7
<1>. QED BY <1>5, <1>6 DEF resolveServer

LEMMA QuickDelayKeeps ==
  ASSUME Inv, idle, NEW q, quickDelay(q),
         DOMAIN files' = Ids, UNCHANGED baseline
  PROVE  Inv'
<1>. DEFINE then == [activity |-> "quick", ready |-> TRUE, quick |-> q]
            new == QuickLoaded(q)
<1>1. Sound(ui)
  BY DEF Inv, Shapes
<1>2. /\ With(then, ui).activity = "quick" /\ With(then, ui).draft = ui.draft
      /\ With(then, ui).saved = ui.saved /\ With(then, ui).quick = q
      /\ With(then, ui).profile = ui.profile /\ With(then, ui).id = ui.id
      /\ DOMAIN With(then, ui) = UiFields
  BY <1>1, WithFields DEF Sound, UiFields
<1>3. /\ "ready" \in DOMAIN then /\ then.ready
      /\ "draft" \notin DOMAIN then /\ "saved" \notin DOMAIN then
  OBVIOUS
<1>4. Replace("show", new, then) /\ "show" \in Applies
  BY DEF quickDelay, Applies
<1>. HIDE DEF then
<1>5. Sound(With(then, ui))
  BY <1>1, <1>2 DEF Sound
<1>6. Agrees(new, With(then, ui)) /\ Governs(baseline, new, With(then, ui))
  BY <1>2 DEF Agrees, Governs
<1>7. DOMAIN new = AppFields
  BY QuickFields
<1>. HIDE DEF new
<1>. QED BY <1>3, <1>4, <1>5, <1>6, <1>7, Replaces

LEMMA SwitchKeeps == ASSUME Inv, switchActivity PROVE Inv'
<1>. DEFINE then == [activity |-> "sequences"]
<1>1. /\ idle /\ (sequences \/ ui.draft = ui.saved) /\ Sound(ui) /\ DOMAIN files' = Ids
        /\ UNCHANGED baseline
      /\ DOMAIN baseline = Profiles /\ pending = Idle
  BY DEF switchActivity, store, Inv, Shapes, idle, dirty
<1>2. \/ quickDelay(ui.quick)
      \/ ~sequences /\ Shutdown("prepare", then)
      \/ ~running /\ Prepare(With(then, ui), baseline)
      \/ /\ ~sequences /\ running
         /\ Replace("show", Loaded(ui.saved, 1, BaselineOf(ui.profile)),
                    [activity |-> "sequences", ready |-> TRUE])
  BY DEF switchActivity
<1>3. /\ With(then, ui).activity = "sequences" /\ With(then, ui).profile = ui.profile
      /\ With(then, ui).id = ui.id /\ DOMAIN With(then, ui) = UiFields
  BY <1>1, WithFields DEF Sound, UiFields
<1>. HIDE DEF then
<1>4. Sound(With(then, ui))
  BY <1>1, <1>3 DEF Sound
<1>5. CASE quickDelay(ui.quick)
  BY <1>1, <1>5, QuickDelayKeeps
<1>6. CASE ~sequences /\ Shutdown("prepare", then)
  BY <1>1, <1>3, <1>4, <1>6, ShutsDownToPrepare DEF Prepared
<1>7. CASE ~running /\ Prepare(With(then, ui), baseline)
  <2>1. Prepares(With(then, ui), baseline') /\ ~running' /\ pending' = Idle
    BY <1>1, <1>7 DEF Prepare, running
  <2>2. DOMAIN baseline' = Profiles
    BY <1>1
  <2>. QED BY <1>1, <1>3, <1>4, <2>1, <2>2, PreparesAll
<1>8. CASE /\ ~sequences
           /\ Replace("show", Loaded(ui.saved, 1, BaselineOf(ui.profile)),
                      [activity |-> "sequences", ready |-> TRUE])
  <2>. DEFINE next == [activity |-> "sequences", ready |-> TRUE]
              new == Loaded(ui.saved, 1, BaselineOf(ui.profile))
  <2>1. /\ With(next, ui).activity = "sequences" /\ With(next, ui).draft = ui.draft
        /\ With(next, ui).profile = ui.profile /\ With(next, ui).id = ui.id
        /\ DOMAIN With(next, ui) = UiFields
    BY <1>1, WithFields DEF Sound, UiFields
  <2>2. "ready" \in DOMAIN next /\ next.ready
    OBVIOUS
  <2>3. Replace("show", new, next) /\ "show" \in Applies
    BY <1>8 DEF Applies
  <2>. HIDE DEF next
  <2>4. Sound(With(next, ui))
    BY <1>1, <2>1 DEF Sound
  <2>5. Agrees(new, With(next, ui)) /\ Governs(baseline, new, With(next, ui))
    BY <1>1, <1>8, <2>1, LoadedFields DEF Agrees, Governs, BaselineOf
  <2>6. DOMAIN new = AppFields
    BY LoadedFields
  <2>. HIDE DEF new
  <2>. QED BY <1>1, <1>8, <2>2, <2>3, <2>4, <2>5, <2>6, Replaces
<1>. QED BY <1>2, <1>5, <1>6, <1>7, <1>8

LEMMA SetQuickKeeps == ASSUME Inv, SetQuick PROVE Inv'
<1>1. /\ idle /\ DOMAIN files' = Ids /\ UNCHANGED baseline
  BY DEF SetQuick, store, Inv, Shapes
<1>2. PICK q \in Quick : quickDelay(q)
  BY DEF SetQuick
<1>. QED BY <1>1, <1>2, QuickDelayKeeps

(* Start is pressed on what is shown.                                      *)
LEMMA StartKeeps == ASSUME Inv, Start PROVE Inv'
<1>1. /\ idle /\ ~running /\ canStart /\ (StaleStarts \/ Current) /\ Call("show", "start", app, <<>>)
      /\ Sound(ui) /\ DOMAIN app = AppFields /\ DOMAIN files' = Ids /\ UNCHANGED baseline
      /\ DOMAIN baseline' = Profiles
  BY DEF Start, store, Inv, Shapes
<1>2. sequences => ui.draft = ui.saved
  BY <1>1 DEF canStart, dirty
<1>3. /\ DOMAIN With(<<>>, ui) = UiFields
      /\ \A f \in UiFields : With(<<>>, ui)[f] = ui[f]
  BY <1>1, WithFields DEF Sound
<1>4. Sound(With(<<>>, ui)) /\ Agrees(app, With(<<>>, ui))
  BY <1>1, <1>3 DEF Inv, Sound, Agrees, UiFields
<1>5. Governs(baseline', app, With(<<>>, ui))
  BY <1>1, <1>2, <1>3 DEF Governs, UiFields, Current, sequences, BaselineOf
<1>6. KeepsEdit([op |-> "show", call |-> "start", new |-> app, then |-> <<>>], ui)
  BY DEF KeepsEdit
<1>7. Due([op |-> "show", call |-> "start", new |-> app, then |-> <<>>],
          app, ui, capture, baseline')
  BY <1>1, <1>2, <1>4, <1>5, <1>6, ApplyDue DEF Applies, sequences
<1>. QED BY <1>1, <1>7, Asks

LEMMA StopKeeps == ASSUME Inv, Stop PROVE Inv'
<1>1. /\ idle /\ Call("show", "stop", app, <<>>) /\ DOMAIN files' = Ids
      /\ DOMAIN baseline' = Profiles
  BY DEF Stop, Shutdown, store, Inv, Shapes
<1>2. Due([op |-> "show", call |-> "stop", new |-> app, then |-> <<>>],
          app, ui, capture, baseline')
  BY ShutdownDue
<1>. QED BY <1>1, <1>2, Asks

LEMMA MoveKeeps == ASSUME Inv, Move PROVE Inv'
<1>1. /\ idle /\ app.loaded /\ Sound(ui) /\ DOMAIN app = AppFields
        /\ DOMAIN files' = Ids
      /\ UNCHANGED baseline
  BY DEF Move, store, Inv, Shapes
<1>2. PICK step \in 1 .. Steps[app.seq] : Replace("show", [app EXCEPT !.step = step], <<>>)
  BY DEF Move
<1>. DEFINE new == [app EXCEPT !.step = step]
<1>3. /\ DOMAIN new = AppFields /\ new.seq = app.seq /\ new.base = app.base
      /\ new.loaded = app.loaded
  BY <1>1 DEF AppFields
<1>4. Replace("show", new, <<>>) /\ "show" \in Applies
  BY <1>2 DEF Applies
<1>. HIDE DEF new
<1>5. sequences
  BY <1>1, QuickFields DEF Inv, Agrees, sequences
<1>6. /\ DOMAIN With(<<>>, ui) = UiFields
      /\ \A f \in UiFields : With(<<>>, ui)[f] = ui[f]
  BY <1>1, WithFields DEF Sound
<1>7. Sound(With(<<>>, ui)) /\ Agrees(new, With(<<>>, ui))
  BY <1>1, <1>3, <1>5, <1>6 DEF Sound, Agrees, UiFields, sequences
<1>8. CASE running
  <2>1. Governs(baseline, app, ui)
    BY <1>1, <1>8, IdleFacts DEF Inv, Shown, idle
  <2>2. Governs(baseline, new, With(<<>>, ui))
    BY <1>3, <1>6, <2>1 DEF Governs, UiFields
  <2>. QED BY <1>1, <1>3, <1>4, <1>7, <2>2, Replaces
<1>9. CASE ~running
  <2>1. app' = new /\ ui' = With(<<>>, ui) /\ UNCHANGED <<capture, pending>>
    BY <1>4, <1>9 DEF Replace
  <2>2. Shapes' /\ Agrees(app, ui)'
    BY <1>1, <1>3, <1>7, <2>1 DEF Inv, Shapes
  <2>3. pending' = Idle /\ ~running'
    BY <1>1, <1>9, <2>1 DEF idle, running
  <2>. QED BY <2>2, <2>3, Stopped
<1>. QED BY <1>8, <1>9

-----------------------------------------------------------------------------
(* What operations do when the backend has answered.                       *)

(* The settings asked for are accepted; u is shown with them.              *)
LEMMA Accepted ==
  ASSUME Inv, waiting, pending.op \in Applies, pending.call # "stop", Succeeds, NEW u,
         Sound(u), Agrees(pending.new, u), Governs(baseline, pending.new, u),
         ui' = u, DOMAIN files' = Ids, UNCHANGED baseline
  PROVE  Inv'
<1>1. Due(pending, app, ui, capture, baseline)
  BY DEF Inv
<1>2. /\ pending' = Idle /\ app' = pending.new /\ capture' = CapturedBy(pending.new)
  BY DEF Succeeds
<1>3. Shapes'
  BY <1>1, <1>2 DEF Inv, Shapes, Due, Called
<1>. QED BY <1>2, <1>3, Settled

(* The settings asked for are refused, and nothing else is shown.          *)
LEMMA Refused ==
  ASSUME Inv, waiting, pending.op \notin {"rollback", "profile"}, Fails, UNCHANGED <<ui, baseline>>,
         DOMAIN files' = Ids
  PROVE  Inv'
<1>1. /\ pending' = Idle /\ app' = app /\ pending.call # "stop"
      /\ Shapes' /\ Agrees(app, ui)'
  BY DEF Fails, Inv, Shapes
<1>2. CASE capture' = Off
  BY <1>1, <1>2, IdleFacts, Stopped DEF running
<1>3. CASE pending.call = "apply" /\ UNCHANGED capture
  <2>1. running' => capture' = CapturedBy(app)' /\ Governs(baseline, app, ui)'
    BY <1>1, <1>3 DEF Inv, Captured, Shown, running
  <2>. QED BY <1>1, <2>1, Settled
<1>4. CASE pending.call = "restart" /\ capture' = CapturedBy(app)
  <2>1. running
    BY <1>4 DEF Inv, Due, Called, running
  <2>2. Governs(baseline, app, ui)'
    BY <1>1, <2>1 DEF Inv, Shown
  <2>. QED BY <1>1, <1>4, <2>2, Settled
<1>. QED BY <1>2, <1>3, <1>4 DEF Fails

LEMMA ReturnsKeeps == ASSUME Inv, Returns PROVE Inv'
<1>1. /\ waiting /\ pending.op \in Applies /\ DOMAIN files' = Ids /\ UNCHANGED baseline
      /\ Sound(ui) /\ Due(pending, app, ui, capture, baseline)
      /\ pending.op \notin {"rollback", "profile"}
  BY DEF Returns, store, Inv, Shapes, waiting, Applies
<1>2. CASE Succeeds /\ ui' = With(pending.then, ui) /\ pending.call # "stop"
  BY <1>1, <1>2, Accepted DEF Due, Shows
<1>3. CASE Succeeds /\ ui' = With(pending.then, ui) /\ pending.call = "stop"
  <2>1. pending.then = <<>>
    BY <1>1, <1>3 DEF Due, Called
  <2>2. /\ DOMAIN ui' = UiFields
        /\ \A f \in UiFields : ui'[f] = ui[f]
    BY <1>1, <1>3, <2>1, WithFields DEF Sound
  <2>3. /\ pending' = Idle /\ app' = app /\ capture' = Off
    BY <1>3 DEF Succeeds
  <2>4. Shapes' /\ Agrees(app, ui)'
    BY <1>1, <2>2, <2>3 DEF Inv, Shapes, Sound, Agrees, UiFields
  <2>. QED BY <2>3, <2>4, IdleFacts, Stopped DEF running
<1>4. CASE Fails /\ UNCHANGED ui
  BY <1>1, <1>4, Refused
<1>. QED BY <1>2, <1>3, <1>4 DEF Returns

LEMMA PrepareReturnsKeeps == ASSUME Inv, PrepareReturns PROVE Inv'
<1>1. /\ waiting /\ pending.op \in Prepared /\ DOMAIN files' = Ids /\ UNCHANGED baseline
      /\ Due(pending, app, ui, capture, baseline) /\ DOMAIN baseline' = Profiles
      /\ pending' = Idle /\ capture' = Off
      /\ Prepares(With(pending.then, ui), baseline')
  BY DEF PrepareReturns, store, Inv, Shapes, waiting, Prepared
<1>2. Sound(With(pending.then, ui)) /\ With(pending.then, ui).activity = "sequences"
  BY <1>1 DEF Due, PreparesNext
<1>. QED BY <1>1, <1>2, IdleFacts, PreparesAll DEF running

LEMMA CommitReturnsKeeps == ASSUME Inv, CommitReturns PROVE Inv'
<1>1. /\ waiting /\ pending.op \in Applies /\ DOMAIN files' = Ids /\ UNCHANGED baseline
      /\ Due(pending, app, ui, capture, baseline) /\ pending.op = "commit"
      /\ pending.call # "stop"
  BY DEF CommitReturns, store, Inv, Shapes, waiting, Applies, Due, Called
<1>2. CASE Succeeds /\ ui' = With(pending.then, ui)
  BY <1>1, <1>2, Accepted DEF Due, Shows
<1>3. CASE Fails /\ UNCHANGED ui
  BY <1>1, <1>3, Refused
<1>. QED BY <1>2, <1>3 DEF CommitReturns

LEMMA SaveReturnsKeeps == ASSUME Inv, SaveReturns PROVE Inv'
<1>1. /\ waiting /\ pending.op \in Applies /\ Sound(ui)
      /\ Due(pending, app, ui, capture, baseline) /\ pending.op = "save"
      /\ pending.call # "stop" /\ DOMAIN files = Ids
  BY DEF SaveReturns, Inv, Shapes, waiting, Applies, Due, Called
<1>2. CASE Succeeds /\ ui' = With(pending.then, ui) /\ UNCHANGED store
  BY <1>1, <1>2, Accepted DEF Due, Shows, store
<1>3. CASE Succeeds /\ \E i \in SaveIds(ui) :
                          Writes(ui, i) /\ ui' = With(pending.then, SavedAs(ui, i))
  <2>1. PICK i \in SaveIds(ui) : Writes(ui, i)
          /\ ui' = With(pending.then, SavedAs(ui, i))
    BY <1>3
  <2>2. i \in Ids /\ UNCHANGED baseline /\ DOMAIN files' = Ids
    BY <1>1, <2>1 DEF SaveIds, Writes, Sound
  <2>3. DOMAIN pending.then = {"ready"}
    BY <1>1 DEF Due, KeepsEdit
  <2>. DEFINE u == With(pending.then, ui)
              v == With(pending.then, SavedAs(ui, i))
  <2>4. /\ DOMAIN v = UiFields /\ v.id = i /\ v.profile = u.profile
        /\ v.activity = u.activity /\ v.draft = u.draft /\ v.saved = u.draft
        /\ v.ready = u.ready /\ v.quick = u.quick
    BY <1>1, <2>3, WithFields, SavedAsFields DEF Sound, UiFields
  <2>5. Sound(u) /\ Agrees(pending.new, u) /\ Governs(baseline, pending.new, u)
    BY <1>1 DEF Due, Shows
  <2>. HIDE DEF u, v
  <2>6. Sound(v) /\ Agrees(pending.new, v) /\ Governs(baseline, pending.new, v)
    BY <2>2, <2>4, <2>5 DEF Sound, Agrees, Governs
  <2>7. ui' = v
    BY <2>1 DEF v
  <2>. QED BY <1>1, <1>3, <2>2, <2>6, <2>7, Accepted
<1>4. CASE Fails /\ UNCHANGED <<ui, store>>
  BY <1>1, <1>4, Refused DEF store
<1>. QED BY <1>2, <1>3, <1>4 DEF SaveReturns

LEMMA ImportReturnsKeeps == ASSUME Inv, ImportReturns PROVE Inv'
<1>. DEFINE u == With(pending.then, ui)
<1>1. /\ waiting /\ pending.op \in Prepared /\ DOMAIN files = Ids
        /\ DOMAIN baseline = Profiles
      /\ Due(pending, app, ui, capture, baseline) /\ pending' = Idle /\ capture' = Off
      /\ \/ Prepares(u, baseline) /\ UNCHANGED store
         \/ \E i \in SaveIds(u) : Writes(u, i) /\ Prepares(SavedAs(u, i), baseline)
  BY DEF ImportReturns, Inv, Shapes, waiting, Prepared
<1>2. Sound(u) /\ u.activity = "sequences"
  BY <1>1 DEF Due, PreparesNext
<1>. HIDE DEF u
<1>3. ~running'
  BY <1>1, IdleFacts DEF running
<1>4. CASE Prepares(u, baseline) /\ UNCHANGED store
  <2>1. Prepares(u, baseline') /\ DOMAIN files' = Ids /\ DOMAIN baseline' = Profiles
    BY <1>1, <1>4 DEF store
  <2>. QED BY <1>1, <1>2, <1>3, <2>1, PreparesAll
<1>5. CASE \E i \in SaveIds(u) : Writes(u, i) /\ Prepares(SavedAs(u, i), baseline)
  <2>1. PICK i \in SaveIds(u) : Writes(u, i) /\ Prepares(SavedAs(u, i), baseline)
    BY <1>5
  <2>2. i \in Ids /\ UNCHANGED baseline /\ DOMAIN files' = Ids
    BY <1>1, <1>2, <2>1 DEF SaveIds, Writes, Sound
  <2>3. Sound(SavedAs(u, i)) /\ SavedAs(u, i).activity = "sequences"
    BY <1>2, <2>2, SavedAsFields DEF Sound
  <2>4. Prepares(SavedAs(u, i), baseline') /\ DOMAIN baseline' = Profiles
    BY <1>1, <2>1, <2>2
  <2>. QED BY <1>1, <1>3, <2>2, <2>3, <2>4, PreparesAll
<1>. QED BY <1>1, <1>4, <1>5

LEMMA ProfileReturnsKeeps == ASSUME Inv, ProfileReturns PROVE Inv'
<1>1. /\ waiting /\ pending.op \in Applies /\ DOMAIN files' = Ids /\ UNCHANGED baseline
      /\ Due(pending, app, ui, capture, baseline) /\ pending.op = "profile"
      /\ pending.call # "stop"
  BY DEF ProfileReturns, Inv, Shapes, waiting, Applies, Due, Called
<1>2. CASE Succeeds /\ ui' = With(pending.then, ui)
  BY <1>1, <1>2, Accepted DEF Due, Shows
<1>3. CASE Fails /\ ui' = [ui EXCEPT !.profile = pending.before]
  <2>1. /\ Shapes /\ Agrees(app, ui) /\ pending.before \in Profiles \cup {None}
        /\ Governs(baseline, app, [ui EXCEPT !.profile = pending.before])
    BY <1>1 DEF Inv, Due, ChangesServer
  <2>2. /\ DOMAIN ui' = UiFields /\ ui'.profile = pending.before
        /\ \A f \in UiFields \ {"profile"} : ui'[f] = ui[f]
    BY <1>3, <2>1 DEF Shapes, Sound, UiFields
  <2>3. app' = app /\ pending' = Idle
    BY <1>3 DEF Fails
  <2>4. Shapes' /\ Agrees(app, ui)'
    BY <1>1, <2>1, <2>2, <2>3 DEF Shapes, Sound, Agrees, UiFields
  <2>5. Governs(baseline, app, ui)'
    BY <1>1, <1>3, <2>1, <2>3
  <2>6. running' => capture' = CapturedBy(app)'
    BY <1>1, <1>3, IdleFacts DEF Fails, Inv, Captured, running
  <2>. QED BY <2>3, <2>4, <2>5, <2>6, Settled
<1>. QED BY <1>2, <1>3 DEF ProfileReturns

LEMMA DeselectReturnsKeeps == ASSUME Inv, DeselectReturns PROVE Inv'
<1>1. /\ waiting /\ DOMAIN files' = Ids /\ UNCHANGED baseline
        /\ DOMAIN baseline' = Profiles
      /\ Sound(ui) /\ sequences /\ pending' = Idle /\ ~running'
  BY IdleFacts DEF DeselectReturns, store, Inv, Shapes, waiting, Due, PreparesNext,
    sequences, running
<1>2. CASE Prepares([ui EXCEPT !.profile = None], baseline)
  <2>. DEFINE u == [ui EXCEPT !.profile = None]
  <2>1. DOMAIN u = UiFields /\ u.id = ui.id /\ u.profile = None
          /\ u.activity = ui.activity
    BY <1>1 DEF Sound, UiFields
  <2>2. Prepares(u, baseline')
    BY <1>1, <1>2
  <2>. HIDE DEF u
  <2>3. Sound(u) /\ u.activity = "sequences"
    BY <1>1, <2>1 DEF Sound, sequences
  <2>. QED BY <1>1, <2>2, <2>3, PreparesAll
<1>3. CASE UNCHANGED <<app, ui>>
  <2>1. Shapes' /\ Agrees(app, ui)'
    BY <1>1, <1>3 DEF Inv, Shapes
  <2>. QED BY <1>1, <2>1, Stopped
<1>. QED BY <1>2, <1>3 DEF DeselectReturns

(* The new baseline is accepted and stored, accepted and taken back, or    *)
(* refused.                                                                *)
LEMMA BaselineReturnsKeeps == ASSUME Inv, BaselineReturns PROVE Inv'
<1>1. /\ waiting /\ pending.op = "baseline" /\ DOMAIN files' = Ids /\ UNCHANGED ui
      /\ Sound(ui) /\ DOMAIN baseline = Profiles /\ Due(pending, app, ui, capture, baseline)
      /\ Agrees(app, ui) /\ pending.op \notin {"rollback", "profile"}
  BY DEF BaselineReturns, Inv, Shapes, waiting
<1>2. /\ pending.call = "apply" /\ sequences /\ DOMAIN pending.new = AppFields
        /\ running
      /\ pending.then.profile = ui.profile /\ ui.profile \in Profiles /\ ui.profile # None
      /\ pending.new.seq = app.seq /\ pending.new.base = BaseOf(app.seq, pending.then.baseline)
      /\ pending.new.loaded
      /\ DOMAIN pending.then.before = AppFields
      /\ pending.then.before.seq = app.seq /\ pending.then.before.base = app.base
      /\ pending.then.before.loaded
  BY <1>1, AppBridgeAssumption DEF Due, Called, ChangesBaseline, sequences, running
<1>3. Governs(baseline, app, ui)
  BY <1>1, <1>2 DEF Inv, Shown
<1>4. Agrees(pending.new, ui)
  BY <1>2 DEF Agrees, sequences
<1>5. CASE /\ Succeeds
           /\ baseline' = [baseline EXCEPT ![pending.then.profile] = pending.then.baseline]
  <2>1. /\ pending' = Idle /\ app' = pending.new /\ capture' = CapturedBy(pending.new)
    BY <1>2, <1>5 DEF Succeeds
  <2>2. DOMAIN baseline' = Profiles
          /\ BaselineIn(baseline', ui.profile) = pending.then.baseline
    BY <1>1, <1>2, <1>5 DEF BaselineIn
  <2>3. Governs(baseline, app, ui)'
    BY <1>1, <1>2, <1>3, <2>1, <2>2 DEF Governs
  <2>4. Shapes' /\ Agrees(app, ui)'
    BY <1>1, <1>2, <1>4, <2>1, <2>2 DEF Shapes
  <2>. QED BY <2>1, <2>3, <2>4, Settled
<1>6. CASE /\ app' = pending.new /\ capture' = CapturedBy(app')
           /\ pending' = [op |-> "rollback", call |-> "apply", new |-> pending.then.before]
           /\ UNCHANGED baseline
  <2>. DEFINE q == [op |-> "rollback", call |-> "apply", new |-> pending.then.before]
  <2>1. q.op = "rollback" /\ q.call = "apply" /\ q.new = pending.then.before
    OBVIOUS
  <2>2. pending' = q
    BY <1>6
  <2>. HIDE DEF q
  <2>3. capture'.on
    BY <1>6, CapturedByFields
  <2>4. Governs(baseline, pending.then.before, ui)
    BY <1>2, <1>3 DEF Governs
  <2>5. Called(q, capture') /\ RollsBack(q, ui', baseline')
    BY <1>1, <1>2, <1>6, <2>1, <2>3, <2>4 DEF Called, RollsBack, Applies, Prepared,
      sequences
  <2>6. Shows(q, ui', baseline') /\ KeepsEdit(q, ui') /\ PreparesNext(q, ui')
        /\ ChangesBaseline(q, app', ui') /\ ChangesServer(q, app', ui', baseline')
    BY <2>1 DEF Shows, KeepsEdit, PreparesNext, ChangesBaseline, ChangesServer, Applies, Prepared
  <2>7. Due(pending', app', ui', capture', baseline')
    BY <2>2, <2>5, <2>6 DEF Due
  <2>8. Shapes' /\ Agrees(app, ui)'
    BY <1>1, <1>2, <1>4, <1>6 DEF Shapes
  <2>9. Captured' /\ Shown'
    BY <1>6, <2>1, <2>2 DEF Captured, Shown, waiting
  <2>. QED BY <2>1, <2>2, <2>7, <2>8, <2>9 DEF Inv, waiting
<1>7. CASE Fails /\ UNCHANGED baseline
  BY <1>1, <1>7, Refused
<1>. QED BY <1>5, <1>6, <1>7 DEF BaselineReturns

(* The settings of before are accepted again, or capture is shut down.     *)
LEMMA RollbackReturnsKeeps == ASSUME Inv, RollbackReturns PROVE Inv'
<1>1. /\ waiting /\ pending.op = "rollback" /\ DOMAIN files' = Ids
        /\ UNCHANGED <<ui, baseline>>
      /\ Sound(ui) /\ DOMAIN baseline = Profiles /\ Due(pending, app, ui, capture, baseline)
      /\ Shapes /\ Agrees(app, ui)
  BY DEF RollbackReturns, store, Inv, Shapes, waiting
<1>2. CASE Succeeds
  <2>1. /\ pending.call = "apply" /\ sequences /\ DOMAIN pending.new = AppFields
        /\ pending.new.loaded /\ Governs(baseline, pending.new, ui)
    BY <1>1 DEF Due, Called, RollsBack, sequences
  <2>2. /\ pending' = Idle /\ app' = pending.new /\ capture' = CapturedBy(pending.new)
    BY <1>2, <2>1 DEF Succeeds
  <2>3. Shapes' /\ Agrees(app, ui)'
    BY <1>1, <2>1, <2>2 DEF Shapes, Agrees, sequences
  <2>4. Governs(baseline, app, ui)'
    BY <1>1, <2>1, <2>2
  <2>. QED BY <2>2, <2>3, <2>4, Settled
<1>3. CASE /\ pending' = [op |-> "show", call |-> "stop", new |-> app, then |-> <<>>]
           /\ capture' \in {capture, Off}
           /\ UNCHANGED app
  <2>1. Due([op |-> "show", call |-> "stop", new |-> app, then |-> <<>>],
            app', ui', capture', baseline')
    BY ShutdownDue
  <2>2. pending'.op = "show" /\ pending'.call = "stop"
    BY <1>3
  <2>3. Captured'
    <3>1. running => capture = CapturedBy(app)
      BY <1>1 DEF Inv, Captured, Due, RollsBack
    <3>. QED BY <1>3, <3>1, IdleFacts DEF Captured, running
  <2>4. Shown' /\ Shapes' /\ Agrees(app, ui)'
    BY <1>1, <1>3, <2>2 DEF Shown, Shapes, waiting
  <2>. QED BY <1>3, <2>1, <2>2, <2>3, <2>4 DEF Inv, waiting
<1>. QED BY <1>2, <1>3 DEF RollbackReturns

-----------------------------------------------------------------------------
(* The autosave timer, which may run out while an operation waits: what    *)
(* that operation installs is then shown with the sequence that was saved. *)
LEMMA AutosaveKeeps == ASSUME Inv, Autosave PROVE Inv'
<1>1. dirty /\ Sound(ui) /\ DOMAIN app = AppFields /\ DOMAIN files = Ids
        /\ DOMAIN baseline = Profiles
  BY DEF Autosave, Inv, Shapes
<1>2. CASE ~sequences /\ \E i \in SaveIds(ui) : Writes(ui, i) /\ ui' = SavedAs(ui, i)
             /\ UNCHANGED <<app, capture, pending>>
  BY <1>1, <1>2, BesideQuickKeeps
<1>3. CASE idle /\ \E busy \in BOOLEAN : Save(running, busy)
  BY <1>1, <1>3, SaveKeeps
<1>4. CASE /\ ~idle
           /\ \E seen \in IF pending.call = "restart" THEN BOOLEAN ELSE {running} : Save(seen, TRUE)
  <2>1. PICK seen \in IF pending.call = "restart" THEN BOOLEAN ELSE {running} : Save(seen, TRUE)
    BY <1>4
  <2>2. CASE UNCHANGED <<app, capture, ui, store, pending>>
    BY <1>1, <2>2, Untouched DEF store
  <2>3. CASE /\ sequences /\ ~seen /\ UNCHANGED <<capture, pending>>
             /\ \E i \in SaveIds(ui) : Writes(ui, i) /\ Prepares(SavedAs(ui, i), baseline)
    <3>1. PICK i \in SaveIds(ui) : Writes(ui, i) /\ Prepares(SavedAs(ui, i), baseline)
      BY <2>3
    <3>2. i \in Ids /\ UNCHANGED baseline /\ DOMAIN files' = Ids
            /\ DOMAIN baseline' = Profiles
      BY <1>1, <3>1 DEF SaveIds, Writes, Sound
    <3>3. Sound(SavedAs(ui, i)) /\ SavedAs(ui, i).activity = "sequences"
      BY <1>1, <2>3, <3>2, SavedAsFields DEF Sound, sequences
    <3>4. /\ Sound(ui') /\ DOMAIN app' = AppFields /\ Agrees(app', ui')
          /\ (~StaleStarts => app.seq = ui.draft) => Governs(baseline', app', ui')
      BY <1>1, <3>1, <3>2, <3>3, PreparesAgrees, SavedAsFields DEF Sound
    <3>5. DOMAIN SavedAs(ui, i) = UiFields /\ DOMAIN ui = UiFields
      BY <1>1, <3>3 DEF Sound
    <3>6. /\ DOMAIN ui' = UiFields /\ ui'.activity = ui.activity /\ ui'.id = i
          /\ ui'.profile = ui.profile /\ ui'.draft = ui.draft /\ ui'.saved = ui.draft
          /\ ui'.quick = ui.quick
      BY <1>1, <3>1, <3>5, PreparesFields, SavedAsFields
    <3>7. waiting /\ Due(pending, app, ui, capture, baseline)
      BY <1>4 DEF Inv
    <3>8. running => pending.call = "restart"
      BY <2>1, <2>3
    <3>9. pending.op \notin Prepared \cup {"baseline", "rollback"}
      BY <1>1, <3>7, <3>8 DEF Due, Called, PreparesNext, ChangesBaseline, RollsBack,
        dirty, running
    <3>a. pending.op = "profile" => StaleStarts
      BY <1>1, <3>7, <3>8 DEF Due, Called, ChangesServer, running
    <3>10. pending.op \in Applies /\ pending.call # "stop" =>
             pending.call = "restart" /\ "ready" \in DOMAIN pending.then /\ pending.then.ready
      BY <1>1, <2>3, <3>7, <3>8 DEF Due, Called, Shows, dirty, running, sequences
    <3>11. Called(pending, capture) /\ KeepsEdit(pending, ui')
      BY <1>1, <3>6, <3>7 DEF Due, KeepsEdit, dirty
    <3>12. PreparesNext(pending, ui') /\ ChangesBaseline(pending, app', ui')
           /\ RollsBack(pending, ui', baseline') /\ ChangesServer(pending, app', ui', baseline')
      BY <3>6, <3>7, <3>9, <3>a
      DEF Due, PreparesNext, ChangesBaseline, RollsBack, ChangesServer, Governs
    <3>13. Shows(pending, ui', baseline')
      <4>1. SUFFICES ASSUME pending.op \in Applies, pending.call # "stop"
                     PROVE  /\ Sound(With(pending.then, ui'))
                            /\ Agrees(pending.new, With(pending.then, ui'))
                            /\ Governs(baseline', pending.new, With(pending.then, ui'))
                            /\ pending.call # "start"
        BY DEF Shows
      <4>. DEFINE u == With(pending.then, ui)
                  v == With(pending.then, ui')
      <4>2. Sound(u) /\ Agrees(pending.new, u) /\ Governs(baseline, pending.new, u)
        BY <3>7, <4>1 DEF Due, Shows
      <4>3. /\ \A f \in UiFields \ {"id", "saved", "ready"} : v[f] = u[f]
            /\ v.ready = u.ready /\ v.id \in {u.id, i} /\ DOMAIN v = UiFields
        BY <3>5, <3>6, <3>10, <4>1, WithFields DEF UiFields
      <4>5. /\ v.activity = u.activity /\ v.profile = u.profile /\ v.draft = u.draft
            /\ v.quick = u.quick
        BY <4>3 DEF UiFields
      <4>. HIDE DEF u, v
      <4>6. Sound(v) /\ Agrees(pending.new, v) /\ Governs(baseline', pending.new, v)
        BY <3>2, <4>2, <4>3, <4>5 DEF Sound, Agrees, Governs
      <4>. QED BY <3>10, <4>1, <4>6 DEF v
    <3>14. Due(pending, app, ui, capture, baseline)'
      BY <2>3, <3>11, <3>12, <3>13 DEF Due
    <3>15. Shapes' /\ waiting'
      BY <2>3, <3>2, <3>4, <3>7 DEF Shapes, waiting
    <3>16. Captured' /\ Shown'
      <4>1. running /\ pending.op # "profile" /\ ~StaleStarts => app.seq = ui.draft
        BY <2>3, <3>8, <3>9 DEF Inv, Shown, Governs, sequences
      <4>. QED BY <2>3, <3>4, <3>7, <3>8, <4>1 DEF Captured, Shown, running, waiting
    <3>. QED BY <3>4, <3>14, <3>15, <3>16 DEF Inv
  <2>. QED BY <1>2, <2>1, <2>2, <2>3 DEF Save, store
<1>. QED BY <1>3, <1>4 DEF Autosave

LEMMA CaptureEndsKeeps == ASSUME Inv, CaptureEnds PROVE Inv'
<1>1. /\ pending' = Idle /\ ~running' /\ UNCHANGED <<app, ui, files, baseline>>
  BY IdleFacts DEF CaptureEnds, store, idle, running
<1>2. Shapes' /\ Agrees(app, ui)'
  BY <1>1 DEF Inv, Shapes
<1>. QED BY <1>1, <1>2, Stopped

LEMMA ReopenedKeeps == ASSUME Inv, Reopened PROVE Inv'
<1>1. /\ pending' = Idle /\ ~running' /\ UNCHANGED <<files, baseline>>
      /\ app' = QuickLoaded(NoDelay) /\ ui' = InitialUi
  BY IdleFacts DEF Reopened, store, running
<1>2. Sound(ui') /\ Agrees(app', ui')
  BY <1>1 DEF InitialUi, Sound, Agrees, UiFields
<1>3. DOMAIN app' = AppFields
  BY <1>1, QuickFields
<1>4. Shapes'
  BY <1>1, <1>2, <1>3 DEF Inv, Shapes
<1>. QED BY <1>1, <1>2, <1>4, Stopped

(* Steps that only concern the library and the autosave setting.           *)
LEMMA LibraryKeeps ==
  ASSUME Inv,
         \/ setAutoSave \/ NothingToSave
         \/ \E i, j \in Ids : BatchDuplicate(i, j)
         \/ \E i \in Ids, c \in Contents \cup {None} : OutsideEdit(i, c)
  PROVE  Inv'
<1>1. /\ UNCHANGED <<app, capture, ui, pending, baseline>> /\ DOMAIN files' = Ids
  BY DEF setAutoSave, NothingToSave, BatchDuplicate, OutsideEdit, store, Inv, Shapes
<1>. QED BY <1>1, Untouched

LEMMA OperationKeeps == ASSUME Inv, Operation PROVE Inv'
<1>1. CASE \E c \in Contents : commitDraft(c)
  BY <1>1, CommitKeeps
<1>2. CASE save
  BY <1>2, SaveKeeps DEF save
<1>3. CASE discard
  BY <1>3, DiscardKeeps
<1>4. CASE setAutoSave \/ \E i, j \in Ids : BatchDuplicate(i, j)
  BY <1>4, LibraryKeeps
<1>5. CASE \E i \in Ids : selectPreset(i)
  BY <1>5, SelectKeeps
<1>6. CASE newPreset
  BY <1>6, NewKeeps
<1>7. CASE duplicate
  BY <1>7, DuplicateKeeps
<1>8. CASE importPreset
  BY <1>8, ImportKeeps
<1>9. CASE deletePreset
  <2>1. ui.id \in Ids
    BY <1>9 DEF deletePreset, Inv, Shapes, Sound
  <2>. QED BY <1>9, <2>1, DeleteKeeps DEF deletePreset
<1>10. CASE \E i \in Ids : BatchDelete(i)
  BY <1>10, DeleteKeeps DEF BatchDelete
<1>11. CASE \E p \in Profiles \cup {None} : selectProfile(p)
  BY <1>11, SelectProfileKeeps
<1>12. CASE \E p \in Profiles, b \in Baselines : saveProfile(p, b)
  BY <1>12, SaveProfileKeeps
<1>13. CASE \E p \in Profiles, b \in Baselines : resolveServer(p, b)
  BY <1>13, ResolveKeeps
<1>14. CASE \E p \in Profiles : deleteProfile(p)
  BY <1>14, DeleteProfileKeeps
<1>15. CASE switchActivity
  BY <1>15, SwitchKeeps
<1>16. CASE SetQuick
  BY <1>16, SetQuickKeeps
<1>17. CASE Start
  BY <1>17, StartKeeps
<1>18. CASE Stop
  BY <1>18, StopKeeps
<1>19. CASE Move
  BY <1>19, MoveKeeps
<1>. QED
  BY <1>1, <1>2, <1>3, <1>4, <1>5, <1>6, <1>7, <1>8, <1>9, <1>10, <1>11, <1>12, <1>13,
            <1>14, <1>15, <1>16, <1>17, <1>18, <1>19 DEF Operation

LEMMA ReturnKeeps == ASSUME Inv, Return PROVE Inv'
  BY ReturnsKeeps, PrepareReturnsKeeps, CommitReturnsKeeps, SaveReturnsKeeps,
    ImportReturnsKeeps,
     ProfileReturnsKeeps, DeselectReturnsKeeps, BaselineReturnsKeeps, RollbackReturnsKeeps
  DEF Return

(* Every step keeps what Inv says.                                         *)
LEMMA Inductive == Inv /\ [Next]_vars => Inv'
<1>. SUFFICES ASSUME Inv, [Next]_vars PROVE Inv'
  OBVIOUS
<1>1. CASE Operation
  BY <1>1, OperationKeeps
<1>2. CASE Return
  BY <1>2, ReturnKeeps
<1>3. CASE Autosave
  BY <1>3, AutosaveKeeps
<1>4. CASE NothingToSave \/ \E i \in Ids, c \in Contents \cup {None} : OutsideEdit(i, c)
  BY <1>4, LibraryKeeps
<1>5. CASE CaptureEnds
  BY <1>5, CaptureEndsKeeps
<1>6. CASE Reopened
  BY <1>6, ReopenedKeeps
<1>7. CASE UNCHANGED vars
  BY <1>7, Untouched DEF vars, store, Inv, Shapes
<1>. QED BY <1>1, <1>2, <1>3, <1>4, <1>5, <1>6, <1>7 DEF Next

(* In every reachable state the controller holds what is shown or nothing  *)
(* Start could activate, and an operation that waits will install what it  *)
(* shows.                                                                  *)
THEOREM InvHolds == Spec => []Inv
  BY Initially, Inductive, PTL DEF Spec

(* "A selected but incomplete sequence must never leave the previous quick *)
(* delay armed" (app_bridge.cpp:524): what Start would activate belongs to *)
(* the activity that is shown.                                             *)
THEOREM ArmedHolds == Spec => []Armed
<1>1. Inv => Armed
  BY DEF Inv, Armed, Agrees, canStart, sequences
<1>. QED BY <1>1, InvHolds, PTL

(* "Read backend state rather than assuming a successful button click"     *)
(* (app_bridge.cpp:107): where Start is pressed on what is shown, between  *)
(* two operations capture is what the interface shows.                     *)
THEOREM ShownGovernsHolds == ASSUME ~StaleStarts PROVE Spec => []ShownGoverns
<1>1. Inv => ShownGoverns
  <2>. SUFFICES ASSUME Inv, idle, running, ui.ready
                PROVE  capture = CapturedBy(IF sequences
                                            THEN Loaded(ui.draft, app.step, BaselineOf(ui.profile))
                                            ELSE QuickLoaded(ui.quick))
    BY DEF ShownGoverns
  <2>1. capture = CapturedBy(app) /\ Governs(baseline, app, ui) /\ Agrees(app, ui)
    BY IdleFacts DEF Inv, Captured, Shown, idle
  <2>2. CASE sequences
    <3>1. app.seq = ui.draft /\ app.base = BaseOf(ui.draft, BaselineOf(ui.profile))
      BY <2>1, <2>2 DEF Governs, BaselineOf, sequences
    <3>. DEFINE shown == Loaded(ui.draft, app.step, BaselineOf(ui.profile))
    <3>2. shown.seq = app.seq /\ shown.step = app.step /\ shown.base = app.base
      BY <3>1, LoadedFields
    <3>. HIDE DEF shown
    <3>3. CapturedBy(app) = CapturedBy(shown)
      BY <3>2 DEF CapturedBy
    <3>. QED BY <2>1, <2>2, <3>3 DEF shown
  <2>3. CASE ~sequences
    BY <2>1, <2>3 DEF Agrees, sequences
  <2>. QED BY <2>2, <2>3
<1>. QED BY <1>1, InvHolds, PTL

-----------------------------------------------------------------------------
(* EditsSurvive, step by step.                                             *)
Kept ==
  /\ ui'.draft = ui.draft
  /\ ui'.draft = ui'.saved => ui'.id # None /\ files'[ui'.id] = ui'.draft

(* Steps that leave the draft and what is saved of it alone.               *)
LEMMA EditKept ==
  ASSUME dirty, ui'.draft = ui.draft, ui'.saved = ui.saved
  PROVE  Kept
  BY DEF dirty, Kept

(* The second half of save, whatever else it shows.                        *)
LEMMA WrittenKept ==
  ASSUME Sound(ui), DOMAIN files = Ids, NEW i \in SaveIds(ui), Writes(ui, i),
         ui'.id = i, ui'.draft = ui.draft
  PROVE  Kept
<1>1. i \in Ids /\ i # None
  BY AppBridgeAssumption DEF SaveIds, Sound
<1>2. files'[i] = ui.draft
  BY <1>1 DEF Writes
<1>. QED BY <1>1, <1>2 DEF Kept

(* prepareSequence with another server.                                    *)
LEMMA PreparesKept ==
  ASSUME Sound(ui), DOMAIN app = AppFields, dirty, NEW q, NEW stored,
         Prepares([ui EXCEPT !.profile = q], stored)
  PROVE  Kept
<1>. DEFINE u == [ui EXCEPT !.profile = q]
<1>1. DOMAIN u = UiFields /\ u.draft = ui.draft /\ u.saved = ui.saved
  BY DEF Sound, UiFields
<1>2. Prepares(u, stored)
  OBVIOUS
<1>. HIDE DEF u
<1>. QED BY <1>1, <1>2, PreparesFields, EditKept

LEMMA SaveKept ==
  ASSUME Inv, dirty, NEW seen, NEW busy, Save(seen, busy), seen /\ ~busy => running
  PROVE  Kept
<1>1. Sound(ui) /\ DOMAIN app = AppFields /\ DOMAIN files = Ids
  BY DEF Inv, Shapes
<1>2. CASE UNCHANGED ui
  BY <1>2, EditKept
<1>3. CASE \E i \in SaveIds(ui) : Writes(ui, i) /\ Prepares(SavedAs(ui, i), baseline)
  <2>1. PICK i \in SaveIds(ui) : Writes(ui, i) /\ Prepares(SavedAs(ui, i), baseline)
    BY <1>3
  <2>2. DOMAIN SavedAs(ui, i) = UiFields
    BY <1>1, SavedAsFields DEF Sound
  <2>3. ui'.id = i /\ ui'.draft = ui.draft
    BY <1>1, <2>1, <2>2, PreparesFields, SavedAsFields DEF Sound
  <2>. QED BY <1>1, <2>1, <2>3, WrittenKept
<1>4. CASE /\ seen /\ ~busy
           /\ Replace("save", Loaded(ui.draft, Clamped(app.step, ui.draft),
                                     BaselineOf(ui.profile)), [ready |-> TRUE])
  BY <1>2, <1>4 DEF Replace, Call
<1>5. CASE \E i \in SaveIds(ui) : Writes(ui, i) /\ ui' = SavedAs(ui, i)
  BY <1>1, <1>5, WrittenKept, SavedAsFields DEF Sound
<1>. QED BY <1>1, <1>2, <1>3, <1>4, <1>5 DEF Save

LEMMA ServerKept ==
  ASSUME Inv, dirty,
         \/ \E p \in Profiles \cup {None} : selectProfile(p)
         \/ \E p \in Profiles, b \in Baselines : saveProfile(p, b)
         \/ \E p \in Profiles, b \in Baselines : resolveServer(p, b)
         \/ \E p \in Profiles : deleteProfile(p)
  PROVE  Kept
<1>1. Sound(ui) /\ DOMAIN app = AppFields
  BY DEF Inv, Shapes
<1>2. CASE UNCHANGED ui
  BY <1>2, EditKept
<1>3. ASSUME NEW q, NEW stored, Prepares([ui EXCEPT !.profile = q], stored) PROVE Kept
  BY <1>1, <1>3, PreparesKept
<1>4. ASSUME NEW q, NEW stored, Reload([ui EXCEPT !.profile = q], stored) PROVE Kept
  <2>1. ui' = [[ui EXCEPT !.profile = q] EXCEPT !.ready = FALSE]
    BY <1>4 DEF Reload
  <2>2. ui'.draft = ui.draft /\ ui'.saved = ui.saved
    BY <1>1, <2>1 DEF Sound, UiFields
  <2>. QED BY <2>2, EditKept
<1>5. ASSUME NEW p \in Profiles \cup {None}, selectProfile(p) PROVE Kept
  <2>1. CASE ui' = [ui EXCEPT !.profile = p]
    <3>1. ui'.draft = ui.draft /\ ui'.saved = ui.saved
      BY <1>1, <2>1 DEF Sound, UiFields
    <3>. QED BY <3>1, EditKept
  <2>. QED BY <1>2, <1>3, <1>5, <2>1 DEF selectProfile, Prepare
<1>6. ASSUME NEW p \in Profiles, NEW b \in Baselines, saveProfile(p, b) PROVE Kept
  BY <1>2, <1>6 DEF saveProfile, Replace, Call
<1>7. ASSUME NEW p \in Profiles, NEW b \in Baselines, resolveServer(p, b) PROVE Kept
  <2>1. CASE \E q : ui' = [ui EXCEPT !.profile = q]
    <3>1. ui'.draft = ui.draft /\ ui'.saved = ui.saved
      BY <1>1, <2>1 DEF Sound, UiFields
    <3>. QED BY <3>1, EditKept
  <2>2. \/ UNCHANGED ui
        \/ \E q : \/ ui' = [ui EXCEPT !.profile = q]
                  \/ Reload([ui EXCEPT !.profile = q], baseline')
                  \/ Prepares([ui EXCEPT !.profile = q], baseline')
    BY <1>7 DEF resolveServer, Prepare
  <2>. QED BY <1>2, <1>3, <1>4, <2>1, <2>2
<1>8. ASSUME NEW p \in Profiles, deleteProfile(p) PROVE Kept
  BY <1>2, <1>8 DEF deleteProfile, Shutdown, Call
<1>. QED BY <1>5, <1>6, <1>7, <1>8

(* The panel and playback beside an edit.                                  *)
LEMMA QuickKept ==
  ASSUME Inv, NEW q, quickDelay(q), dirty PROVE Kept
<1>1. Sound(ui)
  BY DEF Inv, Shapes
<1>2. CASE UNCHANGED ui
  BY <1>2, EditKept
<1>3. CASE ui' = With([activity |-> "quick", ready |-> TRUE, quick |-> q], ui)
  <2>1. ui'.draft = ui.draft /\ ui'.saved = ui.saved
    BY <1>1, <1>3, WithFields DEF Sound, UiFields
  <2>. QED BY <2>1, EditKept
<1>. QED BY <1>2, <1>3 DEF quickDelay, Replace, Call

LEMMA PlaybackKept ==
  ASSUME Inv, dirty, SetQuick \/ switchActivity \/ Start \/ Stop \/ Move PROVE Kept
<1>1. Sound(ui)
  BY DEF Inv, Shapes
<1>2. CASE UNCHANGED ui
  BY <1>2, EditKept
<1>3. CASE ui' = With(<<>>, ui)
  BY <1>1, <1>3, WithFields, EditKept DEF Sound, UiFields
<1>4. CASE SetQuick \/ switchActivity
  <2>1. \E q : quickDelay(q)
    BY <1>4 DEF SetQuick, switchActivity
  <2>. QED BY <2>1, QuickKept
<1>. QED BY <1>1, <1>2, <1>3, <1>4 DEF Start, Stop, Move, Replace, Shutdown, Call

LEMMA OperationKept == ASSUME Inv, dirty, ~LeavesEdit, Operation PROVE Kept
<1>1. ~(\E c \in Contents : commitDraft(c)) /\ ~discard
  BY DEF LeavesEdit
<1>2. CASE save
  BY <1>2, SaveKept DEF save
<1>3. CASE \/ setAutoSave \/ newPreset \/ duplicate \/ importPreset \/ deletePreset
           \/ \E i \in Ids : selectPreset(i) \/ BatchDelete(i)
           \/ \E i, j \in Ids : BatchDuplicate(i, j)
  BY <1>3, EditKept DEF setAutoSave, newPreset, duplicate, importPreset, deletePreset,
    selectPreset, BatchDelete, Delete, BatchDuplicate
<1>4. CASE \/ \E p \in Profiles \cup {None} : selectProfile(p)
           \/ \E p \in Profiles, b \in Baselines : saveProfile(p, b)
           \/ \E p \in Profiles, b \in Baselines : resolveServer(p, b)
           \/ \E p \in Profiles : deleteProfile(p)
  BY <1>4, ServerKept
<1>5. CASE SetQuick \/ switchActivity \/ Start \/ Stop \/ Move
  BY <1>5, PlaybackKept
<1>. QED BY <1>1, <1>2, <1>3, <1>4, <1>5 DEF Operation

LEMMA ReturnKept == ASSUME Inv, dirty, ~LeavesEdit, Return PROVE Kept
<1>1. Sound(ui) /\ DOMAIN app = AppFields /\ DOMAIN files = Ids
  BY DEF Inv, Shapes
<1>2. CASE UNCHANGED ui
  BY <1>2, EditKept
<1>3. ASSUME NEW then, ui' = With(then, ui), "draft" \notin DOMAIN then, "saved" \notin DOMAIN then
      PROVE  Kept
  BY <1>1, <1>3, WithFields, EditKept DEF Sound, UiFields
<1>4. waiting => Due(pending, app, ui, capture, baseline)
  BY DEF Inv
<1>5. CASE Returns
  <2>1. pending.op = "show"
    BY <1>5 DEF Returns, Succeeds, Fails, LeavesEdit
  <2>2. "draft" \notin DOMAIN pending.then /\ "saved" \notin DOMAIN pending.then
    BY <1>4, <2>1 DEF Due, KeepsEdit, waiting, dirty
  <2>. QED BY <1>2, <1>3, <1>5, <2>2 DEF Returns
<1>6. CASE PrepareReturns \/ ImportReturns
  BY <1>4, <1>6 DEF PrepareReturns, ImportReturns, Due, PreparesNext, Prepared, waiting,
    dirty
<1>7. CASE CommitReturns
  BY <1>7 DEF CommitReturns, Succeeds, Fails, LeavesEdit
<1>8. CASE SaveReturns
  <2>1. DOMAIN pending.then = {"ready"}
    BY <1>4, <1>8 DEF SaveReturns, Due, KeepsEdit, waiting
  <2>2. CASE \E i \in SaveIds(ui) : Writes(ui, i) /\ ui' = With(pending.then, SavedAs(ui, i))
    <3>1. PICK i \in SaveIds(ui) : Writes(ui, i)
            /\ ui' = With(pending.then, SavedAs(ui, i))
      BY <2>2
    <3>2. ui'.id = i /\ ui'.draft = ui.draft
      BY <1>1, <2>1, <3>1, WithFields, SavedAsFields DEF Sound, UiFields
    <3>. QED BY <1>1, <3>1, <3>2, WrittenKept
  <2>. QED BY <1>2, <1>3, <1>8, <2>1, <2>2 DEF SaveReturns
<1>9. CASE ProfileReturns
  <2>1. DOMAIN pending.then = {"ready"}
    BY <1>4, <1>9 DEF ProfileReturns, Due, KeepsEdit, waiting
  <2>2. CASE ui' = [ui EXCEPT !.profile = pending.before]
    <3>1. ui'.draft = ui.draft /\ ui'.saved = ui.saved
      BY <1>1, <2>2 DEF Sound, UiFields
    <3>. QED BY <3>1, EditKept
  <2>. QED BY <1>2, <1>3, <1>9, <2>1, <2>2 DEF ProfileReturns
<1>10. CASE DeselectReturns
  BY <1>1, <1>2, <1>10, PreparesKept DEF DeselectReturns
<1>11. CASE BaselineReturns \/ RollbackReturns
  BY <1>2, <1>11 DEF BaselineReturns, RollbackReturns
<1>. QED BY <1>5, <1>6, <1>7, <1>8, <1>9, <1>10, <1>11 DEF Return

LEMMA StepKept == ASSUME Inv, dirty, ~LeavesEdit, [Next]_vars PROVE Kept
<1>1. CASE Operation
  BY <1>1, OperationKept
<1>2. CASE Return
  BY <1>2, ReturnKept
<1>3. CASE Autosave
  <2>1. CASE \E busy \in BOOLEAN : Save(running, busy)
    BY <2>1, SaveKept
  <2>2. CASE \E seen : Save(seen, TRUE)
    BY <2>2, SaveKept
  <2>. QED BY <1>3, <2>1, <2>2 DEF Autosave
<1>4. CASE NothingToSave \/ CaptureEnds
           \/ \E i \in Ids, c \in Contents \cup {None} : OutsideEdit(i, c)
  BY <1>4, EditKept DEF NothingToSave, CaptureEnds, OutsideEdit
<1>5. CASE Reopened
  BY <1>5 DEF LeavesEdit
<1>6. CASE UNCHANGED vars
  BY <1>6, EditKept DEF vars
<1>. QED BY <1>1, <1>2, <1>3, <1>4, <1>5, <1>6 DEF Next

(* No selection, deletion, import or call that comes back late replaces an *)
(* edit that is not saved, and it passes as saved only once its file holds *)
(* it ("Resolve the draft before changing pages or replacing the           *)
(* selection", Main.qml:234).                                              *)
THEOREM EditsSurviveHolds == Spec => EditsSurvive
<1>1. Inv /\ [Next]_vars => (dirty /\ ~LeavesEdit => Kept)
  BY StepKept
<1>2. Inv /\ [Next]_vars =>
        [dirty /\ ~LeavesEdit =>
           /\ ui'.draft = ui.draft
           /\ ui'.draft = ui'.saved => ui'.id # None /\ files'[ui'.id] = ui'.draft]_vars
  BY <1>1 DEF Kept
<1>. QED BY <1>2, InvHolds, PTL DEF Spec, EditsSurvive

-----------------------------------------------------------------------------
(* The files under the interface: LibraryFiles implements Library.         *)

(* Every file is on the disk, as a document, as something no program can   *)
(* read, or not at all.                                                    *)
Whole == disk \in [Names -> {OnDisk(c) : c \in Held}]

(* What the temporary file of a replacement holds at each of its steps:    *)
(* once it is flushed, the new document, and that is what is moved.        *)
Replacing ==
  /\ write \in Replacements \cup {Nothing}
  /\ write # Nothing =>
       /\ pc \in {"seeding", "open"}
       /\ write.at = "written" => write.temporary.doc = write.new
       /\ write.at = "flushed" => write.temporary = OnDisk(write.new)

(* While bundled sequences are put in place: the mark that says so is      *)
(* stored, those before index can be read, and the next one is written     *)
(* only where nothing can be read. Nobody else changes files meanwhile.    *)
Installing ==
  /\ preferences \in [started : BOOLEAN, installed : BOOLEAN]
  /\ pc \in {"closed", "opening", "seeding", "open"}
  /\ index \in 1 .. Len(StarterList) + 1
  /\ pc = "seeding" =>
       /\ preferences.started /\ ~preferences.installed
       /\ \A i \in 1 .. index - 1 : Readable(StarterList[i])
       /\ write # Nothing =>
            /\ index <= Len(StarterList)
            /\ write.name = StarterList[index] /\ write.new = Bundled
            /\ ~Readable(write.name)

FilesInv == Whole /\ Replacing /\ Installing

(* The list of the bundled sequences names them all.                       *)
LEMMA StartersListed ==
  /\ Len(StarterList) \in Nat
  /\ \A i \in 1 .. Len(StarterList) : StarterList[i] \in Starters
  /\ \A n \in Starters : \E i \in 1 .. Len(StarterList) : n = StarterList[i]
<1>1. StarterList \in Seq(Starters)
  BY LibraryAssumption
<1>2. DOMAIN StarterList = 1 .. Len(StarterList) /\ Len(StarterList) \in Nat
  BY <1>1
<1> QED BY <1>2 DEF Starters, ToSet

(* A replacement that is asked for is one.                                 *)
LEMMA ReplacementTyped ==
  ASSUME NEW n \in Names, NEW c \in Documents
  PROVE  /\ Replacement(n, c) \in Replacements
         /\ Replacement(n, c) # Nothing
         /\ Replacement(n, c).name = n /\ Replacement(n, c).new = c
         /\ Replacement(n, c).at = "asked"
<1>1. /\ Replacement(n, c) \in Replacements
      /\ Replacement(n, c).name = n /\ Replacement(n, c).new = c
      /\ Replacement(n, c).at = "asked"
  BY DEF Replacement, Replacements, OnDisk, Held
<1>2. Replacement(n, c) # Nothing
  BY <1>1, LibraryAssumption, Zenon
<1> QED BY <1>1, <1>2

(* A file is what is found in it.                                          *)
LEMMA FoundInWhole ==
  ASSUME Whole, NEW n \in Names
  PROVE  /\ Found(n) \in Held /\ disk[n] = OnDisk(Found(n))
         /\ disk[n].flushed
BY DEF Whole, OnDisk, Found

(* A step that leaves the files alone.                                     *)
LEMMA SameFiles ==
  ASSUME UNCHANGED disk
  PROVE  /\ \A n : Found(n)' = Found(n) /\ (Readable(n)' <=> Readable(n))
         /\ Whole => Whole'
BY DEF Found, Readable, Whole

(* The invariant holds when the program is started, and is kept by a step  *)
(* that changes nothing.                                                   *)
LEMMA InitFiles == FilesInit => FilesInv
BY StartersListed DEF FilesInit, FilesInv, Whole, Replacing, Installing

LEMMA StutterFiles == FilesInv /\ UNCHANGED filesVars => FilesInv'
BY DEF FilesInv, Whole, Replacing, Installing, filesVars, outside, program, Readable, Found

(* A temporary file is created, written or flushed: whose it is stays.     *)
LEMMA Progress ==
  ASSUME FilesInv, CreateTemporary \/ WriteTemporary \/ FlushTemporary
  PROVE  /\ FilesInv'
         /\ write' # Nothing /\ write # Nothing
         /\ write'.name = write.name /\ write'.new = write.new
<1>1. write \in Replacements /\ write # Nothing
  BY DEF FilesInv, Replacing, CreateTemporary, WriteTemporary, FlushTemporary
<1>2. UNCHANGED <<disk, preferences, pc, index>>
  BY DEF CreateTemporary, WriteTemporary, FlushTemporary, outside
<1>3. /\ write' \in Replacements
      /\ write'.name = write.name /\ write'.new = write.new
      /\ write'.at = "written" => write'.temporary.doc = write'.new
      /\ write'.at = "flushed" => write'.temporary = OnDisk(write'.new)
  <2>1. CASE CreateTemporary
    BY <1>1, <2>1 DEF CreateTemporary, Replacements, Held
  <2>2. CASE WriteTemporary
    BY <1>1, <2>2 DEF WriteTemporary, Replacements, Held
  <2>3. CASE FlushTemporary
    BY <1>1, <2>3 DEF FilesInv, Replacing, FlushTemporary, Replacements, Held, OnDisk
  <2> QED BY <2>1, <2>2, <2>3
<1>4. write' # Nothing
  BY <1>3, LibraryAssumption
<1>5. Whole'
  BY <1>2 DEF FilesInv, Whole
<1>6. Replacing'
  BY <1>1, <1>2, <1>3 DEF FilesInv, Replacing
<1>7. Installing'
  BY <1>1, <1>2, <1>3, <1>4, SameFiles DEF FilesInv, Installing
<1> QED BY <1>1, <1>3, <1>4, <1>5, <1>6, <1>7 DEF FilesInv

(* The temporary file takes the place of the file: that file is the new    *)
(* document, every other is what it was.                                   *)
LEMMA Moved ==
  ASSUME FilesInv, MoveTemporary
  PROVE  /\ FilesInv'
         /\ write \in Replacements /\ write # Nothing
         /\ disk' = [disk EXCEPT ![write.name] = OnDisk(write.new)]
         /\ \A n \in Names : Found(n)' = IF n = write.name THEN write.new ELSE Found(n)
<1>1. /\ write \in Replacements /\ write # Nothing /\ write' = Nothing
      /\ write.name \in Names /\ write.new \in Documents
  BY DEF FilesInv, Replacing, MoveTemporary, Done, Replacements
<1>2. disk' = [disk EXCEPT ![write.name] = OnDisk(write.new)]
  BY DEF FilesInv, Replacing, MoveTemporary
<1>3. \A n \in Names : Found(n)' = IF n = write.name THEN write.new ELSE Found(n)
  BY <1>2 DEF FilesInv, Whole, Found, OnDisk
<1>4. Whole'
  BY <1>1, <1>2 DEF FilesInv, Whole, Held
<1>5. Replacing'
  BY <1>1 DEF Replacing
<1>6. \A n \in Names : Readable(n) => Readable(n)'
  BY <1>1, <1>3 DEF Readable
<1>7. Installing'
  <2>0. UNCHANGED <<preferences, pc>>
    BY DEF MoveTemporary, Done
  <2>1. CASE pc = "seeding"
    <3>1. /\ index' = index + 1 /\ index \in 1 .. Len(StarterList)
          /\ write.name = StarterList[index]
      BY <1>1, <2>1, StartersListed DEF FilesInv, Installing, MoveTemporary, Done
    <3>2. \A n \in Names : n = write.name => Readable(n)'
      BY <1>1, <1>3 DEF Readable
    <3>3. ASSUME NEW i \in 1 .. index' - 1 PROVE Readable(StarterList[i])'
      <4>1. CASE i = index
        BY <1>1, <3>1, <3>2, <4>1
      <4>2. CASE i # index
        <5>1. i \in 1 .. index - 1 /\ i \in 1 .. Len(StarterList)
          BY <3>1, <3>3, <4>2, StartersListed
        <5>2. Readable(StarterList[i]) /\ StarterList[i] \in Names
          BY <2>1, <5>1, StartersListed DEF FilesInv, Installing, Names, Library
        <5> QED BY <1>6, <5>2
      <4> QED BY <4>1, <4>2
    <3>4. index' \in 1 .. Len(StarterList) + 1
      BY <3>1, StartersListed
    <3>5. \A i \in 1 .. index' - 1 : Readable(StarterList[i])'
      BY <3>3
    <3> QED BY <1>1, <2>0, <2>1, <3>4, <3>5 DEF FilesInv, Installing
  <2>2. CASE pc # "seeding"
    BY <2>0, <2>2 DEF FilesInv, Installing, MoveTemporary, Done
  <2> QED BY <2>1, <2>2
<1> QED BY <1>1, <1>2, <1>3, <1>4, <1>5, <1>7 DEF FilesInv

(* A step that leaves nothing to be written and no installation under way. *)
LEMMA Rests ==
  ASSUME FilesInv, Whole', write' = Nothing, pc' \in {"closed", "opening", "open"},
         preferences' \in [started : BOOLEAN, installed : BOOLEAN],
         index' \in 1 .. Len(StarterList) + 1
  PROVE  FilesInv'
BY DEF FilesInv, Replacing, Installing

(* A preference is stored, or the program goes on without.                 *)
LEMMA PreferTyped ==
  ASSUME FilesInv, NEW key \in {"started", "installed"}, NEW stored, NEW next,
         Prefer(key, stored, next)
  PROVE  /\ preferences' \in [started : BOOLEAN, installed : BOOLEAN]
         /\ \/ pc' = stored /\ preferences' = [preferences EXCEPT ![key] = TRUE]
            \/ pc' = next /\ preferences' = preferences
BY DEF FilesInv, Installing, Prefer

(* There is a first index, even of an empty list.                          *)
LEMMA OneIsAnIndex == 1 \in 1 .. Len(StarterList) + 1
BY StartersListed

(* A launch decides whether bundled sequences are to be put in place.      *)
LEMMA InstallKeeps ==
  ASSUME FilesInv, installStarterPresets
  PROVE  FilesInv'
<1>1. /\ UNCHANGED <<disk, write>> /\ index' = 1 /\ pc = "opening"
      /\ write = Nothing
      /\ preferences \in [started : BOOLEAN, installed : BOOLEAN]
  BY DEF FilesInv, Replacing, Installing, installStarterPresets, outside
<1>2. Whole'
  BY <1>1 DEF FilesInv, Whole
<1>3. CASE preferences.installed
  BY <1>1, <1>2, <1>3, OneIsAnIndex, Rests DEF installStarterPresets
<1>4. CASE ~preferences.installed /\ presets # {} /\ ~preferences.started
  <2>1. Prefer("installed", "open", "open")
    BY <1>4 DEF installStarterPresets
  <2> QED BY <1>1, <1>2, <2>1, OneIsAnIndex, Rests, PreferTyped
<1>5. CASE ~preferences.installed /\ ~(presets # {} /\ ~preferences.started)
  <2>1. Prefer("started", "seeding", "open")
    BY <1>5 DEF installStarterPresets
  <2>2. CASE pc' = "open"
    BY <1>1, <1>2, <2>1, <2>2, OneIsAnIndex, Rests, PreferTyped
  <2>3. CASE pc' = "seeding" /\ preferences' = [preferences EXCEPT !.started = TRUE]
    <3>1. Replacing'
      BY <1>1 DEF Replacing
    <3>2. /\ preferences' \in [started : BOOLEAN, installed : BOOLEAN]
          /\ preferences'.started /\ ~preferences'.installed
      BY <1>1, <1>5, <2>3
    <3>3. index' \in 1 .. Len(StarterList) + 1 /\ 1 .. index' - 1 = {}
      BY <1>1, OneIsAnIndex
    <3>4. Installing'
      BY <1>1, <2>3, <3>2, <3>3 DEF Installing
    <3> QED BY <1>2, <3>1, <3>4 DEF FilesInv
  <2> QED BY <2>1, <2>2, <2>3, PreferTyped
<1> QED BY <1>1, <1>3, <1>4, <1>5

(* A bundled sequence that can be read is skipped, another one is asked    *)
(* for.                                                                    *)
LEMMA SeedKeeps ==
  ASSUME FilesInv, Seed
  PROVE  FilesInv'
<1>1. /\ UNCHANGED <<disk, preferences, pc>> /\ pc = "seeding" /\ write = Nothing
      /\ index \in 1 .. Len(StarterList)
  BY StartersListed DEF FilesInv, Installing, Seed, outside
<1>2. Whole' /\ \A n : Readable(n)' <=> Readable(n)
  BY <1>1, SameFiles DEF FilesInv
<1>3. StarterList[index] \in Names
  BY <1>1, StartersListed DEF Names, Library
<1>4. CASE Readable(StarterList[index])
  <2>1. index' = index + 1 /\ write' = Nothing
    BY <1>1, <1>4 DEF Seed
  <2>2. ASSUME NEW i \in 1 .. index' - 1 PROVE Readable(StarterList[i])'
    <3>1. i = index \/ i \in 1 .. index - 1
      BY <1>1, <2>1, <2>2
    <3> QED BY <1>1, <1>2, <1>4, <3>1 DEF FilesInv, Installing
  <2>3. index' \in 1 .. Len(StarterList) + 1
    BY <1>1, <2>1, StartersListed
  <2>4. \A i \in 1 .. index' - 1 : Readable(StarterList[i])'
    BY <2>2
  <2>5. Installing'
    BY <1>1, <2>1, <2>3, <2>4 DEF FilesInv, Installing
  <2>6. Replacing'
    BY <2>1 DEF Replacing
  <2> QED BY <1>2, <2>5, <2>6 DEF FilesInv
<1>5. CASE ~Readable(StarterList[index])
  <2>1. write' = Replacement(StarterList[index], Bundled) /\ index' = index
    BY <1>5 DEF Seed
  <2>2. /\ write' \in Replacements /\ write'.name = StarterList[index]
        /\ write'.new = Bundled /\ write'.at = "asked"
    BY <1>3, <2>1, ReplacementTyped, LibraryAssumption
  <2>3. Replacing'
    BY <1>1, <2>2 DEF Replacing
  <2>4. Installing'
    BY <1>1, <1>2, <1>5, <2>1, <2>2, StartersListed DEF FilesInv, Installing
  <2> QED BY <1>2, <2>3, <2>4 DEF FilesInv
<1> QED BY <1>4, <1>5

(* A save begins.                                                          *)
LEMMA AskedKeeps ==
  ASSUME FilesInv, NEW n \in Names, NEW c \in Documents, pc = "open",
         write' = Replacement(n, c), UNCHANGED <<disk, preferences, pc, index>>
  PROVE  FilesInv'
<1>1. /\ write' \in Replacements /\ write'.at = "asked"
  BY ReplacementTyped
<1>2. Replacing'
  BY <1>1 DEF Replacing
<1>3. Whole' /\ Installing'
  BY DEF FilesInv, Whole, Installing
<1> QED BY <1>2, <1>3 DEF FilesInv

(* A loss of power loses nothing: no file is moved into place before it is *)
(* flushed.                                                                *)
LEMMA NothingUnflushed ==
  ASSUME FilesInv, PowerCut
  PROVE  UNCHANGED disk
<1>1. \A n \in Names : disk[n] = OnDisk(Found(n)) /\ disk[n].flushed
  BY FoundInWhole DEF FilesInv
<1>2. {n \in Names : ~disk[n].flushed} = {}
  BY <1>1
<1>3. disk' = [n \in Names |-> OnDisk(Found(n))]
  BY <1>2 DEF PowerCut
<1> QED BY <1>1, <1>3 DEF FilesInv, Whole

(* What other programs write is on the disk.                               *)
LEMMA OutsideKeepsWhole ==
  ASSUME FilesInv, Outside
  PROVE  Whole'
BY DEF FilesInv, Whole, Outside

(* Every step keeps the invariant.                                         *)
LEMMA NextFiles ==
  ASSUME FilesInv, FilesNext
  PROVE  FilesInv'
<1>1. CASE CreateTemporary \/ WriteTemporary \/ FlushTemporary
  BY <1>1, Progress
<1>2. CASE MoveTemporary
  BY <1>2, Moved
<1>3. CASE WriteFails
  <2>1. /\ UNCHANGED <<disk, preferences, index>> /\ write' = Nothing /\ pc' = "open"
    BY <1>3 DEF FilesInv, Replacing, WriteFails, outside
  <2> QED BY <2>1, SameFiles, Rests DEF FilesInv, Installing
<1>4. CASE Launch
  <2>1. /\ UNCHANGED <<disk, preferences, index, write>> /\ pc' = "opening" /\ pc = "closed"
    BY <1>4 DEF Launch, outside
  <2>2. write = Nothing
    BY <2>1 DEF FilesInv, Replacing
  <2> QED BY <2>1, <2>2, SameFiles, Rests DEF FilesInv, Installing
<1>5. CASE installStarterPresets
  BY <1>5, InstallKeeps
<1>6. CASE Seed
  BY <1>6, SeedKeeps
<1>7. CASE FinishSeeding
  <2>1. /\ UNCHANGED <<disk, index, write>> /\ pc = "seeding" /\ index > Len(StarterList)
        /\ Prefer("installed", "open", "open")
    BY <1>7 DEF FinishSeeding, outside
  <2>2. write = Nothing /\ index \in 1 .. Len(StarterList) + 1
    BY <2>1, StartersListed DEF FilesInv, Installing
  <2> QED BY <2>1, <2>2, SameFiles, Rests, PreferTyped DEF FilesInv
<1>8. ASSUME NEW n \in Library, NEW c \in Documents, SaveSequence(n, c) PROVE FilesInv'
  BY <1>8, AskedKeeps DEF SaveSequence, outside, Names
<1>9. ASSUME NEW c \in Documents, SaveBindings(c) PROVE FilesInv'
  BY <1>9, AskedKeeps DEF SaveBindings, outside, Names
<1>10. ASSUME NEW n \in Library, DeleteSequence(n) PROVE FilesInv'
  <2>1. Whole'
    BY <1>10 DEF FilesInv, Whole, DeleteSequence, Held, Names
  <2> QED BY <1>10, <2>1, Rests DEF FilesInv, Installing, DeleteSequence, program
<1>11. CASE Close \/ Crash \/ PowerCut
  <2>1. UNCHANGED <<disk, preferences>> /\ Ended
    BY <1>11, NothingUnflushed DEF Close, Crash, PowerCut, outside
  <2> QED BY <2>1, SameFiles, Rests, OneIsAnIndex DEF FilesInv, Installing, Ended
<1>12. CASE Outside
  <2>1. Whole'
    BY <1>12, OutsideKeepsWhole
  <2>2. /\ UNCHANGED <<preferences, pc, index, write>> /\ pc \in {"closed", "open"}
        /\ write = Nothing
    BY <1>12 DEF Outside, program
  <2> QED BY <2>1, <2>2, Rests DEF FilesInv, Installing
<1> QED
  BY <1>1, <1>2, <1>3, <1>4, <1>5, <1>6, <1>7, <1>8, <1>9, <1>10, <1>11, <1>12
     DEF FilesNext, Writing, Starting

(* The invariant holds throughout.                                         *)
LEMMA FilesInvHolds == FilesSpec => []FilesInv
<1>1. FilesInv /\ [FilesNext]_filesVars => FilesInv'
  BY NextFiles, StutterFiles
<1> QED BY <1>1, InitFiles, PTL DEF FilesSpec

-----------------------------------------------------------------------------
(* What Library's variables stand for, by name.                            *)
Seen == [n \in Names |-> Found(n)]
Phase ==
  CASE pc = "closed" -> "closed" [] pc = "open" -> "open" [] OTHER -> "starting"
Asked ==
  IF pc = "open" /\ write # Nothing THEN [name |-> write.name, doc |-> write.new] ELSE Nothing
Marks == <<preferences.started, preferences.installed>>
Promises == <<Seen, hidden, Marks, Phase, keys, Asked, answer>>

(* A step that changes none of these is a stutter of Library.              *)
LEMMA NothingPromised == UNCHANGED Promises => UNCHANGED Promised!vars
BY DEF Promises, Promised!vars, Seen, Phase, Asked, Marks

(* What Library reads of the files is what the program reads.              *)
LEMMA SameNames ==
  /\ Promised!Library = Library /\ Promised!Names = Names
  /\ \A n \in Names : Promised!Readable(n) <=> Readable(n)
  /\ Promised!Listed = presets
  /\ Promised!Loaded = hotkeyLoad
<1>1. Promised!Library = Library /\ Promised!Names = Names
  BY DEF Promised!Library, Promised!Names, Library, Names
<1>2. \A n \in Names : Promised!Readable(n) <=> Readable(n)
  BY DEF Promised!Readable, Readable
<1>3. Promised!Listed = presets
  BY <1>1, <1>2 DEF Promised!Listed, presets, Names
<1>4. Promised!Loaded = hotkeyLoad
  <2>1. Bindings \in Names
    BY DEF Names
  <2> QED BY <1>2, <2>1 DEF Promised!Loaded, hotkeyLoad
<1> QED BY <1>1, <1>2, <1>3, <1>4

(* The phase and the request by the program's place.                       *)
LEMMA PhaseOf ==
  /\ pc = "closed" => Phase = "closed"
  /\ pc = "open" => Phase = "open"
  /\ pc \in {"opening", "seeding"} => Phase = "starting"
  /\ pc \in {"closed", "opening", "seeding"} \/ write = Nothing => Asked = Nothing
BY DEF Phase, Asked

(* The same at the end of a step.                                          *)
LEMMA PhaseAfter ==
  /\ pc' = "closed" => Phase' = "closed"
  /\ pc' = "open" => Phase' = "open"
  /\ pc' \in {"opening", "seeding"} => Phase' = "starting"
  /\ pc' \in {"closed", "opening", "seeding"} \/ write' = Nothing => Asked' = Nothing
BY DEF Phase, Asked

(* Files left alone are found as they were.                                *)
LEMMA SeenKept == UNCHANGED disk => UNCHANGED Seen
BY DEF Seen, Found

(* The program ends, and its save with it: no file is changed.             *)
LEMMA Ends ==
  ASSUME UNCHANGED <<Seen, hidden, Marks>>, Ended
  PROVE  Promised!Next
<1>1. Phase' = "closed" /\ Asked' = Nothing
  BY PhaseAfter DEF Ended
<1>2. Promised!Ends
  BY <1>1 DEF Promised!Ends, Ended, Seen, Phase, Asked, Marks
<1> QED BY <1>2 DEF Promised!Next

(* A launch opens the library as it is.                                    *)
LEMMA Abandons ==
  ASSUME UNCHANGED <<Seen, hidden, Marks, keys, answer>>,
         Phase = "starting", Phase' = "open", Asked = Nothing, Asked' = Nothing
  PROVE  Promised!Next
<1>1. Promised!Abandon
  BY DEF Promised!Abandon, Seen, Phase, Asked, Marks
<1> QED BY <1>1 DEF Promised!Next

(* A save is asked for.                                                    *)
LEMMA AsksToSave ==
  ASSUME UNCHANGED <<Seen, hidden, Marks, keys>>, FilesInv, pc = "open", pc' = "open",
         write = Nothing, NEW n \in Names, NEW c \in Documents, write' = Replacement(n, c),
         answer' = "none"
  PROVE  Promised!Next
<1>1. /\ Phase = "open" /\ Phase' = "open" /\ Asked = Nothing
  BY PhaseOf, PhaseAfter
<1>2. Asked' = [name |-> n, doc |-> c]
  BY ReplacementTyped DEF Asked
<1>3. Promised!Ask(n, c)
  BY <1>1, <1>2 DEF Promised!Ask, Seen, Phase, Asked, Marks
<1> QED BY <1>3, SameNames DEF Promised!Next

(* Every step of the files is a step of Library, or none.                  *)
LEMMA StepPromised ==
  ASSUME FilesInv, FilesNext
  PROVE  Promised!Next \/ UNCHANGED Promised!vars
<1>1. CASE CreateTemporary \/ WriteTemporary \/ FlushTemporary
  <2>1. UNCHANGED <<disk, hidden, preferences, pc, keys, answer>>
    BY <1>1 DEF CreateTemporary, WriteTemporary, FlushTemporary, outside
  <2>2. UNCHANGED <<Phase, Asked>>
    BY <1>1, <2>1, Progress DEF Phase, Asked
  <2> QED BY <2>1, <2>2, SeenKept, NothingPromised DEF Promises, Marks
<1>2. CASE MoveTemporary
  <2>1. /\ write \in Replacements /\ write # Nothing
        /\ write.name \in Names
        /\ UNCHANGED <<hidden, preferences, pc>> /\ write' = Nothing
        /\ pc \in {"seeding", "open"}
    BY <1>2, Moved DEF Replacements, MoveTemporary, Done, FilesInv, Replacing
  <2>2. Seen' = [Seen EXCEPT ![write.name] = write.new]
    BY <1>2, <2>1, Moved DEF Seen
  <2>3. CASE pc = "seeding"
    <3>1. /\ UNCHANGED <<keys, answer>>
          /\ preferences.started /\ ~preferences.installed
          /\ write.name \in Starters /\ write.new = Bundled /\ ~Readable(write.name)
      BY <1>2, <2>1, <2>3, StartersListed DEF FilesInv, Installing, MoveTemporary, Done
    <3>2. /\ Phase = "starting" /\ Phase' = "starting" /\ Asked = Nothing /\ Asked' = Nothing
      BY <2>1, <2>3, PhaseOf, PhaseAfter
    <3>3. ~Promised!Readable(write.name)
      BY <2>1, <3>1, SameNames
    <3>4. Promised!Seed(write.name)
      BY <2>1, <2>2, <3>1, <3>2, <3>3 DEF Promised!Seed, Seen, Phase, Asked
    <3> QED BY <3>1, <3>4 DEF Promised!Next
  <2>4. CASE pc = "open"
    <3>1. /\ Asked = [name |-> write.name, doc |-> write.new] /\ Asked' = Nothing
          /\ UNCHANGED Phase
      BY <2>1, <2>4 DEF Asked, Phase
    <3>2. /\ keys' = IF write.name = Bindings THEN write.new ELSE keys
          /\ answer' = "saved"
      BY <1>2, <2>4 DEF MoveTemporary, Done
    <3>3. Asked # Nothing
      BY <2>1, <3>1, LibraryAssumption DEF Replacements
    <3>4. Promised!Saved
      BY <2>1, <2>2, <3>1, <3>2, <3>3 DEF Promised!Saved, Seen, Phase, Asked
    <3> QED BY <3>4 DEF Promised!Next
  <2> QED BY <2>1, <2>3, <2>4
<1>3. CASE WriteFails
  <2>1. /\ UNCHANGED <<disk, hidden, preferences, keys>> /\ write' = Nothing
        /\ write # Nothing /\ write \in Replacements /\ pc \in {"seeding", "open"}
        /\ UNCHANGED <<Seen, Marks>> /\ Asked' = Nothing
    BY <1>3, SeenKept, PhaseAfter DEF FilesInv, Replacing, WriteFails, outside, Marks
  <2>2. CASE pc = "seeding"
    <3>1. pc' = "open" /\ UNCHANGED answer
      BY <1>3, <2>2 DEF WriteFails
    <3> QED BY <2>1, <2>2, <3>1, PhaseOf, PhaseAfter, Abandons
  <2>3. CASE pc = "open"
    <3>1. pc' = "open" /\ answer' = "failed"
      BY <1>3, <2>3 DEF WriteFails
    <3>2. UNCHANGED Phase
      BY <2>3, <3>1 DEF Phase
    <3>3. Asked # Nothing
      BY <2>1, <2>3, LibraryAssumption DEF Replacements, Asked
    <3>4. Promised!Refused
      BY <2>1, <3>1, <3>2, <3>3 DEF Promised!Refused, Seen, Phase, Asked
    <3> QED BY <3>4 DEF Promised!Next
  <2> QED BY <2>1, <2>2, <2>3
<1>4. CASE Launch
  <2>1. /\ UNCHANGED <<disk, hidden, preferences, answer, write>> /\ keys' = hotkeyLoad
        /\ pc = "closed" /\ pc' = "opening"
    BY <1>4 DEF Launch, outside
  <2>2. /\ Phase = "closed" /\ Phase' = "starting" /\ UNCHANGED <<Seen, Asked>>
    BY <2>1, SeenKept, PhaseOf, PhaseAfter
  <2>3. keys' = Promised!Loaded
    BY <2>1, SameNames
  <2>4. Promised!Launch
    BY <2>1, <2>2, <2>3 DEF Promised!Launch, Seen, Phase, Asked
  <2> QED BY <2>4 DEF Promised!Next
<1>5. CASE installStarterPresets
  <2>1. /\ UNCHANGED <<disk, hidden, keys, answer, write>> /\ pc = "opening"
        /\ preferences \in [started : BOOLEAN, installed : BOOLEAN]
        /\ write = Nothing
    BY <1>5 DEF installStarterPresets, outside, FilesInv, Installing, Replacing
  <2>2. /\ Phase = "starting" /\ UNCHANGED <<Seen, Asked>> /\ Asked = Nothing
    BY <2>1, SeenKept, PhaseOf, PhaseAfter
  <2>3. CASE UNCHANGED preferences /\ pc' = "open"
    BY <2>1, <2>2, <2>3, PhaseAfter, Abandons DEF Marks
  <2>4. CASE /\ presets # {} /\ ~preferences.started
             /\ preferences' = [preferences EXCEPT !.installed = TRUE] /\ pc' = "open"
    <3>1. /\ preferences'.installed = TRUE /\ preferences'.started = preferences.started
          /\ Phase' = "open" /\ Promised!Listed # {}
      BY <2>1, <2>4, PhaseAfter, SameNames
    <3>2. Promised!Adopt
      BY <2>1, <2>2, <2>4, <3>1 DEF Promised!Adopt, Seen, Phase, Asked
    <3> QED BY <3>2 DEF Promised!Next
  <2>5. CASE /\ ~preferences.installed /\ (presets = {} \/ preferences.started)
             /\ preferences' = [preferences EXCEPT !.started = TRUE] /\ pc' = "seeding"
    <3>1. /\ preferences'.started = TRUE /\ preferences'.installed = preferences.installed
          /\ Phase' = "starting"
      BY <2>1, <2>5, PhaseAfter
    <3>2. CASE preferences.started
      BY <2>1, <2>2, <3>1, <3>2, NothingPromised DEF Promises, Marks
    <3>3. CASE presets = {}
      <4>1. Promised!Listed = {}
        BY <3>3, SameNames
      <4>2. Promised!Begin
        BY <2>1, <2>2, <2>5, <3>1, <4>1 DEF Promised!Begin, Seen, Phase, Asked
      <4> QED BY <4>2 DEF Promised!Next
    <3> QED BY <2>5, <3>2, <3>3
  <2>6. \/ UNCHANGED preferences /\ pc' = "open"
        \/ /\ presets # {} /\ ~preferences.started
           /\ preferences' = [preferences EXCEPT !.installed = TRUE] /\ pc' = "open"
        \/ /\ ~preferences.installed /\ (presets = {} \/ preferences.started)
           /\ preferences' = [preferences EXCEPT !.started = TRUE] /\ pc' = "seeding"
    <3>1. CASE preferences.installed
      BY <1>5, <3>1 DEF installStarterPresets
    <3>2. CASE ~preferences.installed /\ presets # {} /\ ~preferences.started
      <4>1. Prefer("installed", "open", "open")
        BY <1>5, <3>2 DEF installStarterPresets
      <4> QED BY <3>2, <4>1, PreferTyped
    <3>3. CASE ~preferences.installed /\ ~(presets # {} /\ ~preferences.started)
      <4>1. Prefer("started", "seeding", "open")
        BY <1>5, <3>3 DEF installStarterPresets
      <4> QED BY <3>3, <4>1, PreferTyped
    <3> QED BY <3>1, <3>2, <3>3
  <2> QED BY <2>3, <2>4, <2>5, <2>6
<1>6. CASE Seed
  <2>1. /\ UNCHANGED <<disk, hidden, preferences, pc, keys, answer>> /\ pc = "seeding"
    BY <1>6 DEF Seed, outside
  <2>2. UNCHANGED <<Phase, Asked>>
    BY <2>1, PhaseOf, PhaseAfter
  <2> QED BY <2>1, <2>2, SeenKept, NothingPromised DEF Promises, Marks
<1>7. CASE FinishSeeding
  <2>1. /\ UNCHANGED <<disk, hidden, keys, answer, write>> /\ pc = "seeding"
        /\ Prefer("installed", "open", "open")
        /\ preferences \in [started : BOOLEAN, installed : BOOLEAN] /\ preferences.started
        /\ index > Len(StarterList) /\ index \in 1 .. Len(StarterList) + 1
    BY <1>7 DEF FinishSeeding, outside, FilesInv, Installing
  <2>2. write = Nothing
    BY <2>1, StartersListed DEF FilesInv, Installing
  <2>3. pc' = "open"
    BY <2>1, PreferTyped
  <2>4. /\ Phase = "starting" /\ Phase' = "open" /\ UNCHANGED <<Seen, Asked>>
        /\ Asked = Nothing
    BY <2>1, <2>2, <2>3, SeenKept, PhaseOf, PhaseAfter
  <2>5. CASE UNCHANGED preferences
    BY <2>1, <2>4, <2>5, Abandons DEF Marks
  <2>6. CASE preferences' = [preferences EXCEPT !.installed = TRUE]
    <3>1. \A n \in Starters : Promised!Readable(n)
      <4>1. 1 .. index - 1 = 1 .. Len(StarterList)
        BY <2>1, StartersListed
      <4>2. \A n \in Starters : Readable(n) /\ n \in Names
        BY <2>1, <4>1, StartersListed DEF FilesInv, Installing, Names, Library
      <4> QED BY <4>2, SameNames
    <3>2. preferences'.installed = TRUE /\ preferences'.started = preferences.started
      BY <2>1, <2>6
    <3>3. Promised!Finish
      BY <2>1, <2>4, <3>1, <3>2 DEF Promised!Finish, Seen, Phase, Asked
    <3> QED BY <3>3 DEF Promised!Next
  <2> QED BY <2>1, <2>5, <2>6, PreferTyped
<1>8. ASSUME NEW n \in Library, NEW c \in Documents, SaveSequence(n, c)
      PROVE  Promised!Next
  BY <1>8, AsksToSave, SeenKept DEF SaveSequence, outside, Names, Marks
<1>9. ASSUME NEW c \in Documents, SaveBindings(c) PROVE Promised!Next
  BY <1>9, AsksToSave, SeenKept DEF SaveBindings, outside, Names, Marks
<1>10. ASSUME NEW n \in Library, DeleteSequence(n) PROVE Promised!Next
  <2>1. /\ UNCHANGED <<hidden, preferences, pc, write, keys, answer>> /\ pc = "open"
        /\ write = Nothing /\ disk' = [disk EXCEPT ![n] = OnDisk(Nothing)]
    BY <1>10 DEF DeleteSequence, program
  <2>2. /\ Phase = "open" /\ Asked = Nothing /\ UNCHANGED <<Phase, Asked>>
    BY <2>1, PhaseOf, PhaseAfter
  <2>3. Seen' = [Seen EXCEPT ![n] = Nothing]
    BY <2>1 DEF Seen, Found, FilesInv, Whole, OnDisk
  <2>4. Promised!Delete(n)
    BY <2>1, <2>2, <2>3 DEF Promised!Delete, Seen, Phase, Asked
  <2> QED BY <2>4, SameNames DEF Promised!Next
<1>11. CASE Close \/ Crash \/ PowerCut
  <2>1. UNCHANGED <<disk, hidden, preferences>> /\ Ended
    BY <1>11, NothingUnflushed DEF Close, Crash, PowerCut, outside
  <2> QED BY <2>1, Ends, SeenKept DEF Marks
<1>12. CASE Outside
  <2>1. /\ UNCHANGED <<preferences, pc, write, keys, answer>> /\ pc \in {"closed", "open"}
        /\ write = Nothing
    BY <1>12 DEF Outside, program
  <2>2. /\ Phase # "starting" /\ Asked = Nothing /\ UNCHANGED <<Phase, Asked>>
    BY <2>1, PhaseOf, PhaseAfter
  <2>3. \/ /\ \E n \in Names, c \in Held : Seen' = [Seen EXCEPT ![n] = c]
           /\ UNCHANGED hidden
        \/ hidden' = ~hidden /\ UNCHANGED Seen
    <3>1. ASSUME NEW n \in Names, NEW c \in Held, disk' = [disk EXCEPT ![n] = OnDisk(c)]
          PROVE  Seen' = [Seen EXCEPT ![n] = c]
      BY <3>1 DEF Seen, Found, FilesInv, Whole, OnDisk
    <3> QED BY <1>12, <3>1, SeenKept DEF Outside
  <2>4. Promised!Outside
    BY <2>1, <2>2, <2>3, SameNames DEF Promised!Outside, Seen, Phase, Asked, Held
  <2> QED BY <2>4 DEF Promised!Next
<1> QED
  BY <1>1, <1>2, <1>3, <1>4, <1>5, <1>6, <1>7, <1>8, <1>9, <1>10, <1>11, <1>12
     DEF FilesNext, Writing, Starting

(* Whatever is on the disk at first is a library.                          *)
LEMMA InitPromised == FilesInit => Promised!Init
<1> SUFFICES ASSUME FilesInit PROVE Promised!Init
  OBVIOUS
<1>1. Phase = "closed" /\ Asked = Nothing
  BY PhaseOf DEF FilesInit
<1>2. Seen \in [Names -> Held]
  BY DEF FilesInit, Seen, Found, OnDisk
<1> QED BY <1>1, <1>2, SameNames DEF Promised!Init, FilesInit, Seen, Phase, Asked, Held

(* Whatever fails, and wherever the program or the power ends, every file  *)
(* is the old or the new document and the answer says which ("An           *)
(* interrupted save leaves the old file intact", preset_store.c:86);       *)
(* bundled sequences are put in place once, and none replaces a sequence   *)
(* that can be read.                                                       *)
THEOREM ImplementsLibraryHolds == FilesSpec => ImplementsLibrary
<1>1. FilesInv /\ [FilesNext]_filesVars => [Promised!Next]_(Promised!vars)
  <2>1. FilesInv /\ UNCHANGED filesVars => UNCHANGED Promised!vars
    BY NothingPromised
       DEF filesVars, outside, program, Promises, Marks, Seen, Found, Phase, Asked
  <2> QED BY <2>1, StepPromised
<1>2. FilesSpec => Promised!Spec
  BY <1>1, InitPromised, FilesInvHolds, PTL DEF FilesSpec, Promised!Spec
<1> QED BY <1>2 DEF ImplementsLibrary
=============================================================================
