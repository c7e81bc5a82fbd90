# clumsier, specified

clumsier delays a computer's network traffic on purpose, following presets of
steps a player moves through with hotkeys. This directory holds TLA+ modules
translated from its sources, the TLC configurations that model-check them, and
proofs that TLAPS checks. Every name in a module is the source's name where one
exists; `PROJECT.json` maps each definition to the lines it stands for.

## The system

| part | source | state it keeps | what is hard about it |
|---|---|---|---|
| settings, selections, backend contract | `core/network.[ch]` | none (values) | the contract: failed start cleans up, failed apply changes nothing, stop releases everything |
| presets | `core/preset.c` | none | numeric edges: odd milliseconds, targets below the baseline, limits |
| controller | `core/controller.c` | accepted settings, selection, loaded sequence and cursor | capture may end by itself inside any operation; rollback of a failed replacement |
| Linux backend | `backends/linux/backend.c`, `session.c`, `nft.c` | running/started/stopping flags, requested settings, session, ownership token | two threads, lost wakeups, kernel and helper failures at every step, cleanup that may fail half way |
| Linux lag queue | `backends/linux/lag_queue.c` | array of held packets, settings in force | live changes while packets are held, failed verdicts in mid-pass |
| Linux Qt transport | `platform/linux/qt_backend.cpp`, `qt_helper.c` | busy flag, running flag, helper process | replies without request ids, nested event loops, helper death |
| hotkeys | `core/hotkey_matcher.c`, `platform/windows/hotkeys.c` | bindings, pressed keys, consumed chord, recording, queue of posted inputs | stale presses after a change of bindings, modifiers, pauses |
| Windows backend | `backends/windows/` | packet list, timers, worker threads | three threads, ends of workers that leave `running` set, 32-bit clock |
| macOS backend | `backends/macos/`, `platform/macos/` | held packets, filter provider, host connection | XPC replies after reconnects, watchdog against live commands |
| interface bridge | `ui/qt/app_bridge.cpp` | activity, draft, saved sequences, server profiles, selection, autosave timer | draft versus what is accepted and captured, a file that cannot be written half way, a timer inside a pending call |
| stores | `platform/*/preset_store.*`, `platform/windows/hotkey_settings.c` | files | a crash or a power cut between any two calls of the system, a first launch interrupted between two bundled sequences |
| console | `prototype/console.c` | a controller | signals |

What makes each part correct:

* **Lag queue**: one direction is never reordered; every held packet is given
  exactly one verdict, in the end; the wait handed to `poll` is exact.
* **Linux and Windows backends**: the contract of `network.h`; no packet is lost
  unless something failed, and then it is reported (Linux), and none is sent twice
  (Windows); calls return whatever the threads are doing.
* **Presets and controller**: what is accepted, shown and captured is the same
  thing, at every step of every sequence, whatever fails half way.
* **Qt transport**: an answer belongs to its request, a helper that was given up
  stops, an end of capture is noticed.
* **Hotkeys**: an action runs once per completed combination, never with keys held
  over from before a change of mode, and shortcuts come back after a lost key.
* **macOS provider and host**: the provider delays only for a connected host that
  still sends heartbeats, Stop is answered after every held packet was delivered,
  and a host at rest claims exactly what the provider does.
* **Interface bridge**: what the interface shows is what is captured or what Start
  would capture; nothing of a draft is lost by an operation that failed.
* **Stores**: a file is the old or the new document, the answer to a save says
  which, and neither a crash nor a power cut changes that; bundled sequences are put
  into a library found empty, completed by a later launch if the first is interrupted,
  and never again once that is finished.

The owner (the user interface's thread) calls the controller; the controller
calls one backend through the four operations of `NetworkBackendOps`. A
backend has threads or processes of its own and may stop capturing whenever one
of them fails. Hotkeys are posted to the owner's thread and executed there.

## Modules

| module | models | state and actions |
|---|---|---|
| `Network` | `core/network.c` | settings, selections, their checks, the delay in force for a direction |
| `NetworkContract` | the comment and operations of `core/network.h` | abstract backend: `capture`, `call`, `reply`, `engaged`. A call is issued, takes effect and returns; capture may end by itself at any moment; `engaged` says that packets of the system may still be held |
| `Preset` | `core/preset.c` | `presetValidate`, `presetResolve` as operators |
| `Controller` | `core/controller.c` | `app`, `pc` and every operation, over `NetworkContract`. An operation that calls the backend waits at its `pc` with the backend's own steps in between; `draft` is what it will commit |
| `LagParameters` | the constants of the two queues | room of the queue, identities, settings |
| `LagQueue` | `lag_queue.c`, abstractly | all packets ever pushed, the set of positions `held`, an age for each |
| `LagQueueArray` | `lag_queue.c`, the array | the array, its compacting loop with a failed verdict in mid-pass, the clock; refines `LagQueue` |
| `LinuxBackend` | `backend.c`, `session.c`, `nft.c` | `pc` for owner and worker; one action per stretch of a thread between two points at which another thread, the kernel or a helper can be seen to act. Every system call and nft transaction may fail, and a failed one may have committed. Refines `NetworkContract` |
| `WindowsCapture` | `backend.c`, `lag_engine.c`, `legacy/divert.c` | owner, reader and clock; the mutex, the two packet lists, the driver's queue |
| `QtBackend` | `qt_backend.cpp`, `qt_helper.c` | the pending request, the two pipes, what QProcess noticed, the helper, the native backend reduced to what it captures with and the failure it has on record |
| `MacProvider` | `provider.m`, `held_packets.c` | the scheduler and its held packets under the state lock, batches delivered outside it by the timer, the stopping call and a serial queue per connection, the watchdog, the one client |
| `MacHost` | `host.m`, over `MacProvider` | buttons, the command in flight and its ten seconds, heartbeats, what the host shows, mail in both directions, what was asked of the system |
| `AppBridge` | `app_bridge.cpp`, over the controller's contract | activity, selection, draft and saved form, files, baselines and associations; a call of the backend is a pending operation during which the autosave timer may fire |
| `Library` | `docs/PRESETS.md`'s promises as the stores keep them | abstract library: every replacement is one step, a crash changes no file |
| `LibraryFiles` | `preset_store.c`, `preset_store.cpp`, `hotkey_settings.c`, the launch in `app_bridge.cpp` | temporary file, write, flush, move, one step each, any of which may fail or be the last before a crash or power cut; the starter loop and its mark in `preferences.ini`; other programs that edit files. Refines `Library` |
| `HotkeyMatcher` | `hotkey_matcher.c` | operators on the matcher's record |
| `Hotkeys` | `hotkeys.c`, shortcut half of `app_bridge.cpp` | keyboard, posted messages, generation, pauses, recording; the two steps of `synchronizeInput`; `desk`, the circumstances that hold for the whole of a behaviour |
| `HotkeysHistory` | nothing of the code | what the player's hands did, to state three properties of `Hotkeys`; kept only where inputs are not lost, because elsewhere hands and messages rightly differ |
| `*Proofs` | | theorems, see below |
| `MC*` | | instances for TLC |

How they compose: `Controller` instantiates `NetworkContract` and calls it;
`LinuxBackend` instantiates `NetworkContract` as its abstraction, so what is shown
of the controller holds over the Linux backend, whose refinement of the contract is
proved.
`LagQueueArray` instantiates `LagQueue`, `LibraryFiles` instantiates `Library`, each
with a refinement mapping. `MacHost` extends `MacProvider`: one state of both
processes and the channel between them. `AppBridge` takes the controller and a
backend together as operations that are accepted, refused or end in a stop, which is
what the properties of `Controller` say of them. `LinuxBackend` keeps its held
packets as a set, because only membership matters there; their order is `LagQueue`'s
subject. `QtBackend` takes the native backend as a black box which may fail at any
time.

Abstractions used throughout: texts are reduced to whether there is one; packets
are model values or numbers; time is an age per packet, capped one above the
largest delay; a name or native filter is whether it is well formed. Definitions
marked "Variant" are broken forms of the definition after them; each property
has one (`mutants` in `PROJECT.json`) that must violate it.

## Runs

| run | what it shows | bounds, and why they are enough |
|---|---|---|
| `lag_queue` | the C loop, with a failed verdict in mid-pass, implements `LagQueue`; one direction leaves in order, the wait handed to `poll` is exact, every held packet leaves | 3 ids, room for 2, 3 pushes, delays to 2 ms: a full array, a packet between two of the other direction, every position of the failing packet, delays raised and lowered across an age |
| `linux_backend` | eight properties: session owned by one thread at a time, no loss in a session where nothing failed, lost packets and failed starts are reported, no table forgotten, the contract, calls return, a dead worker lets go, accepted settings come to govern | 2 packets, a kernel queue of 2, 2 selections (one not expressible), 3 settings (one invalid), 3 drain passes: a packet known to the worker beside one still in the socket, two in the socket at once, a drain that ends after both and one that fails in between; any number of calls |
| `controller` | accepted settings are the captured ones between operations, the old or the new ones inside; sequence fields agree; hotkeys never surprise; an answered stop is final; what a step announces is reached; a delayed direction is a captured one | 6 presets (looped; another selection; one whose second step is beyond the limit of a low baseline; one below, at and above its baseline; two that delay a direction they do not capture and are refused), 4 baselines, limits of 1 and 3 ms: delays split evenly and with an odd millisecond, and loads refused for each reason; any number of operations |
| `app_bridge` | what is shown is captured, or is what Start would capture unless the interface says "not ready"; Start is not armed with the other activity's settings; edits survive every operation that fails | 2 ids, a plain sequence and one of two steps with a baseline, 2 quick settings, 2 servers, 2 baselines, symmetric in ids and servers; any number of operations. A second id is needed for selection and batches, a second server for a change of association, two baselines to tell old from new |
| `app_bridge_start` | *violated* (`ShownGoverns`): Start also after a change that reached the file or the screen, not the controller | as above, `StaleStarts` |
| `hotkeys` | one action per completed combination; nothing acts while keys are held over; a recording takes only keys pressed in it; shortcuts come back | three desks: 2 keys with inputs lost, a sampled state that lags and keys typed in mid-synchronization; 2 keys and 2 messages under way; 3 keys, two of one modifier |
| `library_files` | the stores implement `Library`; an interrupted first launch is taken up by the next | 2 bundled sequences (a launch can end between them), 1 of the player's, `hotkeys.ini`, 2 documents, 2 faults in a behaviour: a crash while what an earlier one left is being written again |
| `library_unreadable` | *violated* (`UnreadableIsLeftAlone`): an installation writes over a bundled sequence that cannot be read | as above, without faults |
| `mac_host` | a host at rest claims what the provider does; Stop is answered when all is delivered; a provider whose host is gone lets go; the host learns that a session ended; held packets come out | 2 packets, one each way, room for 1, 2 presets (one of two steps), 1 connection of the host and another copy of the application |
| `mac_host_approval` | *violated* (`IdleHostAgrees`): the answer to Enable or Remove comes while a later command is in flight | 1 packet, 2 connections, `LateApproval` |
| `qt_backend` | captured is what was acknowledged; a helper that was given up stops; an end of capture is noticed | 2 settings; any number of requests, timeouts and helpers |
| `windows_capture` | no packet is lost without a failure and none is sent twice; held packets leave in order; the code's assertions hold; start and stop return | 3 packets, a buffer of 2 that flushes 1, delays of 1 ms each way: overflow, close-down and reordering with one packet in each thread's hands |

Three runs are expected to be violated; `findings` in `PROJECT.json` quotes the
sentences they contradict.

* `app_bridge_start`: an edit made and taken back while a sequence was playing, or a
  baseline changed in the server dialog, leaves the controller with settings the
  interface no longer shows. Start then runs those.
* `mac_host_approval`: the end of an Enable or Remove enables the buttons although a
  Start is in flight. The player can import another preset, and the acknowledgement
  of the Start is then shown as the new one's.
* `library_unreadable`: while the installation is not finished, a bundled sequence that
  cannot be read is taken for one that is missing, and written over
  (`app_bridge.cpp:190`), although `docs/PRESETS.md:59` has unreadable files left
  untouched. No fault is needed: a folder with nothing but unreadable files in it counts
  as an empty library.

`ImplementsLibrary` allows that, and the following too, which no document or test
promises against. The first launch puts a bundled sequence in place and is interrupted,
or cannot write the next one or the final mark (`app_bridge.cpp:196`). Its user deletes
the sequence; the next launch finds it missing and creates it again
(`app_bridge.cpp:180-190`). Tests cover the deletion after a finished installation
(`tests/qt_bridge.cpp:158`), after which `Library` lets nothing come back.

The constants of the first two are `FALSE` in the passing runs, so that these cover
everything else: with `StaleStarts` false, Start is not pressed in that state; with
`LateApproval` false, the system answers before the next command is given.

No counter is bounded except through the bounds named in the modules: `MaxPushes`
and `Ids` (lag queue), `MaxPackets` (Windows), `Packets`, `DrainPasses` (Linux),
`Packets`, `HeldLimit`, `Connections` (macOS), `Ids` (bridge), the `queue` of a desk,
`MaxFaults` (library) and two caps. `AgeCap` loses nothing, since ages above the
largest delay are never told apart; `CreditCap` is one more than the completions that
can be under way. `MaxPushes` and `MaxPackets` end the arrival of packets, not the
calls. Packets of `mac_host` may be held again once they were delivered. Desks on
which no input is lost also type nothing between the two steps of `synchronizeInput`
(`during` is false): with it, a repeat of a held key that was posted after the
generation was raised is taken for a press when the key is released before it is
sampled, and `NeverRepeats` fails. `CHECK_DEADLOCK` is off for `QtBackend`, where the
interface may quit, and for `mac_host_approval`, which has a single packet and may come
to rest.

### Fairness

* `LagQueueArray`, and `LagQueue` alike: `WF(Tick)`, `WF(Release)`. Time passes; the
  worker polls for at most 100 ms (`backend.c:265`).
* `LinuxBackend`: `WF` of the owner inside a call and of the worker. Threads are
  scheduled, and system calls return: verdicts have a one-second socket timeout and
  nft helpers a five-second one. Nobody has to call, no packet has to arrive.
  `CallsReturn` does not assume that the wakeup is written.
* `WindowsCapture`: `WF` of the owner inside a call, the reader, the clock, and time.
* `Hotkeys`: `WF` of the steps of a synchronization and of the key state's update;
  `SF` of message delivery and of the timer, whose messages the event loop takes in
  turn while new input keeps arriving. `HotkeysHistory` assumes the same.
* `MacHost`: `WF` of the end of the ten seconds, of the system's answers, of the
  provider's timer, of time, of each thread that delivers a batch and of the handler
  of each invalidated connection; `SF` of the host's taking mail, since the main queue
  serves blocks in turn while others are added. The player need not do anything, and
  the host may be killed.
* `LibraryFiles`: `WF` of a save and of a launch under way, between faults: a started
  program goes on, and after it ended before it had put the bundled sequences in
  place it is started again.
* `AppBridge`, `Controller`: none; only safety is stated.
* `QtBackend`: `WF` of the poll timer, of each way a wait ends, of the notice of a
  helper's exit and of the helper's own steps. Nobody has to answer the
  authorization prompt, and callers need not call.

Liveness properties are about what happens without further help: a user who stops
pressing keys, a capture that nobody stops.

## Proofs

TLAPS checks the theorems below for every value of the constants that meets the
named assumptions (`LagLimitsAssumption`, `LagQueueAssumption`, `PresetAssumption`,
`ControllerAssumption`, `NoLagIsNoSetting`, `LinuxAssumption`,
`AppBridgeAssumption`, `WindowsAssumption`, `MacProviderAssumption`,
`MacHostAssumption`, `HotkeysAssumption`, `LibraryAssumption`): limits are natural
numbers, the default delay is within them, parameters are sets of records of the right
type, a value that stands for "none" is none of the others. TLC evaluates each of them
on the instances. Five theorems have a hypothesis besides, which is said below.

Each invariant and action property of a passing run is stated by one of these theorems.

* `LagQueueArrayProofs`, in two parts. Of the abstract queue `Q!`: `QueueTyped`,
  `QueueKeepsOrder`, `QueueBounded`, `QueueIdsUnique`. Order alone is not inductive: a
  pass lets packets go by age, so an earlier packet that was younger could be overtaken.
  The invariant adds `OlderFirst`, and `EligibilityIsMonotone` shows that of two packets
  of one direction the earlier is eligible whenever the later is. Of the array: it
  implements that queue (`ImplementsLagQueueHolds`), and so keeps its order
  (`FifoHolds`), never overflows and holds no id twice (`ArrayIsSoundHolds`); the wait
  for `poll` is exact (`WaitIsExactHolds`). The two loops of `lag_queue.c` are functions
  over their turns. That such a function exists, and what holds after each turn, goes by
  induction over the turns, which a least counterexample gives (`Least`, `Induct`,
  `Recursion`), since theorems with an operator parameter cannot be used.
  `PassKeeps` says what the compacting loop leaves: the entries that are not due and
  every entry from the one whose verdict failed, in their order. The invariant:
  entries remember the packet as it was pushed (`Records`), in order (`Ordered`).
* `ControllerProofs`: `CaptureIsAcceptedHolds`, `CaptureIsOldOrNewHolds`,
  `SequenceIsConsistentHolds`, `HotkeysNeverSurpriseHolds`, `StartAdoptsHolds`,
  `AnsweredStopHolds`, over any backend that keeps `NetworkContract`. Two
  invariants: `SequenceInv` says that `app` and the `draft` about to be committed
  are consistent; `CaptureInv` says, for each place at which an operation waits,
  what the backend may be running and what it was asked. A rollback that fails
  and a capture that ends by itself in mid-operation are cases of it. What it needs
  of a resolved step is proved first: what `presetResolve` returns is typed, within
  limits, and adds up to the extra delay asked for (`ExtraIsSplit`, including the odd
  millisecond). The same lemmas give `EstimateHolds` and `DelayedIsCapturedHolds`: the
  accepted step is the result of resolving its preset (`SequenceInv`), and a capture
  between two operations runs by it (`CaptureInv`).
* `LinuxBackendProofs`: the four invariants of the run (`SessionExclusiveHolds`,
  `CleanSessionHolds`, `FailuresAreReportedHolds`, `OwnedTableHolds`) and the
  refinement of the contract (`BackendImplementsContract`), from one invariant. Its
  parts: where each thread can be when the other is at a given place (`Lives`), with
  "the owner has joined the worker before it touches the session" as the core; how
  both got there and what was asked (`Routes`, `Asked`); which of their flags tell
  the truth (`Reporting`); what the session holds at each place (`Session`); which
  losses are excluded unless something failed (`Clean`); and where the news of a
  failure is until it is recorded (`Known`).
* `AppBridgeProofs`: `ArmedHolds`, `ShownGovernsHolds`, `EditsSurviveHolds`, for any
  number of ids, servers and files. An operation that waits for the backend has
  computed what it will commit beforehand, so the invariant says of each such
  operation that it is still due (`Due`): what it will show is what the controller
  will have, in every field: an unsaved edit may wait beside Quick Controls, and a
  server that is shown before it is accepted is remembered with the one before it.
  `ShownGovernsHolds` assumes `~StaleStarts`; without that the property is
  false, as `app_bridge_start` shows. The module also proves that the files under the
  interface keep their promises, `ImplementsLibraryHolds`: every step of `LibraryFiles`
  is one of `Library` or changes nothing `Library` speaks of. Its invariant, `FilesInv`:
  every file is on the disk; a temporary file that is flushed holds the new document;
  while bundled sequences are put in place the mark is stored, those before `index` can
  be read, and the one being written replaces nothing that can be. That a loss of power
  loses nothing (`NothingUnflushed`) is a consequence.
* `WindowsCaptureProofs`: `NothingIsLostHolds`, `HeldLeaveInOrderHolds`,
  `AssertionsHoldThroughout`, for every limit of the buffer and any number of
  packets. Buffer, packet list, the packet in the reader's hands and the driver's queue
  form one line in the order of arrival with everything before it gone (`Line`); of two
  held packets the earlier is not the younger, and no held packet leaves an earlier
  one of its direction outside the buffer (`Order`); what was sent holds no packet twice
  and none that was dropped (`Once`). The other half says what each
  place of the owner means for the workers (`Calls`) and who may have left what in the
  lists (`Hands`). `AmongPlaces` shows, by ranking places, that filtering a list keeps
  its order.
* `QtBackendProofs`: `OneLineUnderWay` and `AcknowledgedCapture`. Requests carry no
  number, so the invariant says where the single line of a request is (unread,
  being answered, replied, or lost with its helper) and what must be true of the
  capture at each place. It holds only of an open channel: closing it on a timeout
  is what keeps late answers from counting, and the variant without it violates
  both.
* `MacHostProofs`: `StopIsFlushedHolds` and `IdleHostAgreesHolds`, over provider, host
  and the mail between them. A command is in one of three places: asked for but not
  begun, an answer prepared by a connection's queue, or a block on its way to the host's
  main queue. `Links` says what each end of a connection can still do, and that a
  provider that does not run holds nothing. `Stopping`: no configuration is asked for
  behind a Stop of interest; from the preparation of a good answer on, the provider does
  not run and is asked for nothing; from the sending of it on, nothing is in hand.
  `Agreement`, of the host's connection: its command is in one place only (`Single`), an
  idle host has none (`Silent`), a heartbeat is under way only where there is none, and
  host and provider agree up to that command (`Agrees`). `IdleHostAgreesHolds` assumes
  `~LateApproval`; without that the property is false, as `mac_host_approval` shows.
* `HotkeysProofs`: `HeldKeysNeverActHolds`, `NeverRepeatsHolds`,
  `RecordedIsPressedHolds`, for every keyboard, set of bindings and length of the
  message queue. The many actions are first reduced to what they do to keys, messages
  and matcher (`Moves`): a key is struck, the mode changes, the matcher resumes, a
  message is skipped or heard. Four invariants of these effects: what the messages under
  way and the matcher together tell of the keyboard (`Held`), which keys were pressed
  since the mode changed (`Known`), that a combination stays latched as long as it is
  held (`Latched`), and that each completion the messages still bring has been credited
  (`Counted`). The hypotheses concern desks on which no input is lost. All three need a
  sampled state that does not lag (`lags`): otherwise the sample misses a key pressed
  just before a change of mode, and its repeat is taken for a press. The latter two
  need, beyond that, that no key moves between the two steps of `synchronizeInput`
  (`during`): a repeat posted after the first, of a key released before the second, is
  heard as a press. TLC finds these behaviours when the hypotheses are dropped.

Only model-checked: all liveness (under fairness, out of the prover's reach), which is
`HeldEventuallyReleased`, `PacketsComeOut`, `CallsReturn` of both backends,
`EndedCaptureLetsGo`, `AcceptedLagGoverns`, `ShortcutsComeBack`,
`InterruptedLaunchResumes`, `AbsentHostLetsGo`, `HostLearns`, `GivenUpHelperEnds` and
`EndIsNoticed`. No module declares a RECURSIVE operator.

`AppBridgeProofs` extends two component modules. To that end `LibraryFiles` calls its
specification `FilesSpec` instead of `Spec`.

## What is not modelled

* Parsing and formatting: preset JSON, hotkey names, nft rules, WinDivert filter
  text, the lines of the helper's protocol, the macOS frame matcher. They are functions
  without state.
* The console, a sequential front end on one controller; the NFQUEUE probe, which
  nothing of the application calls; window decoration and QML layout; vendored code
  (`external/`, `third_party/`).
* In `AppBridge`: export, refresh and texts. Another program changes files between
  operations only; the check for such a change comes before the call of the backend
  and the write after it (`app_bridge.cpp:318`), so that a change in between is
  overwritten. A save the autosave timer makes during a pending call or poll is refused
  and not tried again before the next edit. "Discard and reopen" of the sequence that is
  already open returns early, without reading the file. A server association that
  cannot be written is not retried. (Modelled: the dialog before a
  change of activity goes on with it also when the edit could not be discarded,
  `Main.qml:276`; the edit then waits beside Quick Controls.)
* In `QtBackend`, a start or an apply that a timer makes inside the event loop of a
  pending request is refused and changes nothing, so it is no step of the model; what
  its caller makes of the refusal is in `AppBridge`. (A stop made there is refused too,
  but clears `running_`: a step of `stop`.) A start that timed out at the authorization
  prompt stays in the pipe: if the prompt is answered later, the helper captures until
  it meets the end of its input. When a helper answers and dies within one pass of that
  loop, `running_` can stay true with no helper left to poll; `EndIsNoticed` is stated
  of a living helper for that reason.
* In `Hotkeys`, a resume in the middle of a recording cancels the matcher's recording
  only: the interface goes on showing it while shortcuts act. No document promises
  otherwise, and no property states it.
* In `WindowsCapture`, callers other than the owner, who wait on `lifecycleLock`. After
  a worker failed the backend still calls itself running; nothing is stated of that.
* In `LibraryFiles`, a library that cannot be opened at all and reads that fail for a
  moment. QSaveFile and QSettings are external: the former takes the steps of a
  replacement, the latter writes as a whole or not at all.
* In `MacHost`, the system's filter framework beyond what it answers to Enable
  and Remove and how it starts and stops the provider, and the text of errors.

## Plan

Modelled as planned: the core, the Linux and Windows backends, the transport, hotkeys,
the bridge, the macOS provider and host, the stores. What is left:

1. Composition of `AppBridge` with `QtBackend`, for requests that time out under a
   pending save.
2. `Console`: its loop and signals over `Controller`.

Theorems: the safety properties are proved. With the compositions above would come
that `AppBridge`'s pending call keeps what `QtBackend` says of its requests, and that
the console's one controller is driven as `Controller` allows.
