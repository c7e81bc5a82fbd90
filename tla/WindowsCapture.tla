--------------------------- MODULE WindowsCapture ---------------------------
(***************************************************************************)
(* The Windows capture backend: backends/windows/backend.c, the Lag module *)
(* of lag_engine.c and the capture threads of legacy/divert.c.             *)
(*                                                                         *)
(* Three threads: the owner, whose calls hold lifecycleLock from beginning *)
(* to end, a reader and a clock.  A thread holds the mutex while it is at  *)
(* "consume" or "process".  WinDivert is external: while its handle is     *)
(* open matching packets queue in the driver, a shutdown stops that and    *)
(* leaves the queue readable, and a close drops it.                        *)
(*                                                                         *)
(* Packets are numbered as they arrive.  The two linked lists are          *)
(* sequences that begin where packets are taken out, at tail->prev.  As in *)
(* LagQueue a held packet has an age in place of its timestamp, which also *)
(* covers a timer that wraps around: the code subtracts without sign.      *)
(***************************************************************************)
EXTENDS Network, SequencesExt

CONSTANTS
  Settings,       (* the Lag settings callers pass                        *)
  KeepAtMost,     (* KEEP_AT_MOST                                         *)
  FlushWhenFull,  (* FLUSH_WHEN_FULL                                      *)
  MaxPackets      (* bound of the model: packets that arrive              *)

ASSUME WindowsAssumption ==
  /\ Settings \subseteq LagSettings
  /\ KeepAtMost \in Nat /\ FlushWhenFull \in 1 .. KeepAtMost
  /\ MaxPackets \in Nat

Threads == {"owner", "reader", "clock"}

AgeCap == LagMaxMs + 1

VARIABLES
  pc,           (* where each thread is                                   *)
  running, stopLooping,
  handle,       (* divertHandle                                           *)
  lag,          (* currentSettings, and its enabled flag windowsLagEnabled *)
  lastEnabled,  (* the Lag module was on in the last pass                 *)
  driver,       (* packets queued in WinDivert                            *)
  reading,      (* the packet the reader has received, not yet listed     *)
  list,         (* the packet list                                        *)
  buffer,       (* the Lag module's own list                              *)
  age,          (* since when each packet of the buffer has been in it    *)
  arrived,      (* history: for each packet, whether it is outbound       *)
  sent,         (* history: packets sent on, in order                     *)
  lost,         (* history: packets that were dropped                     *)
  everHeld,     (* history: packets that were in the buffer               *)
  faulty        (* history: an operation failed                           *)

control == <<pc, running, stopLooping, handle>>
packets == <<driver, reading, list, buffer, age>>
history == <<arrived, sent, lost, everHeld, faulty>>
vars == <<control, lag, lastEnabled, packets, history>>

Goto(t, label) == pc' = [pc EXCEPT ![t] = label]

(* The workers' startup event is set when start has succeeded or failed.   *)
WorkersReady == running \/ stopLooping

MutexFree == \A t \in Threads : pc[t] \notin {"consume", "process"}

(* The entries of s that are in S, in the order they have in s.            *)
Among(s, S) ==
  LET at == {n \in DOMAIN s : s[n] \in S}
      nth(k) == CHOOSE n \in at : Cardinality({m \in at : m <= n}) = k
  IN  [k \in 1 .. Cardinality(at) |-> s[nth(k)]]

-----------------------------------------------------------------------------
Init ==
  /\ pc = [t \in Threads |-> IF t = "owner" THEN "idle" ELSE "none"]
  /\ running = FALSE /\ stopLooping = FALSE
  /\ handle = "closed"
  /\ lag = lagSettingsDefault
  /\ lastEnabled = FALSE
  /\ driver = <<>> /\ reading = <<>> /\ list = <<>>
  /\ buffer = <<>> /\ age = [p \in {} |-> 0]
  /\ arrived = <<>> /\ sent = <<>> /\ lost = {} /\ everHeld = {}
  /\ faulty = FALSE

(* A matching packet reaches the driver.                                   *)
Arrive(outbound) ==
  /\ handle = "open"
  /\ Len(arrived) < MaxPackets
  /\ arrived' = Append(arrived, outbound)
  /\ driver' = Append(driver, Len(arrived'))
  /\ UNCHANGED <<control, lag, lastEnabled, reading, list, buffer, age, sent, lost, everHeld,
                 faulty>>

Tick ==
  /\ age' = [p \in DOMAIN age |-> IF age[p] < AgeCap THEN age[p] + 1 ELSE AgeCap]
  /\ UNCHANGED <<control, lag, lastEnabled, driver, reading, list, buffer, history>>

(* sendAllListPackets: a send may fail, and does on a closed handle; the   *)
(* packet is freed either way.                                             *)
SendAll(out) ==
  \E failing \in SUBSET ToSet(out) :
    /\ handle = "closed" => failing = ToSet(out)
    /\ sent' = sent \o Among(out, ToSet(out) \ failing)
    /\ lost' = lost \cup failing
    /\ faulty' = (faulty \/ failing # {})

AgeOf(p) == IF p \in DOMAIN age THEN age[p] ELSE 0

Buffered(held) == buffer' = held /\ age' = [p \in ToSet(held) |-> AgeOf(p)]

(* A module that was on in its last pass is closed down: windowsLagStop    *)
(* puts the packets it holds in front of what is listed, which is sent.    *)
CloseDown ==
  /\ SendAll((IF lastEnabled THEN buffer ELSE <<>>) \o list)
  /\ list' = <<>>
  /\ Buffered(IF lastEnabled THEN <<>> ELSE buffer)

-----------------------------------------------------------------------------
(* backend.c: settings are configured before capture is asked to start,    *)
(* which does nothing when it already runs.                                *)
applyLag(s) ==
  /\ pc["owner"] = "idle"
  /\ lagSettingsValidate(s)
  /\ lag' = s
  /\ UNCHANGED <<control, lastEnabled, packets, history>>

start(s) ==
  /\ pc["owner"] = "idle"
  /\ lagSettingsValidate(s)
  /\ lag' = s
  /\ \/ running /\ UNCHANGED <<pc, handle>>
     \/ ~running /\ UNCHANGED <<pc, handle>>
     \/ ~running /\ handle' = "open" /\ Goto("owner", "opened")
  /\ UNCHANGED <<running, stopLooping, lastEnabled, packets, history>>

(* divertStart behind WinDivertOpen.  Setting the queue up, the mutex, the *)
(* event and either thread may fail.                                       *)
SpawnReader ==
  /\ pc["owner"] = "opened"
  /\ stopLooping' = FALSE
  /\ lastEnabled' = FALSE
  /\ pc' = [pc EXCEPT !["owner"] = "spawn", !["reader"] = "gate"]
  /\ UNCHANGED <<running, handle, lag, packets, history>>

SpawnClock ==
  /\ pc["owner"] = "spawn"
  /\ pc' = [pc EXCEPT !["owner"] = "idle", !["clock"] = "gate"]
  /\ running' = TRUE
  /\ UNCHANGED <<stopLooping, handle, lag, lastEnabled, packets, history>>

StartFails ==
  /\ pc["owner"] \in {"opened", "spawn"}
  /\ stopLooping' = TRUE
  /\ faulty' = TRUE
  /\ Goto("owner", "abort")
  /\ UNCHANGED <<running, handle, lag, lastEnabled, packets, arrived, sent, lost, everHeld>>

(* A close drops what the driver still queues.                             *)
CloseHandle ==
  /\ handle' = "closed"
  /\ lost' = lost \cup ToSet(driver)
  /\ driver' = <<>>

WorkersGone == pc["reader"] = "none" /\ pc["clock"] = "none"

Abort ==
  /\ pc["owner"] = "abort"
  /\ WorkersGone
  /\ CloseHandle
  /\ Goto("owner", "idle")
  /\ UNCHANGED <<running, stopLooping, lag, lastEnabled, reading, list, buffer, age,
                 arrived, sent, everHeld, faulty>>

-----------------------------------------------------------------------------
stop ==
  /\ pc["owner"] = "idle"
  /\ running
  /\ stopLooping' = TRUE
  /\ Goto("owner", "shutdown")
  /\ UNCHANGED <<running, handle, lag, lastEnabled, packets, history>>

(* Variant: a shutdown that failed is only reported.                       *)
ShutdownOnly ==
  /\ pc["owner"] = "shutdown"
  /\ handle' \in {"open", "shutdown"}
  /\ faulty' = (faulty \/ handle' = "open")
  /\ Goto("owner", "join")
  /\ UNCHANGED <<running, stopLooping, lag, lastEnabled, packets, arrived, sent, lost, everHeld>>

(* When the receiver cannot be woken by a shutdown, the close does it.     *)
Shutdown ==
  /\ pc["owner"] = "shutdown"
  /\ \/ handle' = "shutdown" /\ UNCHANGED <<lost, driver, faulty>>
     \/ CloseHandle /\ faulty' = TRUE
  /\ Goto("owner", "join")
  /\ UNCHANGED <<running, stopLooping, lag, lastEnabled, reading, list, buffer, age,
                 arrived, sent, everHeld>>

(* Variant: modules are closed down while their flag says they are on.     *)
JoinByFlag ==
  /\ pc["owner"] = "join"
  /\ WorkersGone
  /\ SendAll((IF lag.enabled THEN buffer ELSE <<>>) \o list)
  /\ list' = <<>>
  /\ Buffered(IF lag.enabled THEN <<>> ELSE buffer)
  /\ lastEnabled' = FALSE
  /\ Goto("owner", "drain")
  /\ UNCHANGED <<running, stopLooping, handle, lag, driver, reading, arrived, everHeld>>

(* Workers joined, held packets go before the one in flight.               *)
Join ==
  /\ pc["owner"] = "join"
  /\ WorkersGone
  /\ CloseDown
  /\ lastEnabled' = FALSE
  /\ Goto("owner", "drain")
  /\ UNCHANGED <<running, stopLooping, handle, lag, driver, reading, arrived, everHeld>>

Drain ==
  /\ pc["owner"] = "drain"
  /\ driver # <<>>
  /\ SendAll(<<Head(driver)>>)
  /\ driver' = Tail(driver)
  /\ UNCHANGED <<control, lag, lastEnabled, reading, list, buffer, age, arrived, everHeld>>

(* The drain ends with the first receive that fails.                       *)
Stopped ==
  /\ pc["owner"] = "drain"
  /\ CloseHandle
  /\ faulty' = (faulty \/ driver # <<>>)
  /\ running' = FALSE
  /\ Goto("owner", "idle")
  /\ UNCHANGED <<stopLooping, lag, lastEnabled, reading, list, buffer, age, arrived, sent,
                 everHeld>>

-----------------------------------------------------------------------------
(* divertReadLoop.                                                         *)
ReaderGate ==
  /\ pc["reader"] = "gate"
  /\ WorkersReady
  /\ Goto("reader", IF stopLooping THEN "none" ELSE "recv")
  /\ UNCHANGED <<running, stopLooping, handle, lag, lastEnabled, packets, history>>

ReaderReceives ==
  /\ pc["reader"] = "recv"
  /\ handle # "closed"
  /\ driver # <<>>
  /\ reading' = <<Head(driver)>>
  /\ driver' = Tail(driver)
  /\ Goto("reader", "lock")
  /\ UNCHANGED <<running, stopLooping, handle, lag, lastEnabled, list, buffer, age, history>>

ReaderEnds ==
  /\ pc["reader"] = "recv"
  /\ handle = "closed" \/ (handle = "shutdown" /\ driver = <<>>)
  /\ Goto("reader", "none")
  /\ UNCHANGED <<running, stopLooping, handle, lag, lastEnabled, packets, history>>

(* An aborted receive, or a mutex that cannot be taken, ends the reader.   *)
ReaderFails ==
  /\ pc["reader"] \in {"recv", "lock"}
  /\ Goto("reader", "none")
  /\ reading' = <<>>
  /\ lost' = lost \cup ToSet(reading)
  /\ faulty' = TRUE
  /\ UNCHANGED <<running, stopLooping, handle, lag, lastEnabled, driver, list, buffer, age,
                 arrived, sent, everHeld>>

(* While stop waits, the packet in flight is left to it.                   *)
ReaderLocks ==
  /\ pc["reader"] = "lock"
  /\ MutexFree
  /\ list' = list \o reading
  /\ reading' = <<>>
  /\ Goto("reader", IF stopLooping THEN "none" ELSE "consume")
  /\ UNCHANGED <<running, stopLooping, handle, lag, lastEnabled, driver, buffer, age, history>>

(* divertClockLoop.                                                        *)
ClockGate ==
  /\ pc["clock"] = "gate"
  /\ WorkersReady
  /\ Goto("clock", "loop")
  /\ UNCHANGED <<running, stopLooping, handle, lag, lastEnabled, packets, history>>

ClockLocks ==
  /\ pc["clock"] = "loop"
  /\ \/ stopLooping /\ Goto("clock", "none")
     \/ ~stopLooping /\ MutexFree /\ Goto("clock", "consume")
  /\ UNCHANGED <<running, stopLooping, handle, lag, lastEnabled, packets, history>>

ClockFails ==
  /\ pc["clock"] = "loop"
  /\ stopLooping' = TRUE
  /\ faulty' = TRUE
  /\ Goto("clock", "none")
  /\ UNCHANGED <<running, handle, lag, lastEnabled, packets, arrived, sent, lost, everHeld>>

-----------------------------------------------------------------------------
(* divertConsumeStep.  Whether the module is on is read before its         *)
(* settings are, and they may change in between.                           *)
Release(t) == Goto(t, IF t = "reader" THEN "recv" ELSE "loop")

(* Variant: switching the module off does not close it down.               *)
ConsumeUnclosed(t) ==
  /\ pc[t] = "consume"
  /\ IF lag.enabled
     THEN /\ Goto(t, "process")
          /\ UNCHANGED <<list, sent, lost, faulty>>
     ELSE /\ SendAll(list)
          /\ list' = <<>>
          /\ Release(t)
  /\ lastEnabled' = lag.enabled
  /\ UNCHANGED <<running, stopLooping, handle, lag, driver, reading, buffer, age, arrived,
                 everHeld>>

Consume(t) ==
  /\ pc[t] = "consume"
  /\ IF lag.enabled
     THEN /\ Goto(t, "process")
          /\ UNCHANGED <<list, buffer, age, sent, lost, faulty>>
     ELSE CloseDown /\ Release(t)
  /\ lastEnabled' = lag.enabled
  /\ UNCHANGED <<running, stopLooping, handle, lag, driver, reading, arrived, everHeld>>

Lagging(p) == Delay(lag, arrived[p]) > 0

Ready(p) == ~Lagging(p) \/ AgeOf(p) > Delay(lag, arrived[p])

FirstOf(s, n) == SubSeq(s, 1, IF n < Len(s) THEN n ELSE Len(s))

(* The packets of the list the module takes in: while there is room.       *)
Taken ==
  FirstOf(Among(list, {p \in ToSet(list) : Lagging(p)}), KeepAtMost - Len(buffer))

Waiting(entered) == Among(entered, {p \in ToSet(entered) : ~Ready(p)})

(* Variant: a full buffer lets go of its newest packets.                   *)
FlushedNewest(waiting) ==
  IF Len(waiting) < KeepAtMost THEN <<>> ELSE FirstOf(Reverse(waiting), FlushWhenFull)

(* A buffer that is still full afterwards lets go of its oldest packets.   *)
Flushed(waiting) ==
  IF Len(waiting) < KeepAtMost THEN <<>> ELSE FirstOf(waiting, FlushWhenFull)

(* windowsLagProcess, then everything listed is sent: a packet that is not *)
(* delayed before those now released.                                      *)
Process(t) ==
  /\ pc[t] = "process"
  /\ \E taken \in {Taken} : \E waiting \in {Waiting(buffer \o taken)} :
       /\ SendAll(Among(list, ToSet(list) \ ToSet(taken))
                    \o Among(buffer \o taken, ToSet(buffer \o taken) \ ToSet(waiting))
                    \o Flushed(waiting))
       /\ Buffered(Among(waiting, ToSet(waiting) \ ToSet(Flushed(waiting))))
       /\ everHeld' = everHeld \cup ToSet(taken)
  /\ list' = <<>>
  /\ Release(t)
  /\ UNCHANGED <<running, stopLooping, handle, lag, lastEnabled, driver, reading, arrived>>

-----------------------------------------------------------------------------
Owner == SpawnReader \/ SpawnClock \/ Abort \/ Shutdown \/ Join \/ Drain \/ Stopped

Reader == ReaderGate \/ ReaderReceives \/ ReaderEnds \/ ReaderLocks
            \/ Consume("reader") \/ Process("reader")

Clock == ClockGate \/ ClockLocks \/ Consume("clock") \/ Process("clock")

Next ==
  \/ Owner \/ Reader \/ Clock \/ Tick \/ stop
  \/ StartFails \/ ReaderFails \/ ClockFails
  \/ \E s \in Settings : applyLag(s) \/ start(s)
  \/ \E outbound \in BOOLEAN : Arrive(outbound)

Spec == Init /\ [][Next]_vars

(* Threads are scheduled and time passes; nothing has to fail.             *)
FairSpec ==
  Spec /\ WF_vars(Owner) /\ WF_vars(Reader) /\ WF_vars(Clock) /\ WF_vars(Tick)

-----------------------------------------------------------------------------
Numbers == 1 .. Len(arrived)

Gone == ToSet(sent) \cup lost

(* As long as nothing fails no packet is dropped, and when capture has     *)
(* stopped every packet it took has been sent on: whichever switch was     *)
(* thrown just before, and whatever the reader had in hand.  No packet is  *)
(* sent twice, and none that was dropped is sent.                          *)
NothingIsLost ==
  /\ lost # {} => faulty
  /\ ~running /\ pc["owner"] = "idle" => Numbers \subseteq Gone
  /\ IsInjective(sent) /\ ToSet(sent) \cap lost = {}

(* A packet that was held leaves behind all earlier ones of its direction. *)
(* (One that was never held may overtake: process sends it first.)         *)
HeldLeaveInOrder ==
  \A i \in Numbers, j \in Numbers \cap everHeld :
    (i < j /\ arrived[i] = arrived[j] /\ j \in Gone) =>
      /\ i \in Gone
      /\ \A a, b \in DOMAIN sent : sent[a] = i /\ sent[b] = j => a < b

(* The assertions of packet.c:14, divert.c:343 and lag_engine.c:30.        *)
AssertionsHold ==
  /\ pc["owner"] = "opened" => list = <<>>
  /\ pc["reader"] = "lock" /\ MutexFree => list = <<>>
  /\ \A t \in Threads : pc[t] = "consume" /\ lag.enabled /\ ~lastEnabled => buffer = <<>>

(* start and stop return, whether or not the receiver could be woken.      *)
CallsReturn == pc["owner"] # "idle" ~> pc["owner"] = "idle"
=============================================================================
