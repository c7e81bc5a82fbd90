------------------------------ MODULE QtBackend ------------------------------
(* The interface's network backend on Linux (platform/linux/qt_backend.cpp):
   requests written as lines to a privileged helper process, each answered by
   one line, neither of them numbered. The helper (platform/linux/qt_helper.c)
   serves one command at a time on a native backend of its own, which may stop
   capturing whenever it likes. The interface waits for an answer in a nested
   event loop, with a timeout; user input stays queued meanwhile, and a timer
   that calls the backend nonetheless is refused. A refused stop clears the flag
   all the same, until the request that was pending ends. *)
EXTENDS Naturals, Sequences
CONSTANTS
    Lags,  \* the settings a caller may ask for
    NoLag  \* no capture
ASSUME NoLagIsNoSetting == NoLag \notin Lags

VARIABLES
    pc,            \* the interface: idle, waiting for an answer, in disconnectHelper, or gone
    request,       \* the request it waits for
    running_,      \* what it believes of the capture
    process,       \* QProcess::state(): what it has noticed of the helper
    channel,       \* its write end of the helper's input
    stdin, stdout, \* lines written and not yet read
    helper,        \* authorization prompt, idle, answering a command, cleaning up, gone
    result,        \* of the command being answered: done without an error text of its own
    capture,       \* the settings the native backend captures with, or NoLag
    failure,       \* a failure of the native backend: none, due to be recorded, recorded
    acknowledged   \* history: the settings of the last start or apply reported successful
gui == <<pc, request, running_, process, channel, acknowledged>>
native == <<capture, failure>>
vars == <<gui, stdin, stdout, helper, result, native>>

Request == [command: {"start", "apply"}, lag: Lags] \cup [command: {"stop", "status"}, lag: {NoLag}]
Reply == [ok: BOOLEAN, running: BOOLEAN]

(* At most one line is on its way in either direction: a request that is not
   answered in time closes the channel. *)
TypeOK ==
    /\ pc \in {"idle", "waiting", "disconnecting", "gone"}
    /\ request \in Request
    /\ running_ \in BOOLEAN
    /\ process \in {"NotRunning", "Running"}
    /\ channel \in {"open", "closed"}
    /\ stdin \in Seq(Request) /\ stdout \in Seq(Reply)
    /\ Len(stdin) + Len(stdout) + (IF helper = "answering" THEN 1 ELSE 0) <= 1
    /\ helper \in {"prompt", "idle", "answering", "closing", "gone"}
    /\ result \in BOOLEAN
    /\ capture \in Lags \cup {NoLag}
    /\ failure \in {"none", "due", "recorded"}
    /\ acknowledged \in Lags \cup {NoLag}

status == [command |-> "status", lag |-> NoLag]
Capturing == capture # NoLag

Init ==
    /\ pc = "idle" /\ request = status /\ running_ = FALSE
    /\ process = "NotRunning" /\ channel = "closed"
    /\ stdin = <<>> /\ stdout = <<>>
    /\ helper = "gone" /\ result = FALSE
    /\ capture = NoLag /\ failure = "none"
    /\ acknowledged = NoLag
------------------------------------------------------------------------------
(* The end of a request, with the flag the answer or disconnectHelper left. Only
   stop overrides that flag, whatever became of its request. *)
Return(ok, flag) ==
    /\ pc' = "idle"
    /\ running_' = (flag /\ request.command # "stop")
    /\ acknowledged' = IF ok /\ request.command \in {"start", "apply"} THEN request.lag ELSE acknowledged
    /\ UNCHANGED request

(* No helper: launch one and write the request for when it is authorized. *)
Launch(r) ==
    /\ process = "NotRunning"
    /\ process' = "Running" /\ channel' = "open" /\ helper' = "prompt"
    /\ stdin' = <<r>> /\ stdout' = <<>>
    /\ UNCHANGED <<result, native>>

(* The helper is missing or does not start. *)
LaunchFails ==
    /\ process = "NotRunning"
    /\ UNCHANGED vars

(* A request to a helper that was given up is written nowhere. *)
Write(r) ==
    /\ process = "Running"
    /\ stdin' = IF channel = "open" THEN Append(stdin, r) ELSE stdin
    /\ UNCHANGED <<process, channel, stdout, helper, result, native>>

Send(r) ==
    /\ pc = "idle"
    /\ \/ LaunchFails
       \/ (Launch(r) \/ Write(r)) /\ pc' = "waiting" /\ request' = r /\ UNCHANGED <<running_, acknowledged>>

(* What the controller calls: start only when it believes capture stopped. *)
start == ~running_ /\ \E lag \in Lags: Send([command |-> "start", lag |-> lag])
apply == running_ /\ \E lag \in Lags: Send([command |-> "apply", lag |-> lag])
stop ==
    \/ process = "Running" /\ Send([command |-> "stop", lag |-> NoLag])
    \/ /\ process = "NotRunning" /\ pc = "idle"
       /\ running_' = FALSE
       /\ UNCHANGED <<pc, request, process, channel, acknowledged, stdin, stdout, helper, result, native>>
    \/ /\ pc = "waiting"
       /\ running_' = FALSE
       /\ UNCHANGED <<pc, request, process, channel, acknowledged, stdin, stdout, helper, result, native>>

(* Variant: polls only what it believes stopped. *)
PollStopped == process = "Running" /\ ~running_ /\ Send(status)

(* Every half second, unless a request is pending. *)
Poll == process = "Running" /\ Send(status)
------------------------------------------------------------------------------
(* The first complete line is taken for the answer. *)
Answered ==
    /\ pc = "waiting" /\ stdout # <<>>
    /\ Return(Head(stdout).ok, Head(stdout).running)
    /\ stdout' = Tail(stdout)
    /\ UNCHANGED <<process, channel, stdin, helper, result, native>>

(* Variant: reports the timeout and leaves the channel open. *)
TimedOutOpen ==
    /\ pc = "waiting"
    /\ Return(FALSE, running_)
    /\ UNCHANGED <<process, channel, stdin, stdout, helper, result, native>>

(* disconnectHelper closes the channel and waits for the helper to end. *)
TimedOut ==
    /\ pc = "waiting"
    /\ pc' = "disconnecting" /\ channel' = "closed"
    /\ UNCHANGED <<request, running_, process, acknowledged, stdin, stdout, helper, result, native>>

(* It waits for fifteen seconds; what the helper writes meanwhile is read by nobody. *)
Disconnected ==
    /\ pc = "disconnecting"
    /\ Return(FALSE, FALSE)
    /\ UNCHANGED <<process, channel, stdin, stdout, helper, result, native>>

(* A line that arrives while no request is pending: no later request will be
   told of it. *)
Unheard ==
    /\ pc \in {"idle", "disconnecting"} /\ stdout # <<>>
    /\ stdout' = Tail(stdout)
    /\ UNCHANGED <<gui, stdin, helper, result, native>>

(* The end of the helper is noticed: the handler of `finished` clears the flag
   first, and a pending request ends next, with the line it finds, if any. *)
Finished ==
    /\ helper = "gone" /\ process = "Running" /\ pc # "gone"
    /\ process' = "NotRunning" /\ channel' = "closed" /\ stdout' = <<>>
    /\ IF pc = "idle"
       THEN running_' = FALSE /\ UNCHANGED <<pc, request, acknowledged>>
       ELSE IF pc = "waiting" /\ stdout # <<>>
       THEN Return(Head(stdout).ok, Head(stdout).running)
       ELSE Return(FALSE, FALSE)
    /\ UNCHANGED <<stdin, helper, result, native>>

(* The interface quits or crashes. *)
Gone ==
    /\ pc # "gone"
    /\ pc' = "gone" /\ channel' = "closed" /\ running_' = FALSE
    /\ UNCHANGED <<request, process, acknowledged, stdin, stdout, helper, result, native>>
------------------------------------------------------------------------------
(* The user answers the prompt, however late; pkexec hands the pipes on. The
   native backend may fail to be created. *)
Authorized ==
    /\ helper = "prompt"
    /\ \/ helper' = "idle" /\ UNCHANGED <<stdin, stdout>>
       \/ /\ helper' = "gone" /\ stdin' = <<>>
          /\ stdout' = <<[ok |-> FALSE, running |-> FALSE]>>
    /\ UNCHANGED <<gui, result, native>>

Denied ==
    /\ helper = "prompt"
    /\ helper' = "gone" /\ stdin' = <<>>
    /\ UNCHANGED <<gui, stdout, result, native>>

(* What the native backend does of a command; start forgets earlier failures,
   and both start and stop wait for its worker, which records them. *)
Started(lag) ==
    \/ Capturing /\ result' = TRUE /\ UNCHANGED native
    \/ ~Capturing /\ result' = TRUE /\ capture' = lag /\ failure' = "none"
    \/ ~Capturing /\ result' = FALSE /\ capture' = NoLag /\ failure' \in {"none", "recorded"}
Applied(lag) ==
    \/ Capturing /\ result' = TRUE /\ capture' = lag /\ UNCHANGED failure
    \/ result' = FALSE /\ UNCHANGED native
Stopped ==
    /\ result' = TRUE /\ capture' = NoLag
    /\ failure' \in {"recorded"} \cup (IF failure = "due" THEN {} ELSE {failure})

Execute ==
    /\ helper = "idle" /\ stdin # <<>>
    /\ LET r == Head(stdin) IN
       \/ r.command = "start" /\ Started(r.lag)
       \/ r.command = "apply" /\ Applied(r.lag)
       \/ r.command = "stop" /\ Stopped
       \/ r.command = "status" /\ result' = TRUE /\ UNCHANGED native
    /\ stdin' = Tail(stdin) /\ helper' = "answering"
    /\ UNCHANGED <<gui, stdout>>

(* Success is what was done with no failure on record, not even an old one. An
   answer nobody can receive ends the helper. *)
Answer ==
    /\ helper = "answering"
    /\ \/ /\ pc # "gone" /\ helper' = "idle"
          /\ stdout' = Append(stdout, [ok |-> result /\ failure # "recorded", running |-> Capturing])
       \/ pc = "gone" /\ helper' = "closing" /\ UNCHANGED stdout
    /\ UNCHANGED <<gui, stdin, result, native>>

(* Variant: takes the end of input for no input. *)
EndOfInputUnseen == FALSE /\ UNCHANGED vars

(* The end of its input ends the helper. *)
EndOfInput ==
    /\ helper = "idle" /\ stdin = <<>> /\ channel = "closed"
    /\ helper' = "closing"
    /\ UNCHANGED <<gui, stdin, stdout, result, native>>

(* linuxBackendDestroy stops the capture. *)
Destroy ==
    /\ helper = "closing"
    /\ helper' = "gone" /\ capture' = NoLag /\ failure' = "none" /\ stdin' = <<>>
    /\ UNCHANGED <<gui, stdout, result>>

(* A signal: an orderly end at the next look, or an immediate one. *)
Interrupted ==
    /\ helper = "idle"
    /\ helper' = "closing"
    /\ UNCHANGED <<gui, stdin, stdout, result, native>>
Killed ==
    /\ helper \in {"idle", "answering", "closing"}
    /\ helper' = "gone" /\ capture' = NoLag /\ failure' = "none" /\ stdin' = <<>>
    /\ UNCHANGED <<gui, stdout, result>>

(* The native backend's worker fails; it clears its flag first and records the
   reason later. *)
CaptureEnds ==
    /\ Capturing
    /\ capture' = NoLag /\ failure' = "due"
    /\ UNCHANGED <<gui, stdin, stdout, helper, result>>
Recorded ==
    /\ failure = "due"
    /\ failure' = "recorded"
    /\ UNCHANGED <<gui, stdin, stdout, helper, result, capture>>
------------------------------------------------------------------------------
Caller == start \/ apply \/ stop
Helper == Execute \/ Answer \/ EndOfInput \/ Destroy
Next ==
    \/ Caller \/ Poll \/ Answered \/ TimedOut \/ Disconnected \/ Unheard \/ Finished \/ Gone
    \/ Authorized \/ Denied \/ Helper \/ Interrupted \/ Killed \/ CaptureEnds \/ Recorded

Spec == Init /\ [][Next]_vars

(* Timers fire, processes get on and exits are noticed; nobody need answer the
   prompt, and a caller need not call. *)
FairSpec ==
    /\ Spec
    /\ WF_vars(Poll) /\ WF_vars(Answered) /\ WF_vars(TimedOut) /\ WF_vars(Disconnected) /\ WF_vars(Finished)
    /\ WF_vars(Helper) /\ WF_vars(Recorded)
------------------------------------------------------------------------------
(* While no request is pending on an open channel, the helper captures with
   nothing but the settings last acknowledged, and only if the interface says
   so: answers are never taken for those of other requests. (It may have
   stopped capturing of itself; see below.) *)
CaptureIsAcknowledged ==
    pc = "idle" /\ channel = "open" /\ Capturing => running_ /\ capture = acknowledged

(* A helper whose channel was closed, by a timeout, by a quit or by a crash of
   the interface, stops capturing. *)
GivenUpHelperEnds == channel = "closed" ~> ~Capturing

(* A capture that ended is noticed, as long as there is a helper to ask. *)
EndIsNoticed == running_ /\ process = "Running" /\ ~Capturing ~> ~running_ \/ process = "NotRunning" \/ Capturing
==============================================================================
