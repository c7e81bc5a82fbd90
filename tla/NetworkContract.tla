--------------------------- MODULE NetworkContract ---------------------------
(***************************************************************************)
(* What core/network.h asks of every capture backend, seen by the one      *)
(* owner that calls it.                                                    *)
(*                                                                         *)
(* A call is issued, takes effect at some moment, and returns.  Capture    *)
(* may end by itself at any time, between two calls or inside one.         *)
(* engaged says that the backend holds the system's packet queue: as long  *)
(* as it does, traffic may be waiting on it.                               *)
(***************************************************************************)
EXTENDS Network

CONSTANTS
  Targets,    (* the traffic selections callers pass                      *)
  Settings    (* the Lag settings callers pass, invalid ones among them   *)

VARIABLES
  capture,   (* what is captured, and under which settings                *)
  engaged,   (* the backend holds queued traffic or may come to hold it   *)
  call,      (* the call in progress                                      *)
  result     (* whether the last call succeeded, once it has finished     *)

vars == <<capture, engaged, call, result>>

Stopped == [on |-> FALSE]
Capturing(t, l) == [on |-> TRUE, target |-> t, lag |-> l]
Captures == {Stopped} \cup {Capturing(t, l) : t \in Targets, l \in Settings}

NoCall == [op |-> "none"]
StartCall(t, l) == [op |-> "start", target |-> t, lag |-> l]
ApplyCall(l) == [op |-> "apply", lag |-> l]
StopCall == [op |-> "stop"]
Calls ==
  {StartCall(t, l) : t \in Targets, l \in Settings}
    \cup {ApplyCall(l) : l \in Settings} \cup {StopCall}

-----------------------------------------------------------------------------
Init ==
  /\ capture = Stopped
  /\ engaged = FALSE
  /\ call = NoCall
  /\ result = TRUE

Issue(c) ==
  /\ call = NoCall
  /\ call' = c
  /\ result' = TRUE
  /\ UNCHANGED <<capture, engaged>>

(* Start takes hold of the queue, then begins to capture.                  *)
Engage ==
  /\ call.op = "start"
  /\ ~engaged
  /\ engaged' = TRUE
  /\ UNCHANGED <<capture, call, result>>

Begin ==
  /\ call.op = "start"
  /\ engaged
  /\ ~capture.on
  /\ lagSettingsValidate(call.lag)
  /\ capture' = Capturing(call.target, call.lag)
  /\ UNCHANGED <<engaged, call, result>>

(* Capture ends: a stop takes effect, or the worker gives up.              *)
End ==
  /\ capture.on
  /\ capture' = Stopped
  /\ UNCHANGED <<engaged, call, result>>

Disengage ==
  /\ engaged
  /\ ~capture.on
  /\ engaged' = FALSE
  /\ UNCHANGED <<capture, call, result>>

Finish(ok) ==
  /\ call' = NoCall
  /\ result' = ok

(* A start that succeeds leaves capture running, the one begun by this     *)
(* call or the one that was running before; a start that fails has         *)
(* cleaned up behind it.                                                   *)
ReturnStart(ok) ==
  /\ call.op = "start"
  /\ IF ok THEN capture.on ELSE ~capture.on /\ ~engaged
  /\ Finish(ok)
  /\ UNCHANGED <<capture, engaged>>

(* An apply that fails leaves the previous settings in force.              *)
ReturnApply(ok) ==
  /\ call.op = "apply"
  /\ IF ok
     THEN /\ capture.on
          /\ lagSettingsValidate(call.lag)
          /\ capture' = Capturing(capture.target, call.lag)
     ELSE UNCHANGED capture
  /\ Finish(ok)
  /\ UNCHANGED engaged

(* When stop returns, nothing is captured and nothing is held any more.    *)
ReturnStop ==
  /\ call.op = "stop"
  /\ ~capture.on
  /\ ~engaged
  /\ Finish(TRUE)
  /\ UNCHANGED <<capture, engaged>>

Backend ==
  \/ Engage
  \/ Begin
  \/ End
  \/ Disengage
  \/ \E ok \in BOOLEAN : ReturnStart(ok) \/ ReturnApply(ok)
  \/ ReturnStop

Next == Backend \/ \E c \in Calls : Issue(c)

Spec == Init /\ [][Next]_vars
=============================================================================
