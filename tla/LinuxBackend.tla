---------------------------- MODULE LinuxBackend ----------------------------
(***************************************************************************)
(* The Linux capture backend: backends/linux/backend.c on top of           *)
(* session.c, nft.c and the queue of lag_queue.c.                          *)
(*                                                                         *)
(* Two threads: the owner, which calls create, start, apply_lag, stop and  *)
(* destroy, and the worker that start creates.  Each action is one stretch *)
(* of a thread between two points where the other thread, the kernel or a  *)
(* helper process can be seen to act: a locked region, a system call, an   *)
(* nft transaction.  The kernel (NFQUEUE, nftables, eventfd) is external   *)
(* and modelled by what backend.c relies on.                               *)
(*                                                                         *)
(* Time is left to LagQueue: here a held packet whose delay is in force    *)
(* may or may not have become eligible.                                    *)
(***************************************************************************)
EXTENDS Network, FiniteSets

CONSTANTS
  Packets,           (* slots for packets in flight; a slot is used again *)
  Targets,           (* the traffic selections passed to start            *)
  SupportedTargets,  (* those linuxBuildRules can express                 *)
  Settings,          (* the Lag settings callers pass                     *)
  KernelMax,         (* the queue length set with nfq_set_queue_maxlen    *)
  DrainPasses        (* 8192: passes of drainQueue before it gives up     *)

ASSUME LinuxAssumption ==
  /\ SupportedTargets \subseteq Targets
  /\ Settings \subseteq LagSettings
  /\ KernelMax \in Nat
  /\ DrainPasses \in Nat /\ DrainPasses > KernelMax

Threads == {"owner", "worker"}

VARIABLES
  pc,          (* where each thread is                                    *)
  after,       (* where a thread goes when linuxSessionStop returns       *)
  okay,        (* each thread's `okay' inside linuxSessionStop            *)
  (* shared, under backend->lock *)
  running, started, stopping, requested,
  failure,     (* backend->failure holds a text                           *)
  wake,        (* the eventfd counter is not zero                         *)
  (* the owner's *)
  joinable, target,
  call, result,
  told,        (* start's error text is set                               *)
  (* the session's: the worker's while it exists, else the owner's *)
  open, owned,
  held,        (* ids in the lag queue                                    *)
  heldLag,     (* held.lag: the settings the queue is processed with      *)
  pass,        (* passes made by the drain in progress                    *)
  trouble,     (* the worker's error[0] != 0                              *)
  (* the kernel's *)
  unread,      (* queued packets whose notification was not yet read      *)
  orphans,     (* queued packets whose notification was lost              *)
  table,       (* the table this session's token names                    *)
  leaked,      (* a table of an earlier session was left behind           *)
  (* history *)
  faulty,      (* an operation failed since the worker was prepared       *)
  unsure,      (* an ownership check after a failed install failed        *)
  lost         (* the kernel dropped a queued packet in this session      *)

threadVars == <<pc, after, okay>>
sharedVars == <<running, started, stopping, requested, failure, wake>>
ownerVars == <<joinable, target, call, result, told>>
sessionVars == <<open, owned, held, heldLag, pass, trouble>>
kernelVars == <<unread, orphans, table, leaked>>
historyVars == <<faulty, unsure, lost>>
vars == <<threadVars, sharedVars, ownerVars, sessionVars, kernelVars, historyVars>>

-----------------------------------------------------------------------------
(* What core/network.h lets a caller see of this backend.                  *)
captureBar ==
  IF running THEN [on |-> TRUE, target |-> target, lag |-> requested]
  ELSE [on |-> FALSE]

callBar == IF call.op = "destroy" THEN [op |-> "stop"] ELSE call

Contract ==
  INSTANCE NetworkContract
    WITH capture <- captureBar, engaged <- open, call <- callBar, result <- result.ok

NoCall == Contract!NoCall
NoResult == [op |-> "none", ok |-> TRUE, explained |-> FALSE]
Calls == Contract!Calls \cup {[op |-> "destroy"]}

(* The packets the kernel keeps waiting for a verdict.                     *)
Queued == held \cup unread \cup orphans

(* Under these settings some packet may be held back.                      *)
Delaying(s) == Delay(s, TRUE) > 0 \/ Delay(s, FALSE) > 0

(* Settings in memory calloc returned.                                     *)
Zero == [enabled |-> FALSE, inbound |-> FALSE, outbound |-> FALSE,
         inbound_ms |-> 0, outbound_ms |-> 0]

Goto(t, label) == pc' = [pc EXCEPT ![t] = label]

(* What a failed step leaves in the history.                               *)
Fault == faulty' = TRUE /\ UNCHANGED <<unsure, lost>>

NoFault == UNCHANGED historyVars

-----------------------------------------------------------------------------
(* The kernel.  A packet the rules match waits in the queue while the      *)
(* session's queue exists and has room.  Without a queue the rules' bypass *)
(* lets it through, and a full queue fails open: neither leaves a trace.   *)
KernelQueues(p) ==
  /\ table = "rules"
  /\ open
  /\ p \notin Queued
  /\ Cardinality(Queued) < KernelMax
  /\ unread' = unread \cup {p}
  /\ UNCHANGED <<threadVars, sharedVars, ownerVars, sessionVars,
                 orphans, table, leaked, historyVars>>

-----------------------------------------------------------------------------
(* One nft query (linuxNftOwned): what it may answer about our table.      *)
Ownership == (IF table = "absent" THEN {"absent"} ELSE {"ours"}) \cup {"unknown"}

(* One nft transaction (linuxNftRun).  It is given five seconds; one that  *)
(* failed or was killed may have committed nevertheless.                   *)
NftRun(effect) ==
  { [ok |-> TRUE, table |-> effect],
    [ok |-> FALSE, table |-> effect], [ok |-> FALSE, table |-> table] }

(* Variant: the rules stay while the queue is drained.                     *)
StopWithoutQuiesce(t) ==
  /\ pc[t] = "cleanup"
  /\ okay' = [okay EXCEPT ![t] = TRUE]
  /\ Goto(t, IF open THEN "drain" ELSE IF owned THEN "remove" ELSE "stopped")
  /\ UNCHANGED <<after, sharedVars, ownerVars, sessionVars, kernelVars, historyVars>>

(* linuxSessionStop, run by thread t.                                      *)
SessionStop(t) ==
  /\ pc[t] = "cleanup"
  /\ okay' = [okay EXCEPT ![t] = TRUE]
  /\ Goto(t, IF open THEN IF owned THEN "quiesce" ELSE "drain"
             ELSE IF owned THEN "remove" ELSE "stopped")
  /\ UNCHANGED <<after, sharedVars, ownerVars, sessionVars, kernelVars, historyVars>>

(* quiesceRules: flush the rules but keep the table, whose removal would   *)
(* drop what is queued.                                                    *)
QuiesceRules(t) ==
  /\ pc[t] = "quiesce"
  /\ \E answer \in Ownership :
       \/ /\ answer = "absent"
          /\ UNCHANGED <<table, okay>> /\ NoFault
       \/ /\ answer = "unknown"
          /\ okay' = [okay EXCEPT ![t] = FALSE]
          /\ UNCHANGED table /\ Fault
       \/ /\ answer = "ours"
          /\ \E run \in NftRun("flushed") :
               /\ table' = run.table
               /\ IF run.ok THEN UNCHANGED okay /\ NoFault
                  ELSE okay' = [okay EXCEPT ![t] = FALSE] /\ Fault
  /\ Goto(t, "drain")
  /\ UNCHANGED <<after, sharedVars, ownerVars, sessionVars, unread, orphans, leaked>>

(* drainQueue.  First it switches Lag off, so nothing is held back.        *)
DrainQueue(t) ==
  /\ pc[t] = "drain"
  /\ heldLag' = [heldLag EXCEPT !.enabled = FALSE]
  /\ pass' = 0
  /\ Goto(t, "release")
  /\ UNCHANGED <<after, okay, sharedVars, ownerVars, open, owned, held, trouble,
                 kernelVars, historyVars>>

(* A pass of the drain: release everything, then read one notification.    *)
DrainRelease(t) ==
  /\ pc[t] = "release"
  /\ \/ held' = {} /\ Goto(t, "reap") /\ UNCHANGED okay /\ NoFault
     \/ /\ held' \in SUBSET held \ {{}}
        /\ okay' = [okay EXCEPT ![t] = FALSE]
        /\ Goto(t, "finish") /\ Fault
  /\ UNCHANGED <<after, sharedVars, ownerVars, open, owned, heldLag, pass, trouble,
                 kernelVars>>

(* readPackets that takes one notification: receivePacket pushes its id.   *)
(* The kernel's limit keeps the array from overflowing.                    *)
ReadPacket ==
  \E p \in unread :
    /\ held' = held \cup {p}
    /\ unread' = unread \ {p}
    /\ UNCHANGED orphans

(* readPackets that fails: nothing was received, or a notification was     *)
(* lost or could not be used, with or without a verdict for its packet.    *)
ReadFails ==
  /\ UNCHANGED held
  /\ \/ UNCHANGED <<unread, orphans>>
     \/ \E p \in unread : /\ unread' = unread \ {p}
                          /\ orphans' \in {orphans, orphans \cup {p}}

DrainRead(t) ==
  /\ pc[t] = "reap"
  /\ \/ /\ unread = {}
        /\ Goto(t, "finish")
        /\ UNCHANGED <<held, unread, orphans, pass, okay>> /\ NoFault
     \/ /\ ReadPacket
        /\ pass' = pass + 1
        /\ IF pass + 1 < DrainPasses
           THEN Goto(t, "release") /\ UNCHANGED okay /\ NoFault
           ELSE Goto(t, "finish") /\ okay' = [okay EXCEPT ![t] = FALSE] /\ Fault
     \/ /\ ReadFails
        /\ okay' = [okay EXCEPT ![t] = FALSE]
        /\ Goto(t, "finish")
        /\ UNCHANGED pass /\ Fault
  /\ UNCHANGED <<after, sharedVars, ownerVars, open, owned, heldLag, trouble,
                 table, leaked>>

(* The last release of the drain, tried whatever happened before.          *)
DrainFinish(t) ==
  /\ pc[t] = "finish"
  /\ \/ held' = {} /\ UNCHANGED okay /\ NoFault
     \/ /\ held' \in SUBSET held \ {{}}
        /\ okay' = [okay EXCEPT ![t] = FALSE]
        /\ Fault
  /\ Goto(t, "close")
  /\ UNCHANGED <<after, sharedVars, ownerVars, open, owned, heldLag, pass, trouble,
                 kernelVars>>

(* closeQueue: the kernel drops whatever still waits in a closed queue.    *)
(* Reported close errors only leave a text behind.                         *)
CloseQueue(t) ==
  /\ pc[t] = "close"
  /\ lost' = (lost \/ Queued # {})
  /\ held' = {} /\ unread' = {} /\ orphans' = {}
  /\ heldLag' = lagSettingsDefault
  /\ open' = FALSE
  /\ pass' = 0
  /\ \E reported \in BOOLEAN : /\ failure' = (failure \/ reported)
                               /\ faulty' = (faulty \/ reported)
  /\ Goto(t, IF owned THEN "remove" ELSE "stopped")
  /\ UNCHANGED <<after, okay, running, started, stopping, requested, wake, ownerVars,
                 owned, trouble, table, leaked, unsure>>

(* removeRules.  Deleting the table unregisters its hooks, which drops     *)
(* what is queued.  Ownership is only given up once the table is known to  *)
(* be gone.                                                                *)
Unhook(left) == lost' = (lost \/ (table # "absent" /\ left = "absent" /\ Queued # {}))

RemoveRules(t) ==
  /\ pc[t] = "remove"
  /\ \E answer \in Ownership :
       \/ /\ answer = "absent"
          /\ owned' = FALSE
          /\ UNCHANGED <<table, okay>> /\ NoFault
       \/ /\ answer = "unknown"
          /\ okay' = [okay EXCEPT ![t] = FALSE]
          /\ UNCHANGED <<table, owned>> /\ Fault
       \/ /\ answer = "ours"
          /\ \E run \in NftRun("absent") :
               /\ table' = run.table
               /\ Unhook(run.table)
               /\ IF run.ok THEN owned' = FALSE /\ UNCHANGED <<okay, faulty>>
                  ELSE /\ okay' = [okay EXCEPT ![t] = FALSE]
                       /\ faulty' = TRUE /\ UNCHANGED owned
          /\ UNCHANGED unsure
  /\ Goto(t, "stopped")
  /\ UNCHANGED <<after, sharedVars, ownerVars, open, held, heldLag, pass, trouble,
                 unread, orphans, leaked>>

SessionStep(t) ==
  \/ SessionStop(t) \/ QuiesceRules(t) \/ DrainQueue(t) \/ DrainRelease(t)
  \/ DrainRead(t) \/ DrainFinish(t) \/ CloseQueue(t) \/ RemoveRules(t)

(* Variant: a session that did not stop cleanly is not reported.           *)
StoppedUnreported(t) ==
  /\ pc[t] = "stopped"
  /\ Goto(t, after[t])
  /\ after' = [after EXCEPT ![t] = "none"]
  /\ okay' = [okay EXCEPT ![t] = TRUE]
  /\ UNCHANGED <<sharedVars, ownerVars, sessionVars, kernelVars, historyVars>>

(* recordFailure after a session that did not stop cleanly.                *)
SessionStopped(t) ==
  /\ pc[t] = "stopped"
  /\ failure' = (failure \/ ~okay[t])
  /\ Goto(t, after[t])
  /\ after' = [after EXCEPT ![t] = "none"]
  /\ okay' = [okay EXCEPT ![t] = TRUE]
  /\ UNCHANGED <<running, started, stopping, requested, wake, ownerVars,
                 sessionVars, kernelVars, historyVars>>

CleanUp(t, next) ==
  /\ Goto(t, "cleanup")
  /\ after' = [after EXCEPT ![t] = next]

-----------------------------------------------------------------------------
(* The worker, workerMain.  linuxSessionStart: open the queue ...          *)
OpenQueue ==
  /\ pc["worker"] = "open"
  /\ \/ open' = TRUE /\ Goto("worker", "check") /\ UNCHANGED failure /\ NoFault
     \/ /\ UNCHANGED open /\ Goto("worker", "publish_failed")
        /\ failure' \in {failure, TRUE} /\ Fault
  /\ heldLag' = lagSettingsDefault
  /\ UNCHANGED <<after, okay, running, started, stopping, requested, wake, ownerVars,
                 owned, held, pass, trouble, kernelVars>>

(* ... make sure the name is free (a random name is never taken) ...       *)
CheckTable ==
  /\ pc["worker"] = "check"
  /\ \/ "absent" \in Ownership /\ Goto("worker", "install") /\ UNCHANGED after /\ NoFault
     \/ CleanUp("worker", "publish_failed") /\ Fault
  /\ UNCHANGED <<okay, sharedVars, ownerVars, sessionVars, kernelVars>>

(* ... and install the rules in one transaction.                           *)
InstallRules ==
  /\ pc["worker"] = "install"
  /\ \E run \in NftRun("rules") :
       /\ table' = run.table
       /\ IF run.ok THEN owned' = TRUE /\ Goto("worker", "publish") /\ NoFault
          ELSE UNCHANGED owned /\ Goto("worker", "recheck") /\ Fault
  /\ UNCHANGED <<after, okay, sharedVars, ownerVars, open, held, heldLag, pass, trouble,
                 unread, orphans, leaked>>

(* Variant: after a failed install there is nothing to remove.             *)
RecheckNothing ==
  /\ pc["worker"] = "recheck"
  /\ CleanUp("worker", "publish_failed")
  /\ UNCHANGED <<okay, sharedVars, ownerVars, sessionVars, kernelVars, historyVars>>

(* After a failed install only a proven table is ours.                     *)
RecheckTable ==
  /\ pc["worker"] = "recheck"
  /\ \E answer \in Ownership :
       /\ owned' = (answer = "ours")
       /\ unsure' = (unsure \/ answer = "unknown")
  /\ CleanUp("worker", "publish_failed")
  /\ UNCHANGED <<okay, sharedVars, ownerVars, open, held, heldLag, pass, trouble,
                 kernelVars, faulty, lost>>

Publish ==
  /\ pc["worker"] = "publish"
  /\ running' = TRUE /\ started' = TRUE
  /\ Goto("worker", "loop")
  /\ UNCHANGED <<after, okay, stopping, requested, failure, wake, ownerVars,
                 sessionVars, kernelVars, historyVars>>

PublishFailed ==
  /\ pc["worker"] = "publish_failed"
  /\ running' = FALSE /\ started' = TRUE /\ failure' = TRUE
  /\ Goto("worker", "done")
  /\ UNCHANGED <<after, okay, stopping, requested, wake, ownerVars,
                 sessionVars, kernelVars, historyVars>>

(* Variant: new settings wait until the queue is empty.                    *)
LoopWhenEmpty ==
  /\ pc["worker"] = "loop"
  /\ IF stopping
     THEN Goto("worker", "ending") /\ UNCHANGED heldLag
     ELSE /\ Goto("worker", "process")
          /\ heldLag' = IF held = {} THEN requested ELSE heldLag
  /\ UNCHANGED <<after, okay, sharedVars, ownerVars, open, owned, held, pass, trouble,
                 kernelVars, historyVars>>

(* Under the lock: leave if asked to, else take the requested settings.    *)
(* They were validated when they were requested, so Configure takes them.  *)
WorkerLoop ==
  /\ pc["worker"] = "loop"
  /\ IF stopping
     THEN Goto("worker", "ending") /\ UNCHANGED heldLag
     ELSE Goto("worker", "process") /\ heldLag' = requested
  /\ UNCHANGED <<after, okay, sharedVars, ownerVars, open, owned, held, pass, trouble,
                 kernelVars, historyVars>>

(* linuxLagQueueProcess with the current settings: everything goes that is *)
(* not delayed, and any of the rest may have become eligible.              *)
WorkerProcess ==
  /\ pc["worker"] = "process"
  /\ \/ /\ held' \in IF Delaying(heldLag) THEN SUBSET held ELSE {{}}
        /\ Goto("worker", "poll") /\ UNCHANGED trouble /\ NoFault
     \/ /\ held' \in SUBSET held
        /\ trouble' = TRUE /\ Goto("worker", "ending") /\ Fault
  /\ UNCHANGED <<after, okay, sharedVars, ownerVars, open, owned, heldLag, pass,
                 kernelVars>>

(* poll with a timeout of at most 100 ms.  A wakeup is consumed before     *)
(* anything is read.                                                       *)
PollWake ==
  /\ pc["worker"] = "poll"
  /\ wake
  /\ wake' = FALSE
  /\ Goto("worker", "loop")
  /\ UNCHANGED <<after, okay, running, started, stopping, requested, failure, ownerVars,
                 sessionVars, kernelVars, historyVars>>

PollRead ==
  /\ pc["worker"] = "poll"
  /\ ~wake
  /\ unread # {}
  /\ \/ ReadPacket /\ Goto("worker", "loop") /\ UNCHANGED trouble /\ NoFault
     \/ ReadFails /\ Goto("worker", "ending") /\ trouble' = TRUE /\ Fault
  /\ UNCHANGED <<after, okay, sharedVars, ownerVars, open, owned, heldLag, pass,
                 table, leaked>>

(* Variant: poll without a timeout waits for ever.                         *)
PollForever == pc["worker"] = "poll" /\ UNCHANGED vars

PollTimeout ==
  /\ pc["worker"] = "poll"
  /\ ~wake
  /\ unread = {}
  /\ Goto("worker", "loop")
  /\ UNCHANGED <<after, okay, sharedVars, ownerVars, sessionVars, kernelVars, historyVars>>

(* poll fails, or reports an error on a descriptor: the socket reports an  *)
(* overrun of notifications this way or from recvmsg.                      *)
PollFails ==
  /\ pc["worker"] = "poll"
  /\ ReadFails
  /\ trouble' = TRUE
  /\ Goto("worker", "ending") /\ Fault
  /\ UNCHANGED <<after, okay, sharedVars, ownerVars, open, owned, heldLag, pass,
                 table, leaked>>

WorkerEnding ==
  /\ pc["worker"] = "ending"
  /\ running' = FALSE
  /\ Goto("worker", "record")
  /\ UNCHANGED <<after, okay, started, stopping, requested, failure, wake, ownerVars,
                 sessionVars, kernelVars, historyVars>>

(* Variant: a worker that fails leaves the cleanup to stop.                *)
RecordsOnly ==
  /\ pc["worker"] = "record"
  /\ failure' = (failure \/ trouble)
  /\ trouble' = FALSE
  /\ Goto("worker", "done")
  /\ UNCHANGED <<after, okay, running, started, stopping, requested, wake, ownerVars,
                 open, owned, held, heldLag, pass, kernelVars, historyVars>>

WorkerRecords ==
  /\ pc["worker"] = "record"
  /\ failure' = (failure \/ trouble)
  /\ trouble' = FALSE
  /\ CleanUp("worker", "done")
  /\ UNCHANGED <<okay, running, started, stopping, requested, wake, ownerVars,
                 open, owned, held, heldLag, pass, kernelVars, historyVars>>

(* What the worker does by itself; PollFails needs an error from outside.  *)
WorkerRuns ==
  \/ SessionStep("worker") \/ SessionStopped("worker")
  \/ OpenQueue \/ CheckTable \/ InstallRules \/ RecheckTable
  \/ Publish \/ PublishFailed
  \/ WorkerLoop \/ WorkerProcess
  \/ PollWake \/ PollRead \/ PollTimeout
  \/ WorkerEnding \/ WorkerRecords

Worker == WorkerRuns \/ PollFails

-----------------------------------------------------------------------------
(* The owner.  A call returns ok; explained says its error text is set.    *)
Return(ok, explained, label) ==
  /\ result' = [op |-> call.op, ok |-> ok, explained |-> explained]
  /\ call' = NoCall
  /\ Goto("owner", label)

(* linuxBackendCreate, when it succeeds: everything starts from zero, also *)
(* the history.  A table the destroyed backend still owned was reported by *)
(* linuxBackendDestroy and stays outside.                                  *)
Create ==
  /\ pc["owner"] = "none"
  /\ Goto("owner", "idle")
  /\ running' = FALSE /\ started' = FALSE /\ stopping' = FALSE
  /\ requested' = Zero
  /\ failure' = FALSE /\ wake' = FALSE
  /\ joinable' = FALSE
  /\ owned' = FALSE /\ heldLag' = Zero /\ trouble' = FALSE
  /\ table' = "absent" /\ leaked' = FALSE
  /\ faulty' = FALSE /\ unsure' = FALSE /\ lost' = FALSE
  /\ UNCHANGED <<after, okay, target, told, call, result, open, held, pass, unread, orphans>>

Issue(c) ==
  /\ pc["owner"] = "idle"
  /\ call' = c
  /\ Goto("owner", CASE c.op = "start" -> "start"
                     [] c.op = "apply" -> "apply"
                     [] OTHER -> "halt")
  /\ after' = [after EXCEPT !["owner"] = CASE c.op = "destroy" -> "destroyed"
                                         [] c.op = "stop" -> "return"
                                         [] OTHER -> "none"]
  /\ result' = NoResult
  /\ UNCHANGED <<okay, sharedVars, joinable, target, told, sessionVars, kernelVars,
                 historyVars>>

(* start: a running capture is left as it is, whatever was asked for.      *)
StartCheck ==
  /\ pc["owner"] = "start"
  /\ \/ running /\ Return(TRUE, FALSE, "idle") /\ UNCHANGED after
     \/ /\ ~running
        /\ Goto("owner", "halt")
        /\ after' = [after EXCEPT !["owner"] = "prepare"]
        /\ UNCHANGED <<call, result>>
  /\ UNCHANGED <<okay, sharedVars, joinable, target, told, sessionVars, kernelVars, historyVars>>

(* stop: tell the worker (the write may fail; poll times out anyway) ...   *)
StopSignal ==
  /\ pc["owner"] = "halt"
  /\ IF joinable
     THEN stopping' = TRUE /\ wake' \in {wake, TRUE} /\ Goto("owner", "join")
     ELSE UNCHANGED <<stopping, wake>> /\ Goto("owner", "cleanup")
  /\ UNCHANGED <<after, okay, running, started, requested, failure, ownerVars,
                 sessionVars, kernelVars, historyVars>>

(* Variant: the session is stopped without waiting for the worker.         *)
StopDetached ==
  /\ pc["owner"] = "join"
  /\ Goto("owner", "cleanup")
  /\ joinable' = FALSE
  /\ UNCHANGED <<after, okay, sharedVars, target, told, call, result, sessionVars, kernelVars,
                 historyVars>>

(* ... wait for it, then stop the session once more: the owner may retry.  *)
StopJoin ==
  /\ pc["owner"] = "join"
  /\ pc["worker"] = "done"
  /\ pc' = [pc EXCEPT !["worker"] = "none", !["owner"] = "cleanup"]
  /\ joinable' = FALSE
  /\ UNCHANGED <<after, okay, sharedVars, target, told, call, result, sessionVars, kernelVars,
                 historyVars>>

(* start, after stop: refuse, or give the next worker its orders.  A new   *)
(* token makes the backend forget the table named by the old one.          *)
StartRefused ==
  /\ pc["owner"] = "prepare"
  /\ Return(FALSE, TRUE, "idle")
  /\ UNCHANGED <<after, okay, sharedVars, joinable, target, told, sessionVars, historyVars,
                 unread, orphans>>
  /\ \/ UNCHANGED <<table, leaked>>   (* owned, invalid Lag or no token   *)
     \/ /\ ~owned                      (* rules that cannot be built       *)
        /\ lagSettingsValidate(call.lag)
        /\ call.target \notin SupportedTargets
        /\ leaked' = (leaked \/ table # "absent")
        /\ table' = "absent"

Prepared ==
  /\ leaked' = (leaked \/ table # "absent")
  /\ table' = "absent"
  /\ target' = call.target
  /\ requested' = call.lag
  /\ started' = FALSE /\ stopping' = FALSE
  /\ failure' = FALSE
  /\ faulty' = FALSE /\ lost' = FALSE
  /\ Goto("owner", "spawn")
  /\ UNCHANGED <<after, okay, running, wake, joinable, told, call, result, sessionVars,
                 unread, orphans, unsure>>

StartPrepare ==
  /\ pc["owner"] = "prepare"
  /\ ~owned
  /\ lagSettingsValidate(call.lag)
  /\ call.target \in SupportedTargets
  /\ Prepared

StartSpawn ==
  /\ pc["owner"] = "spawn"
  /\ \/ /\ pc' = [pc EXCEPT !["worker"] = "open", !["owner"] = "wait"]
        /\ joinable' = TRUE
        /\ trouble' = FALSE
        /\ UNCHANGED <<call, result>>
     \/ Return(FALSE, TRUE, "idle") /\ UNCHANGED <<joinable, trouble>>
  /\ UNCHANGED <<after, okay, sharedVars, target, told, open, owned, held, heldLag, pass,
                 kernelVars, historyVars>>

(* The wait for the worker's report.  If capture is not running by the     *)
(* time the owner looks, the text recorded so far is all it passes on.     *)
StartWait ==
  /\ pc["owner"] = "wait"
  /\ started
  /\ \/ running /\ Return(TRUE, FALSE, "idle") /\ UNCHANGED <<after, told>>
     \/ /\ ~running
        /\ told' = failure
        /\ Goto("owner", "halt")
        /\ after' = [after EXCEPT !["owner"] = "start_failed"]
        /\ UNCHANGED <<call, result>>
  /\ UNCHANGED <<okay, sharedVars, joinable, target, sessionVars, kernelVars, historyVars>>

StartFailed ==
  /\ pc["owner"] = "start_failed"
  /\ Return(FALSE, told, "idle")
  /\ told' = FALSE
  /\ UNCHANGED <<after, okay, sharedVars, joinable, target, sessionVars, kernelVars,
                 historyVars>>

StopReturns ==
  /\ pc["owner"] = "return"
  /\ Return(TRUE, FALSE, "idle")
  /\ UNCHANGED <<after, okay, sharedVars, joinable, target, told, sessionVars, kernelVars,
                 historyVars>>

(* linuxBackendDestroy, after its stop.                                    *)
Destroyed ==
  /\ pc["owner"] = "destroyed"
  /\ Return(TRUE, FALSE, "none")
  /\ UNCHANGED <<after, okay, sharedVars, joinable, target, told, sessionVars, kernelVars,
                 historyVars>>

(* Variant: a wakeup that cannot be written leaves the new settings.       *)
ApplyKeepsRefused ==
  /\ pc["owner"] = "apply"
  /\ requested' = (IF lagSettingsValidate(call.lag) THEN call.lag ELSE requested)
  /\ wake' = wake
  /\ Return(FALSE, TRUE, "idle")
  /\ UNCHANGED <<after, okay, running, started, stopping, failure, joinable, target,
                 told, sessionVars, kernelVars, historyVars>>

(* applyLag, all of it under the lock.  A wakeup that cannot be written    *)
(* takes the settings back; a full counter needs no wakeup.                *)
ApplyLag ==
  /\ pc["owner"] = "apply"
  /\ \/ /\ lagSettingsValidate(call.lag)
        /\ running /\ ~stopping
        /\ requested' = call.lag
        /\ wake' = TRUE
        /\ Return(TRUE, FALSE, "idle")
     \/ UNCHANGED <<requested, wake>> /\ Return(FALSE, TRUE, "idle")
  /\ UNCHANGED <<after, okay, running, started, stopping, failure, joinable, target,
                 told, sessionVars, kernelVars, historyVars>>

Owner ==
  \/ SessionStep("owner") \/ SessionStopped("owner")
  \/ StartCheck \/ StopSignal \/ StopJoin
  \/ StartRefused \/ StartPrepare \/ StartSpawn \/ StartWait \/ StartFailed
  \/ StopReturns \/ Destroyed \/ ApplyLag

-----------------------------------------------------------------------------
Init ==
  /\ pc = [t \in Threads |-> "none"]
  /\ after = [t \in Threads |-> "none"]
  /\ okay = [t \in Threads |-> TRUE]
  /\ running = FALSE /\ started = FALSE /\ stopping = FALSE
  /\ requested = lagSettingsDefault
  /\ failure = FALSE /\ wake = FALSE
  /\ joinable = FALSE /\ target \in Targets /\ told = FALSE
  /\ call = NoCall /\ result = NoResult
  /\ open = FALSE /\ owned = FALSE
  /\ held = {} /\ heldLag = lagSettingsDefault
  /\ pass = 0 /\ trouble = FALSE
  /\ unread = {} /\ orphans = {} /\ table = "absent" /\ leaked = FALSE
  /\ faulty = FALSE /\ unsure = FALSE /\ lost = FALSE

Next ==
  \/ Owner \/ Worker
  \/ Create
  \/ \E c \in Calls : Issue(c)
  \/ \E p \in Packets : KernelQueues(p)

Spec == Init /\ [][Next]_vars

(* Threads are scheduled; system calls and helpers return (verdicts and    *)
(* nft are bounded by timeouts).  Nobody has to call anything, no packet   *)
(* has to arrive, and no liveness rests on an error of poll.               *)
FairSpec == Spec /\ WF_vars(Owner) /\ WF_vars(WorkerRuns)

-----------------------------------------------------------------------------
Labels ==
  { "none", "open", "check", "install", "recheck", "publish", "publish_failed", "loop",
    "process", "poll", "ending", "record", "done",
    "idle", "start", "halt", "join", "prepare", "spawn", "wait", "start_failed",
    "return", "destroyed", "apply",
    "cleanup", "quiesce", "drain", "release", "reap", "finish", "close", "remove", "stopped" }

Results == [op : {"none", "start", "apply", "stop", "destroy"}, ok : BOOLEAN, explained : BOOLEAN]

TypeOK ==
  /\ pc \in [Threads -> Labels] /\ after \in [Threads -> Labels]
  /\ okay \in [Threads -> BOOLEAN]
  /\ running \in BOOLEAN /\ started \in BOOLEAN /\ stopping \in BOOLEAN
  /\ failure \in BOOLEAN /\ wake \in BOOLEAN
  /\ requested \in LagSettings /\ lagSettingsValidate(requested)
  /\ joinable \in BOOLEAN /\ target \in Targets /\ told \in BOOLEAN
  /\ call \in Calls \cup {NoCall} /\ result \in Results
  /\ open \in BOOLEAN /\ owned \in BOOLEAN
  /\ held \subseteq Packets /\ heldLag \in LagSettings
  /\ pass \in 0 .. DrainPasses /\ trouble \in BOOLEAN
  /\ unread \subseteq Packets /\ orphans \subseteq Packets
  /\ table \in {"absent", "rules", "flushed"} /\ leaked \in BOOLEAN
  /\ faulty \in BOOLEAN /\ unsure \in BOOLEAN /\ lost \in BOOLEAN

SessionLabels ==
  { "cleanup", "quiesce", "drain", "release", "reap", "finish", "close", "remove", "stopped" }

(* backend.c:36: the session, the queue and the netlink handles belong to  *)
(* the worker while it exists.  The owner only ever touches them, in stop  *)
(* or when it judges whether start may go on, after joining the worker.    *)
SessionExclusive ==
  pc["owner"] \in SessionLabels \cup {"prepare", "spawn"} =>
    pc["worker"] = "none"

(* If nothing failed, no packet is lost: the rules are flushed before the  *)
(* drain, the drain finds everything, and the table goes last.             *)
CleanSessionLosesNothing == lost => faulty

(* docs/LINUX.md: closing may drop packets, "the backend reports these     *)
(* errors".  Once the worker is gone and the owner idle, a loss has left a *)
(* text for linuxBackendLastError.                                         *)
LossIsReported ==
  lost /\ pc["owner"] \in {"idle", "none"} /\ pc["worker"] \in {"none", "done"} => failure

(* A table of ours is never forgotten while it may exist, except when an   *)
(* ownership check after a failed install found no answer.                 *)
OwnedTableNeverForgotten ==
  leaked \/ (table # "absent" /\ ~owned /\ pc["worker"] # "recheck") => unsure

(* A failed start leaves a reason, in its error text or, when the worker   *)
(* died before it had recorded one, for linuxBackendLastError.             *)
FailedStartIsExplained ==
  pc["owner"] = "idle" /\ result.op = "start" /\ ~result.ok =>
    result.explained \/ failure

(* A failure is not silent, whichever of many steps it was.                *)
FailuresAreReported == LossIsReported /\ FailedStartIsExplained

(* The backend keeps the promises of core/network.h: a failed start cleans *)
(* up, a failed apply changes nothing, stop releases everything, and an    *)
(* accepted change is what the capture runs with.                          *)
ImplementsContract == Contract!Spec

(* Every call returns, whatever the worker is doing and whether or not its *)
(* wakeup was delivered.                                                   *)
CallsReturn == call # NoCall ~> call = NoCall

(* A capture that ended lets go of the packet queue even if nobody calls   *)
(* stop.                                                                   *)
EndedCaptureLetsGo == (open /\ ~running /\ started) ~> (~open \/ running)

(* Accepted settings come to govern the packets being held.                *)
AcceptedLagGoverns ==
  \A s \in Settings :
    (running /\ requested = s) ~> (~running \/ requested # s \/ heldLag = s)
=============================================================================
