-------------------------- MODULE LinuxBackendProofs --------------------------
(***************************************************************************)
(* The safety of the Linux backend, and that it implements the contract    *)
(* of core/network.h, for all packets, selections, settings and limits.    *)
(*                                                                         *)
(* One inductive invariant carries everything.  Two threads share the      *)
(* session without a lock, so it says where the worker can be while the    *)
(* owner is at a given place (Lives), how both got there (Routes, Asked),  *)
(* which of their flags tell the truth (Reporting), what the session       *)
(* holds at each place (Session), which losses are excluded unless         *)
(* something failed (Clean), and where the news of a failure is until it   *)
(* is recorded (Known).                                                    *)
(***************************************************************************)
EXTENDS LinuxBackend, TLAPS

(* Places of the worker: before its report, capturing, in drainQueue and   *)
(* closeQueue, with the queue open.                                        *)
Preparing == {"open", "check", "install", "recheck", "publish"}
Capturing == {"loop", "process", "poll", "ending"}
Draining == {"drain", "release", "reap", "finish", "close"}
Opened ==
  {"check", "install", "recheck", "publish", "record", "cleanup", "quiesce"}
    \cup Capturing \cup Draining

(* Places of the owner at which there is no worker.                        *)
Alone ==
  {"none", "cleanup", "remove", "stopped", "prepare", "spawn", "start_failed", "return",
   "destroyed"}

Places ==
  /\ pc \in [Threads -> Labels] /\ after \in [Threads -> Labels]
  /\ okay \in [Threads -> BOOLEAN]
  /\ pass \in 0 .. DrainPasses

Lives ==
  /\ pc["worker"] \in Preparing \cup Capturing \cup SessionLabels
       \cup {"none", "publish_failed", "record", "done"}
  /\ pc["owner"] \in Alone \cup {"idle", "start", "halt", "join", "wait", "apply"}
  /\ joinable <=> pc["worker"] # "none"
  /\ pc["owner"] \in Alone => pc["worker"] = "none"
  /\ pc["owner"] \in {"join", "wait"} => pc["worker"] # "none"

Routes ==
  /\ IF pc["worker"] \in SessionLabels THEN after["worker"] \in {"publish_failed", "done"}
     ELSE after["worker"] = "none"
  /\ IF pc["owner"] \in SessionLabels \cup {"halt", "join"}
     THEN after["owner"] \in {"prepare", "start_failed", "return", "destroyed"}
     ELSE after["owner"] = "none"
  /\ \A t \in Threads : pc[t] \notin SessionLabels \ {"cleanup"} => okay[t]

Asked ==
  /\ call = NoCall <=> pc["owner"] \in {"none", "idle"}
  /\ pc["owner"] \in {"start", "prepare", "spawn", "wait", "start_failed"}
       \/ after["owner"] \in {"prepare", "start_failed"} => call.op = "start"
  /\ pc["owner"] = "apply" => call.op = "apply"
  /\ "return" \in {pc["owner"], after["owner"]} => call.op = "stop"
  /\ "destroyed" \in {pc["owner"], after["owner"]} => call.op = "destroy"
  /\ pc["owner"] \in {"spawn", "wait"} =>
       requested = call.lag /\ target = call.target /\ lagSettingsValidate(call.lag)

Reporting ==
  /\ running <=> pc["worker"] \in Capturing
  /\ pc["worker"] \in Preparing \cup {"publish_failed"} \/ after["worker"] = "publish_failed"
       => ~started /\ pc["owner"] = "wait"
  /\ pc["owner"] = "spawn" => ~started /\ ~stopping
  /\ pc["worker"] \in Capturing \cup {"record", "done"} \/ after["worker"] = "done" => started
  /\ stopping => pc["worker"] = "none" \/ pc["owner"] = "join"

Session ==
  /\ open <=> pc["worker"] \in Opened
  /\ ~open => held = {} /\ unread = {} /\ orphans = {}
  /\ pc["worker"] \in {"open", "check", "install", "recheck"} \/ pc["owner"] = "spawn"
       => ~owned
  /\ pc["worker"] \in Capturing \cup {"publish", "record", "quiesce", "remove"}
       \/ pc["owner"] = "remove" => owned
  /\ pc["worker"] \in {"release", "reap"} => pass < DrainPasses

Clean ==
  /\ lost => faulty
  /\ orphans # {} => faulty
  /\ pc["worker"] = "recheck" \/ (pc["worker"] = "cleanup" /\ ~owned) => faulty
  /\ pc["worker"] \in Draining /\ table = "rules" => faulty
  /\ pc["worker"] \in {"finish", "close"} /\ unread # {} => faulty
  /\ pc["worker"] = "close" /\ held # {} => faulty

(* A failed start is told from a stopped one by the order given last.      *)
Failing == pc["owner"] = "wait" \/ "start_failed" \in {pc["owner"], after["owner"]}

Known ==
  /\ faulty => \/ failure \/ trouble \/ ~okay["worker"] \/ ~okay["owner"]
               \/ pc["worker"] \in {"recheck", "publish_failed"}
               \/ after["worker"] = "publish_failed"
  /\ trouble => pc["worker"] \in {"ending", "record"}
  /\ pc["worker"] = "ending" => stopping \/ trouble
  /\ "start_failed" \in {pc["owner"], after["owner"]} => started /\ ~running
  /\ started /\ ~running /\ Failing => failure \/ trouble
  /\ pc["owner"] = "none" => result.op # "start"
  /\ FailedStartIsExplained

Inv ==
  /\ Places /\ Lives /\ Routes /\ Asked /\ Reporting /\ Session /\ Clean /\ Known
  /\ OwnedTableNeverForgotten

-----------------------------------------------------------------------------
LEMMA CallShapes ==
  /\ NoCall.op = "none"
  /\ \A c \in Calls :
       /\ c.op \in {"start", "apply", "stop", "destroy"}
       /\ c.op = "start" => c.target \in Targets /\ c.lag \in Settings
       /\ c.op = "apply" => c.lag \in Settings
  BY DEF Calls, NoCall, Contract!Calls, Contract!NoCall, Contract!StartCall,
    Contract!ApplyCall, Contract!StopCall

(* What a query and one nft transaction come to, when rules are flushed ... *)
Flushed(t) ==
  /\ pc[t] = "quiesce" /\ Goto(t, "drain")
  /\ \/ /\ table' \in {"absent", "flushed"}
        /\ UNCHANGED <<okay, faulty>>
     \/ /\ table' \in {table, "flushed"}
        /\ okay' = [okay EXCEPT ![t] = FALSE] /\ faulty' = TRUE
  /\ table' = "absent" <=> table = "absent"
  /\ UNCHANGED <<after, sharedVars, ownerVars, sessionVars, unread, orphans, leaked,
                 unsure, lost>>

LEMMA Quiesced ==
  ASSUME NEW t \in Threads, QuiesceRules(t)
  PROVE  Flushed(t)
  BY DEF QuiesceRules, Flushed, Ownership, NftRun, Fault, NoFault, historyVars

(* ... and when a closed queue's table is removed: it is given up once it  *)
(* is gone, and nobody loses a packet by that.                             *)
TableRemoved(t) ==
  /\ pc[t] = "remove" /\ Goto(t, "stopped")
  /\ \/ /\ table' = "absent" /\ owned' = FALSE
        /\ UNCHANGED <<okay, faulty>>
     \/ /\ table' \in {table, "absent"} /\ UNCHANGED owned
        /\ okay' = [okay EXCEPT ![t] = FALSE] /\ faulty' = TRUE
  /\ lost' => lost
  /\ UNCHANGED <<after, sharedVars, ownerVars, open, held, heldLag, pass, trouble,
                 unread, orphans, leaked, unsure>>

LEMMA Removed ==
  ASSUME NEW t \in Threads, RemoveRules(t), Queued = {}
  PROVE  TableRemoved(t)
  <1>1. lost' => lost
    <2>1. CASE \E left : Unhook(left)
      BY <2>1 DEF Unhook
    <2>2. CASE UNCHANGED lost
      BY <2>2
    <2> QED
      BY <2>1, <2>2 DEF RemoveRules, Fault, NoFault, historyVars
  <1> QED
    BY <1>1 DEF RemoveRules, TableRemoved, Ownership, NftRun, Fault, NoFault,
      historyVars

(* After a failed install the table is proven ours, known to be absent, or *)
(* remembered as unsure.                                                   *)
LEMMA Rechecked ==
  ASSUME RecheckTable
  PROVE  owned' = TRUE \/ (owned' = FALSE /\ (table = "absent" \/ unsure' = TRUE))
  BY DEF RecheckTable, Ownership

LEMMA Initial == Init => Inv
  <1> SUFFICES ASSUME Init PROVE Inv
    OBVIOUS
  <1> USE DEF Init, Threads
  <1>1. Places
    BY LinuxAssumption DEF Places, Labels
  <1>2. Lives /\ Routes /\ Reporting /\ Session
    BY DEF Lives, Routes, Reporting, Session, Preparing, Capturing, Draining, Opened,
      Alone,
      SessionLabels
  <1>3. Asked /\ Clean /\ Known /\ OwnedTableNeverForgotten
    BY DEF Asked, Clean, Known, Failing, FailedStartIsExplained,
      OwnedTableNeverForgotten,
      NoResult, Draining
  <1> QED
    BY <1>1, <1>2, <1>3 DEF Inv

(* Both threads stay in the code.                                          *)
LEMMA PlacesStep == Inv /\ [Next]_vars => Places'
  <1> SUFFICES ASSUME Places, Lives, Session, [Next]_vars PROVE Places'
    BY DEF Inv
  <1> USE DEF Places, Threads, Labels, Goto, Fault, NoFault, threadVars, sharedVars,
        ownerVars, sessionVars, kernelVars, historyVars
  <1>1. CASE OpenQueue
    <2>1. CASE open' = TRUE /\ Goto("worker", "check") /\ UNCHANGED failure /\ NoFault
      BY <2>1, <1>1 DEF OpenQueue
    <2>2. CASE UNCHANGED open /\ Goto("worker", "publish_failed") /\ Fault
      BY <2>2, <1>1 DEF OpenQueue
    <2> QED BY <1>1, <2>1, <2>2 DEF OpenQueue
  <1>2. CASE CheckTable
    BY <1>2 DEF CheckTable, CleanUp
  <1>3. CASE InstallRules
    BY <1>3 DEF InstallRules
  <1>4. CASE RecheckTable
    BY <1>4 DEF RecheckTable, CleanUp
  <1>5. CASE Publish
    BY <1>5 DEF Publish
  <1>6. CASE PublishFailed
    BY <1>6 DEF PublishFailed
  <1>7. CASE WorkerLoop
    BY <1>7 DEF WorkerLoop
  <1>8. CASE WorkerProcess
    BY <1>8 DEF WorkerProcess
  <1>9. CASE PollWake
    BY <1>9 DEF PollWake
  <1>10. CASE PollRead
    BY <1>10 DEF PollRead
  <1>11. CASE PollTimeout
    BY <1>11 DEF PollTimeout
  <1>12. CASE PollFails
    BY <1>12 DEF PollFails
  <1>13. CASE WorkerEnding
    BY <1>13 DEF WorkerEnding
  <1>14. CASE WorkerRecords
    BY <1>14 DEF WorkerRecords, CleanUp
  <1>15. CASE StartCheck
    BY <1>15 DEF StartCheck, Return
  <1>16. CASE StopSignal
    BY <1>16 DEF StopSignal, Return
  <1>17. CASE StopJoin
    BY <1>17 DEF StopJoin, Return
  <1>18. CASE StartRefused
    BY <1>18 DEF StartRefused, Return
  <1>19. CASE StartPrepare
    BY <1>19 DEF StartPrepare, Prepared
  <1>20. CASE StartSpawn
    BY <1>20 DEF StartSpawn, Return
  <1>21. CASE StartWait
    BY <1>21 DEF StartWait, Return
  <1>22. CASE StartFailed
    BY <1>22 DEF StartFailed, Return
  <1>23. CASE StopReturns
    BY <1>23 DEF StopReturns, Return
  <1>24. CASE Destroyed
    BY <1>24 DEF Destroyed, Return
  <1>25. CASE ApplyLag
    BY <1>25 DEF ApplyLag, Return
  <1>26. CASE Create
    BY <1>26 DEF Create, Return
  <1>27. ASSUME NEW t \in Threads, SessionStop(t) PROVE Places'
    BY <1>27 DEF SessionStop
  <1>28. ASSUME NEW t \in Threads, QuiesceRules(t) PROVE Places'
    <2>1. Flushed(t)
      BY <1>28, Quiesced
    <2> QED BY <2>1 DEF Flushed
  <1>29. ASSUME NEW t \in Threads, DrainQueue(t) PROVE Places'
    BY <1>29, LinuxAssumption DEF DrainQueue
  <1>30. ASSUME NEW t \in Threads, DrainRelease(t) PROVE Places'
    <2>1. CASE Goto(t, "reap") /\ UNCHANGED okay
      BY <1>30, <2>1 DEF DrainRelease
    <2>2. CASE okay' = [okay EXCEPT ![t] = FALSE] /\ Goto(t, "finish")
      BY <1>30, <2>2 DEF DrainRelease
    <2> QED BY <1>30, <2>1, <2>2 DEF DrainRelease
  <1>31. ASSUME NEW t \in Threads, DrainRead(t) PROVE Places'
    <2>1. pc' \in [Threads -> Labels] /\ okay' \in [Threads -> BOOLEAN]
      <3>1. CASE Goto(t, "finish") /\ UNCHANGED okay
        BY <3>1
      <3>2. CASE Goto(t, "release") /\ UNCHANGED okay
        BY <3>2
      <3>3. CASE Goto(t, "finish") /\ okay' = [okay EXCEPT ![t] = FALSE]
        BY <3>3
      <3> QED BY <1>31, <3>1, <3>2, <3>3 DEF DrainRead
    <2>2. pc[t] = "reap" => pass < DrainPasses
      BY DEF Lives, Session, SessionLabels, Preparing, Capturing, Alone
    <2>3. pass' \in 0 .. DrainPasses
      BY <1>31, <2>2, LinuxAssumption DEF DrainRead
    <2> QED BY <1>31, <2>1, <2>3 DEF DrainRead
  <1>32. ASSUME NEW t \in Threads, DrainFinish(t) PROVE Places'
    BY <1>32 DEF DrainFinish
  <1>33. ASSUME NEW t \in Threads, CloseQueue(t) PROVE Places'
    BY <1>33, LinuxAssumption DEF CloseQueue
  <1>34. ASSUME NEW t \in Threads, RemoveRules(t) PROVE Places'
    BY <1>34 DEF RemoveRules
  <1>35. ASSUME NEW t \in Threads, SessionStopped(t) PROVE Places'
    BY <1>35 DEF SessionStopped
  <1>36. ASSUME NEW c \in Calls, Issue(c) PROVE Places'
    BY <1>36 DEF Issue
  <1>37. ASSUME NEW p \in Packets, KernelQueues(p) PROVE Places'
    BY <1>37 DEF KernelQueues
  <1>38. CASE UNCHANGED vars
    BY <1>38 DEF vars
  <1> QED
    BY <1>1, <1>2, <1>3, <1>4, <1>5, <1>6, <1>7, <1>8, <1>9, <1>10, <1>11,
      <1>12, <1>13, <1>14, <1>15, <1>16, <1>17, <1>18, <1>19, <1>20, <1>21,
      <1>22, <1>23, <1>24, <1>25, <1>26, <1>27, <1>28, <1>29, <1>30, <1>31,
      <1>32, <1>33, <1>34, <1>35, <1>36, <1>37, <1>38 DEF Next, Owner, Worker,
      WorkerRuns, SessionStep

(* The table is forgotten only by a new token, which a backend that owns   *)
(* one does not make.                                                      *)
LEMMA TableStep == Inv /\ [Next]_vars => OwnedTableNeverForgotten'
  <1> SUFFICES ASSUME Places, Lives, Session, OwnedTableNeverForgotten, [Next]_vars
               PROVE  OwnedTableNeverForgotten'
    BY DEF Inv
  <1> USE DEF OwnedTableNeverForgotten, Places, Threads, Goto, Fault, NoFault, threadVars,
        sharedVars, ownerVars, sessionVars, kernelVars, historyVars
  <1>1. CASE OpenQueue
    BY <1>1 DEF OpenQueue
  <1>2. CASE CheckTable
    BY <1>2 DEF CheckTable, CleanUp
  <1>3. CASE InstallRules
    BY <1>3 DEF InstallRules
  <1>4. CASE RecheckTable
    BY <1>4, Rechecked DEF RecheckTable, CleanUp
  <1>5. CASE Publish
    BY <1>5 DEF Publish
  <1>6. CASE PublishFailed
    BY <1>6 DEF PublishFailed
  <1>7. CASE WorkerLoop
    BY <1>7 DEF WorkerLoop
  <1>8. CASE WorkerProcess
    BY <1>8 DEF WorkerProcess
  <1>9. CASE PollWake
    BY <1>9 DEF PollWake
  <1>10. CASE PollRead
    BY <1>10 DEF PollRead
  <1>11. CASE PollTimeout
    BY <1>11 DEF PollTimeout
  <1>12. CASE PollFails
    BY <1>12 DEF PollFails
  <1>13. CASE WorkerEnding
    BY <1>13 DEF WorkerEnding
  <1>14. CASE WorkerRecords
    BY <1>14 DEF WorkerRecords, CleanUp
  <1>15. CASE StartCheck
    BY <1>15 DEF StartCheck, Return
  <1>16. CASE StopSignal
    BY <1>16 DEF StopSignal, Return
  <1>17. CASE StopJoin
    BY <1>17 DEF StopJoin, Return
  <1>18. CASE StartRefused
    BY <1>18 DEF StartRefused, Return, Lives, Alone
  <1>19. CASE StartPrepare
    BY <1>19 DEF StartPrepare, Prepared, Lives, Alone
  <1>20. CASE StartSpawn
    BY <1>20 DEF StartSpawn, Return, Lives, Session, Alone
  <1>21. CASE StartWait
    BY <1>21 DEF StartWait, Return
  <1>22. CASE StartFailed
    BY <1>22 DEF StartFailed, Return
  <1>23. CASE StopReturns
    BY <1>23 DEF StopReturns, Return
  <1>24. CASE Destroyed
    BY <1>24 DEF Destroyed, Return
  <1>25. CASE ApplyLag
    BY <1>25 DEF ApplyLag, Return
  <1>26. CASE Create
    BY <1>26 DEF Create, Return
  <1>27. ASSUME NEW t \in Threads, SessionStop(t) PROVE OwnedTableNeverForgotten'
    BY <1>27 DEF SessionStop
  <1>28. ASSUME NEW t \in Threads, QuiesceRules(t) PROVE OwnedTableNeverForgotten'
    BY <1>28, Quiesced DEF Flushed
  <1>29. ASSUME NEW t \in Threads, DrainQueue(t) PROVE OwnedTableNeverForgotten'
    BY <1>29 DEF DrainQueue
  <1>30. ASSUME NEW t \in Threads, DrainRelease(t) PROVE OwnedTableNeverForgotten'
    BY <1>30 DEF DrainRelease
  <1>31. ASSUME NEW t \in Threads, DrainRead(t) PROVE OwnedTableNeverForgotten'
    BY <1>31 DEF DrainRead
  <1>32. ASSUME NEW t \in Threads, DrainFinish(t) PROVE OwnedTableNeverForgotten'
    BY <1>32 DEF DrainFinish
  <1>33. ASSUME NEW t \in Threads, CloseQueue(t) PROVE OwnedTableNeverForgotten'
    BY <1>33 DEF CloseQueue
  <1>34. ASSUME NEW t \in Threads, RemoveRules(t) PROVE OwnedTableNeverForgotten'
    <2>1. Queued = {}
      BY <1>34 DEF RemoveRules, Lives, Session, Queued, Opened, Capturing, Draining
    <2> QED BY <1>34, <2>1, Removed DEF TableRemoved
  <1>35. ASSUME NEW t \in Threads, SessionStopped(t) PROVE OwnedTableNeverForgotten'
    BY <1>35 DEF SessionStopped
  <1>36. ASSUME NEW c \in Calls, Issue(c) PROVE OwnedTableNeverForgotten'
    BY <1>36 DEF Issue
  <1>37. ASSUME NEW p \in Packets, KernelQueues(p) PROVE OwnedTableNeverForgotten'
    BY <1>37 DEF KernelQueues
  <1>38. CASE UNCHANGED vars
    BY <1>38 DEF vars
  <1> QED
    BY <1>1, <1>2, <1>3, <1>4, <1>5, <1>6, <1>7, <1>8, <1>9, <1>10, <1>11,
      <1>12, <1>13, <1>14, <1>15, <1>16, <1>17, <1>18, <1>19, <1>20, <1>21,
      <1>22, <1>23, <1>24, <1>25, <1>26, <1>27, <1>28, <1>29, <1>30, <1>31,
      <1>32, <1>33, <1>34, <1>35, <1>36, <1>37, <1>38 DEF Next, Owner, Worker,
      WorkerRuns, SessionStep

(* Every step of either thread, of the kernel and of the caller keeps it.  *)
LEMMA Step == Inv /\ [Next]_vars => Inv'
  <1> DEFINE Kept == Lives' /\ Routes' /\ Asked' /\ Reporting' /\ Session' /\ Clean' /\ Known'
  <1> SUFFICES ASSUME Inv, [Next]_vars PROVE Kept
    BY PlacesStep, TableStep DEF Inv
  <1> USE CallShapes
      DEF Inv, Places, Lives, Routes, Asked, Reporting, Session, Clean, Known, Failing,
        FailedStartIsExplained, Threads, SessionLabels, Preparing, Capturing, Draining,
        Opened, Alone, Queued, Goto, Fault, NoFault, CleanUp, ReadPacket, ReadFails, Return,
        threadVars, sharedVars, ownerVars, sessionVars, kernelVars, historyVars
  <1>1. CASE OpenQueue
    <2>1. CASE open' = TRUE /\ Goto("worker", "check") /\ UNCHANGED failure /\ NoFault
      BY <1>1, <2>1 DEF OpenQueue
    <2>2. CASE UNCHANGED open /\ Goto("worker", "publish_failed") /\ Fault
      BY <1>1, <2>2 DEF OpenQueue
    <2> QED BY <1>1, <2>1, <2>2 DEF OpenQueue
  <1>2. CASE CheckTable
    BY <1>2 DEF CheckTable
  <1>3. CASE InstallRules
    BY <1>3 DEF InstallRules
  <1>4. CASE RecheckTable
    <2>1. Lives' /\ Routes' /\ Asked' /\ Reporting' /\ Session'
      BY <1>4, Rechecked DEF RecheckTable
    <2>2. Clean'
      BY <1>4, Rechecked DEF RecheckTable
    <2>3. Known'
      BY <1>4, Rechecked DEF RecheckTable
    <2> QED BY <2>1, <2>2, <2>3
  <1>5. CASE Publish
    BY <1>5 DEF Publish
  <1>6. CASE PublishFailed
    BY <1>6 DEF PublishFailed
  <1>7. CASE WorkerLoop
    BY <1>7 DEF WorkerLoop
  <1>8. CASE WorkerProcess
    BY <1>8 DEF WorkerProcess
  <1>9. CASE PollWake
    BY <1>9 DEF PollWake
  <1>10. CASE PollRead
    BY <1>10 DEF PollRead
  <1>11. CASE PollTimeout
    BY <1>11 DEF PollTimeout
  <1>12. CASE PollFails
    BY <1>12 DEF PollFails
  <1>13. CASE WorkerEnding
    BY <1>13 DEF WorkerEnding
  <1>14. CASE WorkerRecords
    BY <1>14 DEF WorkerRecords
  <1>15. CASE StartCheck
    BY <1>15 DEF StartCheck
  <1>16. CASE StopSignal
    <2>1. CASE joinable /\ stopping' = TRUE /\ Goto("owner", "join")
      BY <1>16, <2>1 DEF StopSignal
    <2>2. CASE ~joinable /\ UNCHANGED <<stopping, wake>> /\ Goto("owner", "cleanup")
      BY <1>16, <2>2 DEF StopSignal
    <2> QED BY <1>16, <2>1, <2>2 DEF StopSignal
  <1>17. CASE StopJoin
    BY <1>17 DEF StopJoin
  <1>18. CASE StartRefused
    BY <1>18 DEF StartRefused
  <1>19. CASE StartPrepare
    BY <1>19 DEF StartPrepare, Prepared
  <1>20. CASE StartSpawn
    <2>1. CASE pc' = [pc EXCEPT !["worker"] = "open", !["owner"] = "wait"] /\ joinable' = TRUE
                 /\ trouble' = FALSE /\ UNCHANGED <<call, result>>
      <3>1. Lives' /\ Routes' /\ Asked'
        BY <1>20, <2>1 DEF StartSpawn
      <3>2. Reporting'
        BY <1>20, <2>1 DEF StartSpawn
      <3>3. Session' /\ Clean' /\ Known'
        BY <1>20, <2>1 DEF StartSpawn
      <3> QED BY <3>1, <3>2, <3>3
    <2>2. CASE Return(FALSE, TRUE, "idle") /\ UNCHANGED <<joinable, trouble>>
      BY <1>20, <2>2 DEF StartSpawn
    <2> QED BY <1>20, <2>1, <2>2 DEF StartSpawn
  <1>21. CASE StartWait
    BY <1>21 DEF StartWait
  <1>22. CASE StartFailed
    BY <1>22 DEF StartFailed
  <1>23. CASE StopReturns
    BY <1>23 DEF StopReturns
  <1>24. CASE Destroyed
    BY <1>24 DEF Destroyed
  <1>25. CASE ApplyLag
    BY <1>25 DEF ApplyLag
  <1>26. CASE Create
    <2>1. Lives'
      BY <1>26 DEF Create
    <2>2. Routes'
      BY <1>26 DEF Create
    <2>3. Asked'
      BY <1>26 DEF Create
    <2>4. Reporting'
      BY <1>26 DEF Create
    <2>5. Session'
      BY <1>26 DEF Create
    <2>6. Clean'
      BY <1>26 DEF Create
    <2>7. Known'
      BY <1>26 DEF Create
    <2> QED BY <2>1, <2>2, <2>3, <2>4, <2>5, <2>6, <2>7
  <1>27. CASE SessionStop("worker")
    BY <1>27 DEF SessionStop
  <1>28. CASE SessionStop("owner")
    BY <1>28 DEF SessionStop
  <1>29. CASE QuiesceRules("worker")
    <2>0. Flushed("worker")
      BY <1>29, Quiesced
    <2>1. Lives' /\ Routes' /\ Asked'
      BY <2>0 DEF Flushed
    <2>2. Reporting' /\ Session'
      BY <2>0 DEF Flushed
    <2>3. Clean'
      BY <2>0 DEF Flushed
    <2>4. Known'
      BY <2>0 DEF Flushed
    <2> QED BY <2>1, <2>2, <2>3, <2>4
  <1>30. CASE QuiesceRules("owner")
    <2>0. Flushed("owner")
      BY <1>30, Quiesced
    <2>1. Lives' /\ Routes' /\ Asked'
      BY <2>0 DEF Flushed
    <2>2. Reporting' /\ Session'
      BY <2>0 DEF Flushed
    <2>3. Clean'
      BY <2>0 DEF Flushed
    <2>4. Known'
      BY <2>0 DEF Flushed
    <2> QED BY <2>1, <2>2, <2>3, <2>4
  <1>31. CASE DrainQueue("worker")
    <2>1. Lives' /\ Routes' /\ Asked'
      BY <1>31, LinuxAssumption DEF DrainQueue
    <2>2. Reporting'
      BY <1>31, LinuxAssumption DEF DrainQueue
    <2>3. Session'
      BY <1>31, LinuxAssumption DEF DrainQueue
    <2>4. Clean'
      BY <1>31, LinuxAssumption DEF DrainQueue
    <2>5. Known'
      BY <1>31, LinuxAssumption DEF DrainQueue
    <2> QED BY <2>1, <2>2, <2>3, <2>4, <2>5
  <1>32. CASE DrainQueue("owner")
    BY <1>32 DEF DrainQueue
  <1>33. CASE DrainRelease("worker")
    BY <1>33 DEF DrainRelease
  <1>34. CASE DrainRelease("owner")
    BY <1>34 DEF DrainRelease
  <1>35. CASE DrainRead("worker")
    BY <1>35 DEF DrainRead
  <1>36. CASE DrainRead("owner")
    BY <1>36 DEF DrainRead
  <1>37. CASE DrainFinish("worker")
    BY <1>37 DEF DrainFinish
  <1>38. CASE DrainFinish("owner")
    BY <1>38 DEF DrainFinish
  <1>39. CASE CloseQueue("worker")
    BY <1>39 DEF CloseQueue
  <1>40. CASE CloseQueue("owner")
    BY <1>40 DEF CloseQueue
  <1>41. CASE RemoveRules("worker")
    <2>0. TableRemoved("worker")
      BY <1>41, Removed DEF RemoveRules
    <2>1. CASE owned' = FALSE /\ UNCHANGED <<okay, faulty>>
      BY <2>0, <2>1 DEF TableRemoved
    <2>2. CASE okay' = [okay EXCEPT !["worker"] = FALSE] /\ faulty' = TRUE /\ UNCHANGED owned
      BY <2>0, <2>2 DEF TableRemoved
    <2> QED BY <2>0, <2>1, <2>2 DEF TableRemoved
  <1>42. CASE RemoveRules("owner")
    <2>0. TableRemoved("owner")
      BY <1>42, Removed DEF RemoveRules
    <2>1. CASE owned' = FALSE /\ UNCHANGED <<okay, faulty>>
      BY <2>0, <2>1 DEF TableRemoved
    <2>2. CASE okay' = [okay EXCEPT !["owner"] = FALSE] /\ faulty' = TRUE /\ UNCHANGED owned
      BY <2>0, <2>2 DEF TableRemoved
    <2> QED BY <2>0, <2>1, <2>2 DEF TableRemoved
  <1>43. CASE SessionStopped("worker")
    BY <1>43 DEF SessionStopped
  <1>44. CASE SessionStopped("owner")
    BY <1>44 DEF SessionStopped
  <1>45. ASSUME NEW c \in Calls, Issue(c) PROVE Kept
    BY <1>45 DEF Issue, NoResult
  <1>46. ASSUME NEW p \in Packets, KernelQueues(p) PROVE Kept
    BY <1>46 DEF KernelQueues
  <1>47. CASE UNCHANGED vars
    BY <1>47 DEF vars
  <1> QED
    BY <1>1, <1>2, <1>3, <1>4, <1>5, <1>6, <1>7, <1>8, <1>9, <1>10, <1>11,
      <1>12, <1>13, <1>14, <1>15, <1>16, <1>17, <1>18, <1>19, <1>20, <1>21,
      <1>22, <1>23, <1>24, <1>25, <1>26, <1>27, <1>28, <1>29, <1>30, <1>31,
      <1>32, <1>33, <1>34, <1>35, <1>36, <1>37, <1>38, <1>39, <1>40, <1>41,
      <1>42, <1>43, <1>44, <1>45, <1>46, <1>47 DEF Next, Owner, Worker,
      WorkerRuns, SessionStep

LEMMA Invariant == Spec => []Inv
  <1>1. Init => Inv
    BY Initial
  <1>2. Inv /\ [Next]_vars => Inv'
    BY Step
  <1> QED
    BY <1>1, <1>2, PTL DEF Spec

-----------------------------------------------------------------------------
(* The owner touches the session, the queue and the netlink handles only   *)
(* while there is no worker (backend.c:36), so that neither needs a lock.  *)
THEOREM SessionExclusiveHolds == Spec => []SessionExclusive
  <1>1. Inv => SessionExclusive
    BY DEF Inv, Lives, Alone, SessionExclusive, SessionLabels
  <1> QED
    BY <1>1, Invariant, PTL

(* A session in which nothing failed ends without a packet lost, whatever  *)
(* arrives while it is stopped.                                            *)
THEOREM CleanSessionHolds == Spec => []CleanSessionLosesNothing
  <1>1. Inv => CleanSessionLosesNothing
    BY DEF Inv, Clean, CleanSessionLosesNothing
  <1> QED
    BY <1>1, Invariant, PTL

(* When the worker is gone and the owner idle, lost packets have left a    *)
(* text, and a failed start is never without a reason.                     *)
THEOREM FailuresAreReportedHolds == Spec => []FailuresAreReported
  <1>1. ASSUME Inv PROVE LossIsReported
    BY <1>1 DEF Inv, Lives, Routes, Clean, Known, LossIsReported, Threads,
      SessionLabels,
      Alone
  <1>2. Inv => FailedStartIsExplained
    BY DEF Inv, Known
  <1> QED
    BY <1>1, <1>2, Invariant, PTL DEF FailuresAreReported

(* A table of this backend's is forgotten only if the check of a failed    *)
(* install found no answer, over any number of sessions.                   *)
THEOREM OwnedTableHolds == Spec => []OwnedTableNeverForgotten
  <1>1. Inv => OwnedTableNeverForgotten
    BY DEF Inv
  <1> QED
    BY <1>1, Invariant, PTL

-----------------------------------------------------------------------------
(* What the contract's owner can see of a state.                           *)
Visible == <<running, target, requested, open, call, result>>

LEMMA HiddenStep ==
  ASSUME UNCHANGED Visible
  PROVE  UNCHANGED Contract!vars
  BY DEF Visible, Contract!vars, captureBar, callBar

(* Some steps of the contract, in this module's terms.                     *)
LEMMA ReturnedStart ==
  ASSUME NEW ok \in BOOLEAN, NEW explained, NEW label,
         call.op = "start", Return(ok, explained, label), IF ok THEN running ELSE ~running /\ ~open,
         UNCHANGED <<running, target, requested, open>>
  PROVE  Contract!Backend
  BY DEF Return, Contract!Backend, Contract!ReturnStart, Contract!Finish, captureBar,
    callBar,
    NoCall, Contract!NoCall

LEMMA ReturnedStop ==
  ASSUME NEW label, call.op \in {"stop", "destroy"}, Return(TRUE, FALSE, label), ~running, ~open,
         UNCHANGED <<running, target, requested, open>>
  PROVE  Contract!Backend
  BY DEF Return, Contract!Backend, Contract!ReturnStop, Contract!Finish, captureBar,
    callBar,
    NoCall, Contract!NoCall, Contract!StopCall

(* Every step is one of the contract's, or none that its owner could see.  *)
LEMMA ContractStep == Inv /\ [Next]_vars => [Contract!Next]_Contract!vars
  <1> DEFINE Goal == Contract!Next \/ UNCHANGED Contract!vars
  <1> SUFFICES ASSUME Inv, [Next]_vars PROVE Goal
    OBVIOUS
  <1> USE DEF Threads, Fault, NoFault, ownerVars, sharedVars, sessionVars
  <1>1. CASE OpenQueue
    <2>1. CASE open' = TRUE
      <3>1. call.op = "start" /\ ~open
        BY <1>1 DEF OpenQueue, Inv, Lives, Asked, Reporting, Session, Preparing, Opened,
          Capturing, Draining
      <3>2. Contract!Engage
        BY <1>1, <2>1, <3>1 DEF OpenQueue, Contract!Engage, captureBar, callBar
      <3> QED BY <3>2 DEF Contract!Next, Contract!Backend
    <2>2. CASE UNCHANGED open
      BY <1>1, <2>2, HiddenStep DEF OpenQueue, Visible
    <2> QED BY <1>1, <2>1, <2>2 DEF OpenQueue
  <1>2. CASE CheckTable
    BY <1>2, HiddenStep DEF CheckTable, Visible
  <1>3. CASE InstallRules
    BY <1>3, HiddenStep DEF InstallRules, Visible
  <1>4. CASE RecheckTable
    BY <1>4, HiddenStep DEF RecheckTable, Visible
  <1>5. CASE Publish
    <2>1. /\ call.op = "start" /\ open /\ ~running
          /\ requested = call.lag /\ target = call.target /\ lagSettingsValidate(call.lag)
      BY <1>5 DEF Publish, Inv, Lives, Asked, Reporting, Session, Preparing, Opened,
        Capturing, Draining
    <2>2. Contract!Begin
      BY <1>5, <2>1 DEF Publish, Contract!Begin, Contract!Capturing, captureBar,
        callBar, lagSettingsValidate,
        Contract!lagSettingsValidate
    <2> QED BY <2>2 DEF Contract!Next, Contract!Backend
  <1>6. CASE PublishFailed
    <2>1. ~running
      BY <1>6 DEF PublishFailed, Inv, Reporting, Capturing
    <2> QED BY <1>6, <2>1 DEF PublishFailed, Contract!vars, captureBar, callBar
  <1>7. CASE WorkerLoop
    BY <1>7, HiddenStep DEF WorkerLoop, Visible
  <1>8. CASE WorkerProcess
    BY <1>8, HiddenStep DEF WorkerProcess, Visible
  <1>9. CASE PollWake
    BY <1>9, HiddenStep DEF PollWake, Visible
  <1>10. CASE PollRead
    BY <1>10, HiddenStep DEF PollRead, Visible
  <1>11. CASE PollTimeout
    BY <1>11, HiddenStep DEF PollTimeout, Visible
  <1>12. CASE PollFails
    BY <1>12, HiddenStep DEF PollFails, Visible
  <1>13. CASE WorkerEnding
    <2>1. running
      BY <1>13 DEF WorkerEnding, Inv, Reporting, Capturing
    <2>2. Contract!End
      BY <1>13, <2>1 DEF WorkerEnding, Contract!End, Contract!Stopped, captureBar,
        callBar
    <2> QED BY <2>2 DEF Contract!Next, Contract!Backend
  <1>14. CASE WorkerRecords
    BY <1>14, HiddenStep DEF WorkerRecords, Visible
  <1>15. CASE StartCheck
    <2>1. call.op = "start"
      BY <1>15 DEF StartCheck, Inv, Asked
    <2>2. CASE running /\ Return(TRUE, FALSE, "idle")
      BY <1>15, <2>1, <2>2, ReturnedStart DEF StartCheck, Contract!Next
    <2>3. CASE UNCHANGED <<call, result>>
      BY <1>15, <2>3, HiddenStep DEF StartCheck, Visible
    <2> QED BY <1>15, <2>2, <2>3 DEF StartCheck
  <1>16. CASE StopSignal
    BY <1>16, HiddenStep DEF StopSignal, Visible
  <1>17. CASE StopJoin
    BY <1>17, HiddenStep DEF StopJoin, Visible
  <1>18. CASE StartRefused
    <2>1. call.op = "start" /\ ~running /\ ~open
      BY <1>18 DEF StartRefused, Inv, Lives, Asked, Reporting, Session, Alone,
        Capturing, Opened, Draining
    <2> QED BY <1>18, <2>1, ReturnedStart DEF StartRefused, Contract!Next
  <1>19. CASE StartPrepare
    <2>1. ~running
      BY <1>19 DEF StartPrepare, Inv, Lives, Asked, Reporting, Session, Alone,
        Capturing, Opened, Draining
    <2> QED
      BY <1>19, <2>1 DEF StartPrepare, Prepared, Contract!vars, captureBar, callBar
  <1>20. CASE StartSpawn
    <2>1. call.op = "start" /\ ~running /\ ~open
      BY <1>20 DEF StartSpawn, Inv, Lives, Asked, Reporting, Session, Alone, Capturing,
        Opened, Draining
    <2>2. CASE Return(FALSE, TRUE, "idle")
      BY <1>20, <2>1, <2>2, ReturnedStart DEF StartSpawn, Contract!Next
    <2>3. CASE UNCHANGED <<call, result>>
      BY <1>20, <2>3, HiddenStep DEF StartSpawn, Visible
    <2> QED BY <1>20, <2>2, <2>3 DEF StartSpawn
  <1>21. CASE StartWait
    <2>1. call.op = "start"
      BY <1>21 DEF StartWait, Inv, Asked
    <2>2. CASE running /\ Return(TRUE, FALSE, "idle")
      BY <1>21, <2>1, <2>2, ReturnedStart DEF StartWait, Contract!Next
    <2>3. CASE UNCHANGED <<call, result>>
      BY <1>21, <2>3, HiddenStep DEF StartWait, Visible
    <2> QED BY <1>21, <2>2, <2>3 DEF StartWait
  <1>22. CASE StartFailed
    <2>1. call.op = "start" /\ ~running /\ ~open
      BY <1>22 DEF StartFailed, Inv, Lives, Asked, Reporting, Session, Alone, Capturing,
        Opened, Draining
    <2> QED BY <1>22, <2>1, ReturnedStart DEF StartFailed, Contract!Next
  <1>23. CASE StopReturns
    <2>1. call.op \in {"stop", "destroy"} /\ ~running /\ ~open
      BY <1>23 DEF StopReturns, Inv, Lives, Asked, Reporting, Session, Alone, Capturing,
        Opened, Draining
    <2>2. Return(TRUE, FALSE, "idle") /\ UNCHANGED <<running, target, requested, open>>
      BY <1>23 DEF StopReturns
    <2>3. Contract!Backend
      BY <2>1, <2>2, ReturnedStop DEF Return
    <2> QED BY <2>3 DEF Contract!Next
  <1>24. CASE Destroyed
    <2>1. call.op \in {"stop", "destroy"} /\ ~running /\ ~open
      BY <1>24 DEF Destroyed, Inv, Lives, Asked, Reporting, Session, Alone, Capturing,
        Opened, Draining
    <2>2. Return(TRUE, FALSE, "none") /\ UNCHANGED <<running, target, requested, open>>
      BY <1>24 DEF Destroyed
    <2>3. Contract!Backend
      BY <2>1, <2>2, ReturnedStop DEF Return
    <2> QED BY <2>3 DEF Contract!Next
  <1>25. CASE ApplyLag
    <2>1. call.op = "apply"
      BY <1>25 DEF ApplyLag, Inv, Asked
    <2>2. \E ok \in BOOLEAN : Contract!ReturnApply(ok)
      <3>1. CASE requested' = call.lag /\ lagSettingsValidate(call.lag) /\ running /\ Return(TRUE, FALSE, "idle")
        <4>1. Contract!ReturnApply(TRUE)
          BY <1>25, <2>1, <3>1 DEF ApplyLag, Return, Contract!ReturnApply,
            Contract!Finish, Contract!Capturing,
            captureBar, callBar, NoCall, Contract!NoCall, lagSettingsValidate, Contract!lagSettingsValidate
        <4> QED BY <4>1
      <3>2. CASE UNCHANGED requested /\ Return(FALSE, TRUE, "idle")
        <4>1. Contract!ReturnApply(FALSE)
          BY <1>25, <2>1, <3>2 DEF ApplyLag, Return, Contract!ReturnApply,
            Contract!Finish,
            captureBar, callBar, NoCall, Contract!NoCall
        <4> QED BY <4>1
      <3> QED BY <1>25, <3>1, <3>2 DEF ApplyLag
    <2> QED BY <2>2 DEF Contract!Next, Contract!Backend
  <1>26. CASE Create
    <2>1. ~running
      BY <1>26 DEF Create, Inv, Lives, Asked, Reporting, Session, Alone, Capturing,
        Opened, Draining
    <2> QED BY <1>26, <2>1 DEF Create, Contract!vars, captureBar, callBar
  <1>27. ASSUME NEW t \in Threads, SessionStop(t) PROVE Goal
    BY <1>27, HiddenStep DEF SessionStop, Visible
  <1>28. ASSUME NEW t \in Threads, QuiesceRules(t) PROVE Goal
    BY <1>28, HiddenStep DEF QuiesceRules, Visible
  <1>29. ASSUME NEW t \in Threads, DrainQueue(t) PROVE Goal
    BY <1>29, HiddenStep DEF DrainQueue, Visible
  <1>30. ASSUME NEW t \in Threads, DrainRelease(t) PROVE Goal
    BY <1>30, HiddenStep DEF DrainRelease, Visible
  <1>31. ASSUME NEW t \in Threads, DrainRead(t) PROVE Goal
    BY <1>31, HiddenStep DEF DrainRead, Visible
  <1>32. ASSUME NEW t \in Threads, DrainFinish(t) PROVE Goal
    BY <1>32, HiddenStep DEF DrainFinish, Visible
  <1>33. CASE CloseQueue("worker")
    <2>1. open /\ ~running
      BY <1>33 DEF CloseQueue, Inv, Lives, Asked, Reporting, Session, Alone, Capturing,
        Opened, Draining
    <2>2. Contract!Disengage
      BY <1>33, <2>1 DEF CloseQueue, Contract!Disengage, captureBar, callBar, ownerVars
    <2> QED BY <2>2 DEF Contract!Next, Contract!Backend
  <1>34. CASE CloseQueue("owner")
    BY <1>34 DEF CloseQueue, Inv, Lives, Asked, Reporting, Session, Alone, Capturing,
      Opened, Draining
  <1>35. ASSUME NEW t \in Threads, RemoveRules(t) PROVE Goal
    BY <1>35, HiddenStep DEF RemoveRules, Visible
  <1>36. ASSUME NEW t \in Threads, SessionStopped(t) PROVE Goal
    BY <1>36, HiddenStep DEF SessionStopped, Visible
  <1>37. ASSUME NEW c \in Calls, Issue(c) PROVE Goal
    <2>1. call = NoCall
      BY <1>37 DEF Issue, Inv, Asked
    <2>2. \E d \in Contract!Calls : Contract!Issue(d)
      <3>1. CASE c \in Contract!Calls
        <4>1. Contract!Issue(c)
          BY <1>37, <2>1, <3>1 DEF Issue, Contract!Issue, NoResult, NoCall,
            Contract!NoCall, captureBar, callBar,
            Contract!Calls, Contract!StartCall, Contract!ApplyCall, Contract!StopCall, sharedVars, sessionVars
        <4> QED BY <3>1, <4>1
      <3>2. CASE c = [op |-> "destroy"]
        <4>1. Contract!Issue(Contract!StopCall)
          BY <1>37, <2>1, <3>2 DEF Issue, Contract!Issue, NoResult, NoCall,
            Contract!NoCall, captureBar, callBar,
            Contract!StopCall, sharedVars, sessionVars
        <4> QED BY <4>1 DEF Contract!Calls
      <3> QED BY <3>1, <3>2 DEF Calls
    <2> QED BY <2>2 DEF Contract!Next
  <1>38. ASSUME NEW p \in Packets, KernelQueues(p) PROVE Goal
    BY <1>38, HiddenStep DEF KernelQueues, Visible
  <1>39. CASE UNCHANGED vars
    BY HiddenStep, <1>39 DEF vars, Visible
  <1> QED
    BY <1>1, <1>2, <1>3, <1>4, <1>5, <1>6, <1>7, <1>8, <1>9, <1>10, <1>11,
      <1>12, <1>13, <1>14, <1>15, <1>16, <1>17, <1>18, <1>19, <1>20, <1>21,
      <1>22, <1>23, <1>24, <1>25, <1>26, <1>27, <1>28, <1>29, <1>30, <1>31,
      <1>32, <1>33, <1>34, <1>35, <1>36, <1>37, <1>38, <1>39 DEF Next, Owner,
      Worker, WorkerRuns, SessionStep

(* The backend keeps the contract of core/network.h: a failed start has    *)
(* cleaned up, a failed apply changes nothing, stop has released           *)
(* everything when it returns, and an accepted change is what is captured. *)
THEOREM BackendImplementsContract == Spec => ImplementsContract
  <1>1. Init => Contract!Init
    BY DEF Init, Contract!Init, Contract!Stopped, captureBar, callBar, NoCall,
      Contract!NoCall,
      NoResult
  <1>2. Inv /\ [Next]_vars => [Contract!Next]_Contract!vars
    BY ContractStep
  <1> QED
    BY <1>1, <1>2, Invariant, PTL DEF Spec, ImplementsContract, Contract!Spec
==============================
