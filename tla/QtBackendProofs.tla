--------------------------- MODULE QtBackendProofs ---------------------------
(* CaptureIsAcknowledged for every set of settings. The channel carries no
   request ids, so the invariant says where the one line of a request may be
   and, at each place, how the capture relates to what the interface will
   learn of it. *)
EXTENDS QtBackend, TLAPS

(* The interface's flag and the last acknowledged settings describe the capture. *)
Told == Capturing => running_ /\ capture = acknowledged

(* What a capture must be once the pending request was executed with outcome ok. *)
Done(ok) ==
    Capturing =>
        /\ request.command # "stop"
        /\ request.command = "start" => ok /\ capture = request.lag
        /\ request.command = "apply" => capture = IF ok THEN request.lag ELSE acknowledged
        /\ request.command = "status" => capture = acknowledged

Idle == stdin = <<>> /\ stdout = <<>> /\ helper \in {"idle", "closing", "gone"} /\ Told

(* A stop that is refused may have cleared the flag already. *)
Unread ==
    /\ stdin = <<request>> /\ stdout = <<>> /\ helper # "answering"
    /\ Capturing => request.command # "start" /\ capture = acknowledged
Answering == stdin = <<>> /\ stdout = <<>> /\ helper = "answering" /\ Done(result)
Replied ==
    /\ stdin = <<>> /\ helper \in {"idle", "closing", "gone"}
    /\ \E r \in Reply: stdout = <<r>> /\ (Capturing => r.running) /\ Done(r.ok)
Lost == stdin = <<>> /\ helper = "gone"

OpenChannel ==
    channel = "open" =>
        /\ pc \in {"idle", "waiting"} /\ process = "Running"
        /\ pc = "idle" => Idle
        /\ pc = "waiting" => Unread \/ Answering \/ Replied \/ Lost
Native == Capturing => failure = "none" /\ helper \in {"idle", "answering", "closing"}
HelperLife ==
    /\ process = "NotRunning" => helper = "gone"
    /\ helper = "prompt" => stdout = <<>>
Inv == TypeOK /\ OpenChannel /\ Native /\ HelperLife

(* Sequences of no line and of one. *)
LEMMA OneLine ==
    ASSUME NEW S, NEW x \in S
    PROVE  /\ <<>> \in Seq(S) /\ Len(<<>>) = 0 /\ Append(<<>>, x) = <<x>>
           /\ <<x>> \in Seq(S) /\ Len(<<x>>) = 1 /\ Head(<<x>>) = x /\ Tail(<<x>>) = <<>> /\ <<x>> # <<>>
    OBVIOUS

LEMMA NoLine ==
    /\ <<>> \in Seq(Request) /\ <<>> \in Seq(Reply) /\ Len(<<>>) = 0
    OBVIOUS

LEMMA Requests ==
    /\ status \in Request
    /\ \A r \in Request: r.command \in {"start", "apply", "stop", "status"} /\ (r.command \in {"start", "apply"} => r.lag \in Lags)
    BY DEF status, Request

LEMMA Initial == Init => Inv
<1> SUFFICES ASSUME Init PROVE Inv
    OBVIOUS
<1>1. status.command = "status"
    BY DEF status
<1>2. TypeOK
    <2>1. helper # "answering" /\ stdin \in Seq(Request) /\ stdout \in Seq(Reply) /\ Len(stdin) = 0 /\ Len(stdout) = 0
        BY NoLine DEF Init
    <2>2. request \in Request
        BY Requests DEF Init
    <2>3. Len(stdin) + Len(stdout) + (IF helper = "answering" THEN 1 ELSE 0) <= 1
        BY <2>1
    <2> QED BY <2>1, <2>2, <2>3 DEF Init, TypeOK
<1>3. OpenChannel /\ Native /\ HelperLife
    BY <1>1 DEF Init, OpenChannel, Native, HelperLife, Capturing
<1> QED
    BY <1>2, <1>3 DEF Inv

(* A request is sent, to a helper launched for it, to the one there is, or to
   nobody. *)
LEMMA Sent ==
    ASSUME Inv, NEW r \in Request, r.command = "start" => ~running_, Send(r)
    PROVE  Inv'
<1>1. CASE LaunchFails
    BY <1>1 DEF LaunchFails, vars, gui, native, Inv, TypeOK, OpenChannel, Native, HelperLife,
        Capturing, Told, Done, Idle, Unread, Answering, Replied, Lost
<1>2. CASE Launch(r) /\ pc' = "waiting" /\ request' = r /\ UNCHANGED <<running_, acknowledged>>
    <2>1. ~Capturing /\ ~Capturing' /\ UNCHANGED native
        BY <1>2 DEF Inv, Native, HelperLife, Launch, Capturing, native
    <2>2. stdin' \in Seq(Request) /\ Len(stdin') = 1 /\ stdout' \in Seq(Reply) /\ Len(stdout') = 0
        BY <1>2, OneLine DEF Launch
    <2>3. TypeOK'
        BY <1>2, <2>1, <2>2 DEF Inv, TypeOK, Launch, native
    <2>4. OpenChannel'
        BY <1>2, <2>1 DEF Launch, OpenChannel, Unread, Told
    <2>5. Native' /\ HelperLife'
        BY <1>2, <2>1 DEF Launch, Native, HelperLife
    <2> QED BY <2>3, <2>4, <2>5 DEF Inv
<1>3. CASE Write(r) /\ pc = "idle" /\ pc' = "waiting" /\ request' = r /\ UNCHANGED <<running_, acknowledged>>
    <2>1. Capturing' <=> Capturing
        BY <1>3 DEF Write, native, Capturing
    <2>2. CASE channel = "open"
        <3>1. stdin = <<>> /\ stdout = <<>> /\ helper \in {"idle", "closing", "gone"} /\ Told
            BY <1>3, <2>2 DEF Inv, OpenChannel, Idle
        <3>2. stdin' = <<r>> /\ stdout' = <<>> /\ Len(stdin') = 1 /\ Len(stdout') = 0 /\ stdin' \in Seq(Request)
            BY <1>3, <2>2, <3>1, OneLine DEF Write
        <3>3. TypeOK'
            BY <1>3, <3>1, <3>2 DEF Inv, TypeOK, Write, native
        <3>4. OpenChannel'
            BY <1>3, <2>1, <3>1, <3>2 DEF Write, Inv, OpenChannel, Unread, Told, native
        <3>5. Native' /\ HelperLife'
            BY <1>3, <2>1 DEF Write, Inv, Native, HelperLife, native
        <3> QED BY <3>3, <3>4, <3>5 DEF Inv
    <2>3. CASE channel # "open"
        BY <1>3, <2>1, <2>3 DEF Write, Inv, TypeOK, OpenChannel, Native, HelperLife, native
    <2> QED BY <2>2, <2>3
<1> QED BY <1>1, <1>2, <1>3 DEF Send

(* Types, when a stop only clears the flag. *)
LEMMA Cleared ==
    ASSUME TypeOK, running_' = FALSE,
           UNCHANGED <<pc, request, process, channel, acknowledged, stdin, stdout, helper, result, native>>
    PROVE  TypeOK'
<1>1. stdin' = stdin /\ stdout' = stdout /\ helper' = helper
    OBVIOUS
<1>2. Len(stdin') + Len(stdout') + (IF helper' = "answering" THEN 1 ELSE 0) <= 1
    BY <1>1 DEF TypeOK
<1>3. stdin' \in Seq(Request) /\ stdout' \in Seq(Reply)
    BY <1>1 DEF TypeOK
<1>4. /\ pc' = pc /\ request' = request /\ process' = process /\ channel' = channel
      /\ result' = result /\ acknowledged' = acknowledged
      /\ capture' = capture /\ failure' = failure
    BY DEF native
<1>5. running_' \in BOOLEAN
    OBVIOUS
<1> QED BY <1>1, <1>2, <1>3, <1>4, <1>5 DEF TypeOK

(* Every step of interface, helper, native backend and user keeps it. *)
LEMMA Step == Inv /\ [Next]_vars => Inv'
<1> SUFFICES ASSUME Inv, [Next]_vars PROVE Inv'
    OBVIOUS
<1> USE NoLagIsNoSetting DEF Inv, TypeOK, OpenChannel, Native, HelperLife, Capturing, Told,
    Done, Idle, Unread, Answering, Replied, Lost, gui, native, status, Request, Reply
<1>1. CASE start
    BY <1>1, Sent, Requests DEF start
<1>2. CASE apply
    BY <1>2, Sent, Requests DEF apply
<1>3. CASE stop
    <2>1. CASE process = "Running" /\ Send([command |-> "stop", lag |-> NoLag])
        BY <2>1, Sent
    <2>2. CASE /\ running_' = FALSE
               /\ UNCHANGED <<pc, request, process, channel, acknowledged, stdin, stdout, helper, result, native>>
               /\ \/ process = "NotRunning"
                  \/ pc = "waiting"
        <3>1. TypeOK' /\ Native' /\ HelperLife'
            <4>1. TypeOK'
                <5>1. TypeOK
                    OBVIOUS
                <5> HIDE DEF TypeOK
                <5> QED BY <2>2, <5>1, Cleared
            <4>2. Native' /\ HelperLife'
                BY <2>2
            <4> QED BY <4>1, <4>2
        <3>2. CASE process = "NotRunning"
            BY <2>2, <3>1, <3>2
        <3>3. CASE pc = "waiting"
            BY <2>2, <3>1, <3>3
        <3> QED BY <2>2, <3>2, <3>3
    <2> QED BY <1>3, <2>1, <2>2 DEF stop
<1>4. CASE Poll
    BY <1>4, Sent, Requests DEF Poll
<1>5. CASE Answered
    BY <1>5 DEF Answered, Return
<1>6. CASE TimedOut
    BY <1>6 DEF TimedOut
<1>7. CASE Disconnected
    BY <1>7 DEF Disconnected, Return
<1>8. CASE Unheard
    BY <1>8 DEF Unheard
<1>9. CASE Finished
    <2>1. stdout' = <<>> /\ stdout' \in Seq(Reply) /\ Len(stdout') = 0
        BY <1>9, NoLine DEF Finished
    <2>2. CASE pc = "idle"
        <3>1. running_' = FALSE /\ process' = "NotRunning" /\ channel' = "closed"
              /\ UNCHANGED <<pc, request, acknowledged, stdin, helper, result, native>> /\ helper = "gone"
            BY <1>9, <2>2 DEF Finished
        <3>2. Len(stdin') + Len(stdout') + (IF helper' = "answering" THEN 1 ELSE 0) <= 1
            BY <2>1, <3>1
        <3>3. TypeOK'
            BY <2>1, <3>1, <3>2
        <3> QED BY <2>1, <2>2, <3>1, <3>3
    <2>3. CASE pc = "waiting" /\ stdout # <<>>
        BY <1>9, <2>1, <2>3 DEF Finished, Return
    <2>4. CASE pc # "idle" /\ ~(pc = "waiting" /\ stdout # <<>>)
        <3>1. pc' = "idle" /\ running_' = FALSE /\ process' = "NotRunning" /\ channel' = "closed"
              /\ UNCHANGED <<request, acknowledged, stdin, helper, result, native>> /\ helper = "gone"
            BY <1>9, <2>4 DEF Finished, Return
        <3>2. Len(stdin') + Len(stdout') + (IF helper' = "answering" THEN 1 ELSE 0) <= 1
            BY <2>1, <3>1
        <3>3. TypeOK'
            BY <2>1, <3>1, <3>2
        <3> QED BY <2>1, <3>1, <3>3
    <2> QED BY <2>2, <2>3, <2>4
<1>10. CASE Gone
    BY <1>10 DEF Gone
<1>11. CASE Authorized
    <2>1. CASE helper' = "idle" /\ UNCHANGED <<stdin, stdout>>
        BY <1>11, <2>1 DEF Authorized
    <2>2. CASE helper' = "gone" /\ stdin' = <<>> /\ stdout' = <<[ok |-> FALSE, running |-> FALSE]>>
        <3>1. [ok |-> FALSE, running |-> FALSE] \in Reply
            OBVIOUS
        <3>2. stdin' \in Seq(Request) /\ Len(stdin') = 0 /\ stdout' \in Seq(Reply) /\ Len(stdout') = 1
            BY <2>2, <3>1, OneLine
        <3> QED BY <1>11, <2>2, <3>2 DEF Authorized
    <2> QED BY <1>11, <2>1, <2>2 DEF Authorized
<1>12. CASE Denied
    BY <1>12 DEF Denied
<1>13. CASE Execute
    <2>1. ~(helper = "answering") /\ Len(stdin) = 1 /\ Len(stdout) = 0 /\ stdin' \in Seq(Request) /\ Len(stdin') = 0
        <3>1. stdin # <<>> /\ helper = "idle" /\ stdin \in Seq(Request) /\ stdin' = Tail(stdin)
            BY <1>13 DEF Execute
        <3>2. Len(stdin) \in Nat /\ Len(stdout) \in Nat /\ Len(stdin) # 0 /\ stdin' \in Seq(Request) /\ Len(stdin') = Len(stdin) - 1
            BY <3>1
        <3>3. Len(stdin) + Len(stdout) <= 1
            BY <3>1
        <3> QED BY <3>1, <3>2, <3>3
    <2>2. CASE Head(stdin).command = "start" /\ Started(Head(stdin).lag)
        <3>1. helper' = "answering" /\ UNCHANGED <<gui, stdout>> /\ helper = "idle"
            BY <1>13 DEF Execute
        <3>2. TypeOK'
            <4>1. Head(stdin) \in Request
                BY <2>1
            <4>2. Head(stdin).lag \in Lags
                BY <4>1, <2>2, Requests
            <4>3. result' \in BOOLEAN /\ capture' \in Lags \cup {NoLag} /\ failure' \in {"none", "due", "recorded"}
                BY <4>2, <2>2 DEF Started
            <4> QED BY <2>1, <3>1, <4>3
        <3>3. OpenChannel'
            BY <2>1, <2>2, <3>1, <1>13 DEF Execute, Started
        <3>4. Native' /\ HelperLife'
            BY <2>2, <3>1 DEF Started
        <3> QED BY <3>2, <3>3, <3>4
    <2>3. CASE Head(stdin).command = "apply" /\ Applied(Head(stdin).lag)
        <3>1. helper' = "answering" /\ UNCHANGED <<gui, stdout>> /\ helper = "idle"
            BY <1>13 DEF Execute
        <3>2. TypeOK'
            <4>1. Head(stdin) \in Request
                BY <2>1
            <4>2. Head(stdin).lag \in Lags
                BY <4>1, <2>3, Requests
            <4>3. result' \in BOOLEAN /\ capture' \in Lags \cup {NoLag} /\ failure' \in {"none", "due", "recorded"}
                BY <4>2, <2>3 DEF Applied
            <4> QED BY <2>1, <3>1, <4>3
        <3>3. OpenChannel'
            BY <2>1, <2>3, <3>1, <1>13 DEF Execute, Applied
        <3>4. Native' /\ HelperLife'
            BY <2>3, <3>1 DEF Applied
        <3> QED BY <3>2, <3>3, <3>4
    <2>4. CASE Head(stdin).command = "stop" /\ Stopped
        BY <1>13, <2>1, <2>4 DEF Execute, Stopped
    <2>5. CASE Head(stdin).command = "status" /\ result' = TRUE /\ UNCHANGED native
        BY <1>13, <2>1, <2>5 DEF Execute
    <2> QED BY <1>13, <2>2, <2>3, <2>4, <2>5 DEF Execute
<1>14. CASE Answer
    <2>1. CASE pc = "gone"
        BY <1>14, <2>1 DEF Answer
    <2>2. CASE pc # "gone"
        <3> DEFINE r == [ok |-> result /\ failure # "recorded", running |-> Capturing]
        <3>1. stdin = <<>> /\ stdout = <<>>
            BY <1>14 DEF Answer
        <3>0. r \in Reply
            OBVIOUS
        <3> HIDE DEF r
        <3>2. stdout' = Append(<<>>, r)
            BY <1>14, <2>2, <3>1 DEF Answer, r
        <3>5. stdout' = <<r>> /\ stdout' \in Seq(Reply) /\ Len(stdout') = 1
            BY <3>0, <3>2, OneLine
        <3>3. TypeOK'
            BY <1>14, <2>2, <3>1, <3>5 DEF Answer
        <3>4. channel = "open" => Replied'
            BY <1>14, <2>2, <3>0, <3>1, <3>5 DEF Answer, r
        <3> QED BY <1>14, <2>2, <3>3, <3>4 DEF Answer
    <2> QED BY <2>1, <2>2
<1>15. CASE EndOfInput
    BY <1>15 DEF EndOfInput
<1>16. CASE Destroy
    BY <1>16 DEF Destroy
<1>17. CASE Interrupted
    BY <1>17 DEF Interrupted
<1>18. CASE Killed
    BY <1>18 DEF Killed
<1>19. CASE CaptureEnds
    BY <1>19 DEF CaptureEnds
<1>20. CASE Recorded
    BY <1>20 DEF Recorded
<1>21. CASE UNCHANGED vars
    BY <1>21 DEF vars
<1> QED
    BY <1>1, <1>2, <1>3, <1>4, <1>5, <1>6, <1>7, <1>8, <1>9, <1>10, <1>11, <1>12, <1>13, <1>14, <1>15,
       <1>16, <1>17, <1>18, <1>19, <1>20, <1>21 DEF Next, Caller, Helper

LEMMA Invariant == Spec => []Inv
<1>1. Init => Inv BY Initial
<1>2. Inv /\ [Next]_vars => Inv' BY Step
<1> QED BY <1>1, <1>2, PTL DEF Spec

(* Every variable has its type, and at most one line is under way between
   interface and helper, whatever was given up before. *)
THEOREM OneLineUnderWay == Spec => []TypeOK
<1>1. Inv => TypeOK BY DEF Inv
<1> QED BY <1>1, Invariant, PTL

(* On an open channel with no request pending, the helper captures only with
   the settings acknowledged last, and the interface says it is running. *)
THEOREM AcknowledgedCapture == Spec => []CaptureIsAcknowledged
<1>1. Inv => CaptureIsAcknowledged
    BY DEF Inv, OpenChannel, Idle, Told, CaptureIsAcknowledged
<1> QED BY <1>1, Invariant, PTL
==============================================================================
