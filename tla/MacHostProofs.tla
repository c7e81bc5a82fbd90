---------------------------- MODULE MacHostProofs ----------------------------
(***************************************************************************)
(* Proofs about MacHost: what the host shows when it is idle, and that an  *)
(* answered Stop has let everything go, for any number of packets,         *)
(* connections, presets and delays.                                        *)
(*                                                                         *)
(* Requests, the answers a connection's queue prepares and the blocks on   *)
(* their way to the host's main queue are three places; the invariant says *)
(* where the one command of the host is, and what is true of the capture   *)
(* at each place.                                                          *)
(***************************************************************************)
EXTENDS MacHost, SequenceTheorems, TLAPS

Commands == {"configure", "stop"}
Kinds == Commands \cup {"heartbeat"}

RequestsOn(c) ==
  {r \in [kind : Kinds, on : {c}, setting : Settings \cup {None}, start : BOOLEAN,
          current : BOOLEAN] :
     r.kind = "configure" => r.setting \in Settings}

AnswersOn(c) ==
  [kind : Kinds, on : {c}, current : {TRUE}, setting : Settings \cup {None},
   failed : BOOLEAN, active : BOOLEAN]

Typed ==
  /\ lag \in Settings \cup {None}
  /\ held \subseteq Packets /\ age \in [Packets -> Nat]
  /\ delivering \in [Threads -> SUBSET Packets]
  /\ DOMAIN link = Connections /\ DOMAIN requests = Connections /\ DOMAIN finishing = Connections
  /\ \A c \in Connections :
       /\ link[c] \in {"unused", "new", "open", "cut"}
       /\ requests[c] \in Seq(RequestsOn(c))
       /\ finishing[c] \in AnswersOn(c) \cup {NoAnswer}
       /\ finishing[c].kind # "heartbeat"
  /\ \A m \in mail : \E c \in Connections : m = LostMail(c) \/ m \in AnswersOn(c)
  /\ client \in Connections \cup {Other, None}
  /\ connection \in Connections \cup {None}

(* Answers on connection c: on their way to the host, or not yet sent.     *)
Replies(c) == {m \in mail : m.kind # "lost" /\ m.on = c}
Answers(c) == {finishing[c]} \cup Replies(c)

(* The host's end, the provider's end and the loss of a connection.        *)
Ends(c) ==
  /\ link[c] \in {"new", "open"} => c = connection
  /\ LostMail(c) \in mail => link[c] \in {"cut", "unused"}
  /\ link[c] = "unused" => requests[c] = <<>>
  /\ link[c] = "open" => client = c
  /\ client = c => link[c] \in {"open", "cut"}
  /\ link[c] = "new" => finishing[c] = NoAnswer /\ Replies(c) = {}

Links ==
  /\ \A c \in Connections : Ends(c)
  /\ running => client \in Connections
  /\ ~running => held = {}

NoneOf(q, kinds) == \A i \in 1 .. Len(q) : q[i].kind \notin kinds

(* What is asked behind a Stop that is still of interest are heartbeats.   *)
StopIsLast(q) ==
  \A i, j \in 1 .. Len(q) :
    i < j /\ q[i].current /\ q[i].kind = "stop" => q[j].kind # "configure"

(* The answer to a Stop that was obeyed: nothing will start a delay again  *)
(* before the host hears of it.                                            *)
StoppingOn(c) ==
  /\ StopIsLast(requests[c])
  /\ \A m \in Answers(c) :
       c = client /\ m.kind = "stop" /\ ~m.failed =>
         ~running /\ NoneOf(requests[c], {"configure"})
  /\ \A m \in Replies(c) :
       c = client /\ m.kind = "stop" /\ ~m.failed => InHand = {}

Stopping == \A c \in Connections : StoppingOn(c)

Base == Typed /\ Links

-----------------------------------------------------------------------------
(* With one approval of the system at a time, connection c carries one     *)
(* command at most, in one place, and the buttons stay disabled until it   *)
(* is answered; it is about the preset that is shown.                      *)
OneCommand(q) ==
  \A i, j \in 1 .. Len(q) : q[i].kind \in Commands /\ q[j].kind \in Commands => i = j

About(r) == r.kind = "configure" => shown[1] = r.setting[1]

Replied(c) == {m \in Replies(c) : m.kind \in Commands}

Single(c) ==
  /\ OneCommand(requests[c])
  /\ \A i \in 1 .. Len(requests[c]) :
       requests[c][i].kind \in Commands => requests[c][i].current /\ About(requests[c][i])
  /\ \A m \in Answers(c) : About(m)
  /\ \A m, n \in Replied(c) : m = n
  /\ NoneOf(requests[c], Commands) \/ (finishing[c] = NoAnswer /\ Replied(c) = {})
  /\ finishing[c] = NoAnswer \/ Replied(c) = {}

Silent(c) == NoneOf(requests[c], Commands) /\ finishing[c] = NoAnswer /\ Replied(c) = {}

Beats(q) == \E i \in 1 .. Len(q) : q[i].current /\ q[i].kind = "heartbeat"

(* While an answer to configure is on its way, it says what is in force.   *)
Agrees(c) ==
  /\ running =>
       \/ hostRunning /\ shown = lag
       \/ \E m \in Answers(c) : m.kind = "configure" /\ ~m.failed
  /\ \A m \in Answers(c) :
       m.kind = "configure" /\ ~m.failed /\ running => m.active /\ m.setting = lag
  /\ \A m \in Replies(c) : m.kind = "heartbeat" => ~running

AgreementOn(k) ==
  /\ \A c \in Connections : c # k => Replies(c) = {}
  /\ Single(k)
  /\ busy \/ Silent(k)
  /\ Beats(requests[k]) \/ (\E m \in Replies(k) : m.kind = "heartbeat") => Silent(k)
  /\ link[k] = "open" => Agrees(k)

Agreement == connection # None => AgreementOn(connection)

-----------------------------------------------------------------------------
(* Messages.                                                               *)

LEMMA Shapes ==
  /\ NoAnswer.kind = "none"
  /\ \A c : LostMail(c).kind = "lost" /\ LostMail(c).on = c
  /\ \A c : \A m \in AnswersOn(c) :
       /\ m.kind \in Kinds /\ m.on = c /\ m.current /\ m # NoAnswer
       /\ m.setting \in Settings \cup {None}
       /\ m.failed \in BOOLEAN /\ m.active \in BOOLEAN
  /\ \A c : \A r \in RequestsOn(c) :
       /\ r.kind \in Kinds /\ r.on = c /\ r.setting \in Settings \cup {None}
       /\ r.current \in BOOLEAN /\ r.start \in BOOLEAN
       /\ r.kind = "configure" => r.setting \in Settings
<1>1. NoAnswer.kind = "none"
  BY DEF NoAnswer
<1>2. \A c : LostMail(c).kind = "lost" /\ LostMail(c).on = c
  BY DEF LostMail
<1>3. ASSUME NEW c, NEW m \in AnswersOn(c)
      PROVE  /\ m.kind \in Kinds /\ m.on = c /\ m.current /\ m # NoAnswer
             /\ m.setting \in Settings \cup {None}
             /\ m.failed \in BOOLEAN /\ m.active \in BOOLEAN
  <2>1. m.kind \in Kinds
    BY DEF AnswersOn
  <2>. QED BY <1>1, <2>1 DEF AnswersOn, Kinds, Commands
<1>4. ASSUME NEW c, NEW r \in RequestsOn(c)
      PROVE  /\ r.kind \in Kinds /\ r.on = c /\ r.setting \in Settings \cup {None}
             /\ r.current \in BOOLEAN /\ r.start \in BOOLEAN
             /\ r.kind = "configure" => r.setting \in Settings
  BY DEF RequestsOn
<1>. QED BY <1>1, <1>2, <1>3, <1>4

LEMMA AnswerTyped ==
  ASSUME NEW c, NEW r \in RequestsOn(c), NEW failed \in BOOLEAN, NEW active \in BOOLEAN
  PROVE  /\ Current(Answer(r, failed, active)) \in AnswersOn(c) \cup {NoAnswer}
         /\ r.current =>
              /\ Current(Answer(r, failed, active)).kind = r.kind
              /\ Current(Answer(r, failed, active)).failed = failed
              /\ Current(Answer(r, failed, active)).active = active
              /\ Current(Answer(r, failed, active)).setting = r.setting
         /\ ~r.current => Current(Answer(r, failed, active)) = NoAnswer
<1>1. Answer(r, failed, active).current = r.current
  BY DEF Answer
<1>2. r.current => Answer(r, failed, active) \in AnswersOn(c)
  BY DEF Answer, RequestsOn, AnswersOn
<1>. QED BY <1>1, <1>2 DEF Current, Answer

LEMMA Delayed ==
  /\ \A c \in Connections : c \in Threads
  /\ "timer" \in Threads /\ "filter" \in Threads
  BY DEF Threads

-----------------------------------------------------------------------------
(* Queues of requests.                                                     *)

Older(q) == [i \in DOMAIN q |-> [q[i] EXCEPT !.current = FALSE]]

LEMMA QueueHead ==
  ASSUME NEW c, NEW q \in Seq(RequestsOn(c)), q # <<>>
  PROVE  /\ 1 \in 1 .. Len(q) /\ Head(q) = q[1] /\ q[1] \in RequestsOn(c)
         /\ Tail(q) \in Seq(RequestsOn(c))
         /\ Len(Tail(q)) \in Nat
         /\ \A i \in 1 .. Len(Tail(q)) : i + 1 \in 1 .. Len(q) /\ i # 0 /\ Tail(q)[i] = q[i + 1]
<1>1. Len(q) \in Nat /\ Len(q) # 0
  OBVIOUS
<1>2. /\ Tail(q) \in Seq(RequestsOn(c)) /\ Len(Tail(q)) = Len(q) - 1
      /\ \A i \in 1 .. Len(Tail(q)) : Tail(q)[i] = q[i + 1]
  BY HeadTailProperties
<1>. QED BY <1>1, <1>2

LEMMA QueueTail ==
  ASSUME NEW c, NEW q \in Seq(RequestsOn(c)), q # <<>>
  PROVE  /\ \A kinds : NoneOf(q, kinds) => NoneOf(Tail(q), kinds)
         /\ StopIsLast(q) => StopIsLast(Tail(q))
         /\ OneCommand(q) => OneCommand(Tail(q))
         /\ Beats(Tail(q)) => Beats(q)
         /\ OneCommand(q) /\ q[1].kind \in Commands => NoneOf(Tail(q), Commands)
         /\ StopIsLast(q) /\ q[1].current /\ q[1].kind = "stop" => NoneOf(Tail(q), {"configure"})
<1>1. /\ 1 \in 1 .. Len(q) /\ Len(Tail(q)) \in Nat
      /\ \A i \in 1 .. Len(Tail(q)) : i + 1 \in 1 .. Len(q) /\ i # 0 /\ Tail(q)[i] = q[i + 1]
  BY QueueHead
<1>2. \A kinds : NoneOf(q, kinds) => NoneOf(Tail(q), kinds)
  BY <1>1 DEF NoneOf
<1>3. StopIsLast(q) => StopIsLast(Tail(q))
  BY <1>1 DEF StopIsLast
<1>4. OneCommand(q) => OneCommand(Tail(q))
  BY <1>1 DEF OneCommand
<1>5. Beats(Tail(q)) => Beats(q)
  BY <1>1 DEF Beats
<1>6. OneCommand(q) /\ q[1].kind \in Commands => NoneOf(Tail(q), Commands)
  BY <1>1 DEF OneCommand, NoneOf
<1>7. StopIsLast(q) /\ q[1].current /\ q[1].kind = "stop" => NoneOf(Tail(q), {"configure"})
  BY <1>1 DEF StopIsLast, NoneOf
<1>. QED BY <1>2, <1>3, <1>4, <1>5, <1>6, <1>7

LEMMA QueueEmpty ==
  /\ \A c : <<>> \in Seq(RequestsOn(c))
  /\ \A kinds : NoneOf(<<>>, kinds)
  /\ StopIsLast(<<>>) /\ OneCommand(<<>>) /\ ~Beats(<<>>)
  BY DEF NoneOf, StopIsLast, OneCommand, Beats

LEMMA QueueOlder ==
  ASSUME NEW c, NEW q \in Seq(RequestsOn(c))
  PROVE  /\ Older(q) \in Seq(RequestsOn(c)) /\ Len(Older(q)) = Len(q) /\ Len(q) \in Nat
         /\ \A i \in 1 .. Len(q) : ~Older(q)[i].current /\ Older(q)[i].kind = q[i].kind
         /\ \A kinds : NoneOf(q, kinds) => NoneOf(Older(q), kinds)
         /\ StopIsLast(Older(q)) /\ ~Beats(Older(q))
         /\ q = <<>> => Older(q) = <<>>
<1>1. DOMAIN q = 1 .. Len(q) /\ Len(q) \in Nat
  OBVIOUS
<1>2. \A i \in 1 .. Len(q) : q[i] \in RequestsOn(c)
  OBVIOUS
<1>3. \A i \in 1 .. Len(q) :
        Older(q)[i] \in RequestsOn(c) /\ ~Older(q)[i].current /\ Older(q)[i].kind = q[i].kind
  BY <1>1, <1>2 DEF Older, RequestsOn
<1>4. Older(q) \in [1 .. Len(q) -> RequestsOn(c)]
  BY <1>1, <1>3 DEF Older
<1>5. Older(q) \in Seq(RequestsOn(c))
  BY <1>1, <1>4, SeqDef
<1>6. Len(Older(q)) = Len(q)
  BY <1>1, <1>4, <1>5, LenProperties
<1>7. \A kinds : NoneOf(q, kinds) => NoneOf(Older(q), kinds)
  BY <1>3, <1>6 DEF NoneOf
<1>8. StopIsLast(Older(q)) /\ ~Beats(Older(q))
  BY <1>3, <1>6 DEF StopIsLast, Beats
<1>9. q = <<>> => Older(q) = <<>>
  BY <1>5, <1>6
<1>. QED BY <1>1, <1>3, <1>5, <1>6, <1>7, <1>8, <1>9

LEMMA QueueAppend ==
  ASSUME NEW c, NEW q \in Seq(RequestsOn(c)), NEW r \in RequestsOn(c)
  PROVE  /\ Append(q, r) \in Seq(RequestsOn(c))
         /\ Len(Append(q, r)) = Len(q) + 1 /\ Len(q) \in Nat
         /\ \A i \in 1 .. Len(q) : Append(q, r)[i] = q[i]
         /\ Append(q, r)[Len(q) + 1] = r
         /\ \A i \in 1 .. Len(Append(q, r)) : i \in 1 .. Len(q) \/ i = Len(q) + 1
         /\ \A kinds : NoneOf(q, kinds) /\ r.kind \notin kinds => NoneOf(Append(q, r), kinds)
         /\ StopIsLast(q) /\ r.kind # "configure" => StopIsLast(Append(q, r))
         /\ OneCommand(q) /\ r.kind \notin Commands => OneCommand(Append(q, r))
         /\ NoneOf(q, Commands) => OneCommand(Append(q, r))
         /\ Beats(Append(q, r)) => Beats(q) \/ (r.current /\ r.kind = "heartbeat")
<1>. DEFINE s == Append(q, r)
<1>1. /\ s \in Seq(RequestsOn(c)) /\ Len(s) = Len(q) + 1 /\ Len(q) \in Nat
      /\ \A i \in 1 .. Len(q) : s[i] = q[i]
      /\ s[Len(q) + 1] = r
  OBVIOUS
<1>. HIDE DEF s
<1>2. \A i \in 1 .. Len(s) : i \in 1 .. Len(q) \/ i = Len(q) + 1
  BY <1>1
<1>3. \A kinds : NoneOf(q, kinds) /\ r.kind \notin kinds => NoneOf(s, kinds)
  BY <1>1, <1>2 DEF NoneOf
<1>4. StopIsLast(q) /\ r.kind # "configure" => StopIsLast(s)
  BY <1>1, <1>2 DEF StopIsLast
<1>5. OneCommand(q) /\ r.kind \notin Commands => OneCommand(s)
  BY <1>1, <1>2 DEF OneCommand
<1>6. NoneOf(q, Commands) => OneCommand(s)
  BY <1>1, <1>2 DEF OneCommand, NoneOf
<1>7. Beats(s) => Beats(q) \/ (r.current /\ r.kind = "heartbeat")
  BY <1>1, <1>2 DEF Beats
<1>. QED BY <1>1, <1>2, <1>3, <1>4, <1>5, <1>6, <1>7 DEF s

(* A command takes its place behind requests whose answers are not read.   *)
LEMMA OlderAppend ==
  ASSUME NEW c, NEW q \in Seq(RequestsOn(c)), NEW r \in RequestsOn(c)
  PROVE  StopIsLast(Append(Older(q), r))
<1>1. /\ Older(q) \in Seq(RequestsOn(c)) /\ Len(Older(q)) \in Nat
      /\ \A i \in 1 .. Len(Older(q)) : ~Older(q)[i].current
  BY QueueOlder
<1>2. /\ Len(Append(Older(q), r)) = Len(Older(q)) + 1
      /\ \A i \in 1 .. Len(Older(q)) : Append(Older(q), r)[i] = Older(q)[i]
  BY <1>1, QueueAppend
<1>. QED BY <1>1, <1>2 DEF StopIsLast

-----------------------------------------------------------------------------
(* Packets.                                                                *)

LEMMA NothingInHand ==
  InHand = {} <=> held = {} /\ \A t \in Threads : delivering[t] = {}
  BY DEF InHand

LEMMA TickMoves ==
  ASSUME Typed, NEW t \in Threads, NEW setting \in Settings \cup {None}, HeldTick(t, setting)
  PROVE  /\ lag' = setting
         /\ held' \subseteq Packets /\ age' \in [Packets -> Nat]
         /\ delivering' \in [Threads -> SUBSET Packets]
         /\ setting = None => held' = {}
         /\ InHand = {} => InHand' = {}
<1>1. lag' = setting /\ held' \subseteq held /\ delivering' = [delivering EXCEPT ![t] = held \ held']
  BY DEF HeldTick
<1>2. held' \subseteq Packets
  BY <1>1 DEF Typed
<1>3. age' \in [Packets -> Nat]
  BY DEF HeldTick, Typed
<1>4. delivering' \in [Threads -> SUBSET Packets]
  BY <1>1 DEF Typed
<1>5. ASSUME setting = None PROVE held' = {}
  <2>1. \A p \in Packets : age[p] >= 0
    BY DEF Typed
  <2>2. \A p \in held : Ready(setting, p)
    BY <1>5, <2>1 DEF Ready, DelayFor, Typed
  <2>. QED BY <2>2 DEF HeldTick
<1>6. InHand = {} => InHand' = {}
  <2>1. ASSUME InHand = {} PROVE held' = {} /\ \A u \in Threads : delivering'[u] = {}
    <3>1. held = {} /\ \A u \in Threads : delivering[u] = {}
      BY <2>1, NothingInHand
    <3>. QED BY <1>1, <3>1 DEF Typed
  <2>. QED BY <2>1 DEF InHand
<1>. QED BY <1>1, <1>2, <1>3, <1>4, <1>5, <1>6

LEMMA StopMoves ==
  ASSUME Typed, NEW t \in Threads, HeldStop(t)
  PROVE  /\ lag' = None /\ ~running'
         /\ held' = {} /\ age' \in [Packets -> Nat]
         /\ delivering' \in [Threads -> SUBSET Packets]
         /\ InHand = {} => InHand' = {}
<1>1. None \in Settings \cup {None} /\ HeldTick(t, None)
  BY DEF HeldStop
<1>. QED BY <1>1, TickMoves DEF running

-----------------------------------------------------------------------------
(* Requests.                                                               *)

Fresh ==
  {r \in [kind : Kinds, on : {None}, setting : Settings \cup {None}, start : BOOLEAN,
          current : BOOLEAN] :
     r.kind = "configure" => r.setting \in Settings}

LEMMA OlderTyped ==
  ASSUME Typed
  PROVE  /\ DOMAIN OlderRequests = Connections
         /\ \A c \in Connections :
              /\ OlderRequests[c] = Older(requests[c])
              /\ OlderRequests[c] \in Seq(RequestsOn(c))
              /\ requests[c] = <<>> => OlderRequests[c] = <<>>
<1>1. \A c \in Connections : OlderRequests[c] = Older(requests[c])
  BY DEF OlderRequests, Older
<1>2. \A c \in Connections : requests[c] \in Seq(RequestsOn(c))
  BY DEF Typed
<1>3. ASSUME NEW c \in Connections
      PROVE  Older(requests[c]) \in Seq(RequestsOn(c)) /\ (requests[c] = <<>> => Older(requests[c]) = <<>>)
  BY <1>2, QueueOlder
<1>. QED BY <1>1, <1>3 DEF OlderRequests

(* Where a request goes, and what of the connections changes with it.      *)
Sent(message, sent) ==
  /\ connection' \in Connections
  /\ connection # None => connection' = connection /\ link' = link
  /\ connection = None =>
       connection' \in FreeConnections /\ link' = [link EXCEPT ![connection'] = "new"]
  /\ [message EXCEPT !.on = connection'] \in RequestsOn(connection')
  /\ DOMAIN requests' = Connections
  /\ \A c \in Connections :
       /\ requests'[c] \in Seq(RequestsOn(c))
       /\ requests'[c] =
            IF c = connection' /\ link'[c] \in {"new", "open"}
            THEN Append(sent[c], [message EXCEPT !.on = c])
            ELSE sent[c]

LEMMA SendMoves ==
  ASSUME Typed, NEW message \in Fresh, NEW sent, SendRequest(message, sent),
         DOMAIN sent = Connections,
         \A c \in Connections : sent[c] \in Seq(RequestsOn(c))
  PROVE  Sent(message, sent)
<1>1. connection = None => connection' \in FreeConnections /\ link' = [link EXCEPT ![connection'] = "new"]
  BY DEF SendRequest, Pick
<1>2. connection # None => connection' = connection /\ link' = link
  BY DEF SendRequest
<1>3. connection' \in Connections
  BY <1>1, <1>2 DEF FreeConnections, Typed
<1>4. requests' = IF link'[connection'] \in {"new", "open"}
                  THEN [sent EXCEPT ![connection'] = Append(@, [message EXCEPT !.on = connection'])]
                  ELSE sent
  BY DEF SendRequest
<1>5. [message EXCEPT !.on = connection'] \in RequestsOn(connection')
  BY DEF Fresh, RequestsOn
<1>6. DOMAIN requests' = Connections
  BY <1>4
<1>7. ASSUME NEW c \in Connections
      PROVE  requests'[c] = IF c = connection' /\ link'[c] \in {"new", "open"}
                            THEN Append(sent[c], [message EXCEPT !.on = c]) ELSE sent[c]
  BY <1>3, <1>4
<1>8. ASSUME NEW c \in Connections PROVE requests'[c] \in Seq(RequestsOn(c))
  <2>1. CASE c = connection' /\ link'[c] \in {"new", "open"}
    <3>1. sent[c] \in Seq(RequestsOn(c)) /\ [message EXCEPT !.on = c] \in RequestsOn(c)
      BY <1>5, <2>1
    <3>2. Append(sent[c], [message EXCEPT !.on = c]) \in Seq(RequestsOn(c))
      BY <3>1, QueueAppend
    <3>. QED BY <1>7, <2>1, <3>2
  <2>2. CASE ~(c = connection' /\ link'[c] \in {"new", "open"})
    BY <1>7, <2>2
  <2>. QED BY <2>1, <2>2
<1>. QED BY <1>1, <1>2, <1>3, <1>5, <1>6, <1>7, <1>8 DEF Sent

-----------------------------------------------------------------------------
(* Types, and the two ends of a connection.                                *)

MailTyped(m) == \E c \in Connections : m = LostMail(c) \/ m \in AnswersOn(c)

LEMMA InvalidateMoves ==
  ASSUME Base, NEW c \in Connections, Invalidate(c)
  PROVE  /\ DOMAIN link' = Connections /\ DOMAIN requests' = Connections
         /\ link'[c] \in {"unused", "cut"}
         /\ \A d \in Connections : d # c => link'[d] = link[d] /\ requests'[d] = requests[d]
         /\ requests'[c] \in {requests[c], <<>>}
         /\ link'[c] = "unused" => requests'[c] = <<>>
         /\ client = c => link'[c] = "cut"
         /\ link'[c] = "cut" => requests'[c] = requests[c]
<1>1. /\ link[c] \in {"unused", "new", "open", "cut"}
      /\ DOMAIN link = Connections /\ DOMAIN requests = Connections
  BY DEF Base, Typed
<1>2. link'[c] = IF link[c] = "open" THEN "cut" ELSE IF link[c] = "new" THEN "unused" ELSE link[c]
  BY <1>1 DEF Invalidate
<1>3. DOMAIN link' = Connections /\ \A d \in Connections : d # c => link'[d] = link[d]
  BY <1>1 DEF Invalidate
<1>4. /\ DOMAIN requests' = Connections
      /\ requests'[c] = IF link[c] = "new" THEN <<>> ELSE requests[c]
      /\ \A d \in Connections : d # c => requests'[d] = requests[d]
  BY <1>1 DEF Invalidate
<1>5. Ends(c)
  BY DEF Base, Links
<1>. QED BY <1>1, <1>2, <1>3, <1>4, <1>5 DEF Ends

(* A step that leaves connections, answers and the capture alone.          *)
LEMMA LinksKept ==
  ASSUME Links, UNCHANGED <<link, requests, finishing, client, connection>>,
         mail' \subseteq mail,
         running' => client' \in Connections,
         ~running' => held' = {}
  PROVE  Links'
<1>1. ASSUME NEW c \in Connections PROVE Ends(c)'
  BY DEF Links, Ends, Replies
<1>. QED BY <1>1 DEF Links

LEMMA FilterBase ==
  ASSUME Base, ProviderFilter, UNCHANGED host
  PROVE  Base'
<1>. USE Delayed, Shapes
<1>0. UNCHANGED connection
  BY DEF host, command
<1>1. CASE StartFilter
  BY <1>0, <1>1, LinksKept DEF StartFilter, Base, Typed, Links, capture, packets, channel, running
<1>2. CASE FilterStopped
  BY <1>0, <1>2, LinksKept DEF FilterStopped, Base, Typed, Links, capture, packets, channel, running
<1>3. CASE OtherConnects
  <2>1. Typed'
    BY <1>0, <1>3 DEF OtherConnects, Base, Typed, capture, packets, channel
  <2>2. ~running
    BY <1>3, MacProviderAssumption DEF OtherConnects, Base, Links
  <2>3. ASSUME NEW c \in Connections PROVE Ends(c)'
    BY <1>0, <1>3, MacProviderAssumption DEF OtherConnects, Base, Links, Ends, Replies, capture, packets, channel
  <2>. QED BY <1>3, <2>1, <2>2, <2>3 DEF OtherConnects, Base, Links, capture, packets, running
<1>4. CASE OtherQuits
  <2>1. Typed'
    BY <1>0, <1>4 DEF OtherQuits, Base, Typed, capture, packets, channel
  <2>2. ~running
    BY <1>4, MacProviderAssumption DEF OtherQuits, Base, Links
  <2>3. ASSUME NEW c \in Connections PROVE Ends(c)'
    BY <1>0, <1>4, MacProviderAssumption DEF OtherQuits, Base, Links, Ends, Replies, capture, packets, channel
  <2>. QED BY <1>4, <2>1, <2>2, <2>3 DEF OtherQuits, Base, Links, capture, packets, running
<1>5. CASE StopFilter
  <2>1. HeldStop("filter") /\ client' = None /\ finishing' = finishing
    BY <1>5 DEF StopFilter
  <2>2. /\ ~running' /\ lag' = None /\ held' = {} /\ age' \in [Packets -> Nat]
        /\ delivering' \in [Threads -> SUBSET Packets]
    BY <2>1, StopMoves DEF Base
  <2>3. /\ requests' = requests
        /\ mail' \in {mail, mail \cup {LostMail(client)}}
        /\ client \notin Connections => link' = link /\ mail' = mail
        /\ client \in Connections => link' = [link EXCEPT ![client] = "cut"]
    BY <1>5 DEF StopFilter, channel
  <2>4. /\ DOMAIN link' = Connections
        /\ \A c \in Connections : link'[c] = IF c = client THEN "cut" ELSE link[c]
    BY <2>3 DEF Base, Typed
  <2>5. Typed'
    <3>1. \A m \in mail' : MailTyped(m)
      <4>1. \A m \in mail : MailTyped(m)
        BY DEF Base, Typed, MailTyped
      <4>2. client \in Connections => MailTyped(LostMail(client))
        BY DEF MailTyped
      <4>. QED BY <2>3, <4>1, <4>2
    <3>. QED BY <1>0, <2>1, <2>2, <2>3, <2>4, <3>1 DEF Base, Typed, MailTyped
  <2>6. ASSUME NEW c \in Connections PROVE Ends(c)'
    <3>1. Ends(c) /\ None # c
      BY MacProviderAssumption DEF Base, Links
    <3>2. LostMail(c) \in mail' => LostMail(c) \in mail \/ (client \in Connections /\ c = client)
      BY <2>3
    <3>3. Replies(c)' = Replies(c)
      BY <2>3 DEF Replies
    <3>. QED BY <1>0, <2>1, <2>3, <2>4, <3>1, <3>2, <3>3 DEF Ends
  <2>. QED BY <2>2, <2>5, <2>6 DEF Base, Links
<1>6. CASE ProviderDies
  <2>1. /\ client' = None /\ lag' = None /\ held' = {} /\ ~running'
        /\ finishing' = [c \in Connections |-> NoAnswer]
        /\ link' = [c \in Connections |-> "unused"]
        /\ requests' = [c \in Connections |-> <<>>]
    BY <1>6 DEF ProviderDies, running
  <2>2. \A m \in mail' : m \in mail \/ \E c \in Connections : m = LostMail(c)
    BY <1>6 DEF ProviderDies
  <2>3. Typed'
    <3>1. \A m \in mail' : MailTyped(m)
      BY <2>2 DEF Base, Typed, MailTyped
    <3>2. age' \in [Packets -> Nat] /\ delivering' \in [Threads -> SUBSET Packets]
      BY <1>6 DEF ProviderDies
    <3>. QED BY <1>0, <2>1, <3>1, <3>2, QueueEmpty DEF Base, Typed, MailTyped
  <2>4. ASSUME NEW c \in Connections PROVE Ends(c)'
    BY <2>1, MacProviderAssumption DEF Ends
  <2>. QED BY <2>1, <2>3, <2>4 DEF Base, Links
<1>. QED BY <1>1, <1>2, <1>3, <1>4, <1>5, <1>6 DEF ProviderFilter

LEMMA PacketsBase ==
  ASSUME Base, ProviderPackets, UNCHANGED host
  PROVE  Base'
<1>. USE Delayed, Shapes
<1>0. UNCHANGED connection
  BY DEF host, command
<1>1. CASE TimerTick
  <2>1. /\ UNCHANGED <<link, requests, finishing, client, mail>>
        /\ HeldTick("timer", lag') /\ lag' \in {lag, None}
    BY <1>1 DEF TimerTick, HeldStop, HeldTick, channel
  <2>2. /\ held' \subseteq Packets /\ age' \in [Packets -> Nat]
        /\ delivering' \in [Threads -> SUBSET Packets]
        /\ lag' = None => held' = {}
        /\ lag' \in Settings \cup {None}
    <3>1. lag' \in Settings \cup {None}
      BY <2>1 DEF Base, Typed
    <3>. QED BY <2>1, <3>1, TickMoves DEF Base
  <2>3. Typed'
    BY <1>0, <2>1, <2>2 DEF Base, Typed
  <2>4. Links'
    BY <1>0, <2>1, <2>2, LinksKept DEF Base, Links, running
  <2>. QED BY <2>3, <2>4 DEF Base
<1>2. CASE TimePasses
  <2>1. age' \in [Packets -> Nat]
    BY <1>2 DEF TimePasses, Base, Typed
  <2>. QED BY <1>0, <1>2, <2>1, LinksKept DEF TimePasses, Base, Typed, Links, capture, channel, running
<1>3. CASE ContactAges
  BY <1>0, <1>3, LinksKept DEF ContactAges, Base, Typed, Links, packets, channel, running
<1>4. ASSUME NEW p \in Packets, HoldPacket(p) PROVE Base'
  <2>1. DelayFor(None, p) = 0
    BY DEF DelayFor
  <2>2. running
    BY <1>4, <2>1 DEF HoldPacket, running
  <2>. QED BY <1>0, <1>4, <2>2, LinksKept DEF HoldPacket, Base, Typed, Links, capture, channel, running
<1>5. ASSUME NEW t \in Threads, AllowPackets(t) PROVE Base'
  <2>1. delivering' \in [Threads -> SUBSET Packets]
    BY <1>5 DEF AllowPackets, Base, Typed
  <2>. QED BY <1>0, <1>5, <2>1, LinksKept DEF AllowPackets, Base, Typed, Links, capture, channel, running
<1>. QED BY <1>1, <1>2, <1>3, <1>4, <1>5 DEF ProviderPackets

(* The next message of connection c.                                       *)
LEMMA HandlesMoves ==
  ASSUME Typed, NEW c \in Connections, NEW kind, Handles(c, kind)
  PROVE  /\ link[c] \in {"open", "cut"}
         /\ delivering[c] = {} /\ finishing[c].kind # "configure"
         /\ requests[c] # <<>> /\ requests[c][1].kind = kind /\ Head(requests[c]) = requests[c][1]
         /\ 1 \in 1 .. Len(requests[c]) /\ requests[c][1] \in RequestsOn(c)
         /\ DOMAIN requests' = Connections
         /\ requests'[c] = Tail(requests[c]) /\ requests'[c] \in Seq(RequestsOn(c))
         /\ \A d \in Connections : d # c => requests'[d] = requests[d]
<1>1. /\ link[c] \in {"open", "cut"} /\ delivering[c] = {} /\ finishing[c].kind # "configure"
      /\ requests[c] # <<>> /\ Head(requests[c]).kind = kind
      /\ requests' = [requests EXCEPT ![c] = Tail(@)]
  BY DEF Handles, QueueIdle
<1>2. requests[c] \in Seq(RequestsOn(c)) /\ DOMAIN requests = Connections
  BY DEF Typed
<1>. QED BY <1>1, <1>2, QueueHead

(* The handler of configure: what it does, and what it says of it.         *)
Obeys(c, request) ==
  /\ c = client /\ filter = "on"
  /\ running => Target[request.setting[1]] = Target[lag[1]]

Applies(c, request) == Obeys(c, request) /\ (running \/ request.start)

LEMMA ConfigureMoves ==
  ASSUME Typed, NEW c \in Connections, configure(c), NEW request, request = requests[c][1]
  PROVE  /\ Handles(c, "configure") /\ request \in RequestsOn(c) /\ request.kind = "configure"
         /\ Applies(c, request) =>
              HeldTick(c, request.setting) /\ lag' = request.setting /\ lag' # None
         /\ ~Applies(c, request) => UNCHANGED <<lag, packets>>
         /\ DOMAIN finishing' = Connections
         /\ finishing'[c] \in AnswersOn(c) \cup {NoAnswer}
         /\ request.current =>
              /\ finishing'[c].kind = "configure"
              /\ finishing'[c].failed <=> ~Obeys(c, request)
              /\ finishing'[c].active <=> lag' # None
              /\ finishing'[c].setting = request.setting
         /\ ~request.current => finishing'[c] = NoAnswer
         /\ \A d \in Connections : d # c => finishing'[d] = finishing[d]
         /\ UNCHANGED <<filter, client, link, mail>>
<1>1. Handles(c, "configure") /\ UNCHANGED <<filter, client, link, mail>>
  BY DEF configure
<1>2. /\ request \in RequestsOn(c) /\ request.kind = "configure" /\ Head(requests[c]) = request
      /\ request.setting \in Settings /\ request.current \in BOOLEAN
  BY <1>1, HandlesMoves, Shapes
<1>. DEFINE failed == ~Obeys(c, request)
            active == lag' # None
<1>3. /\ IF Applies(c, request) THEN HeldTick(c, request.setting) ELSE UNCHANGED <<lag, packets>>
      /\ finishing' = [finishing EXCEPT ![c] = Current(Answer(request, failed, active))]
  BY <1>2 DEF configure, Obeys, Applies
<1>4. request.setting # None
  BY <1>2, MacProviderAssumption
<1>5. HeldTick(c, request.setting) => lag' = request.setting
  BY DEF HeldTick
<1>6. failed \in BOOLEAN /\ active \in BOOLEAN
  BY DEF Obeys
<1>. HIDE DEF failed, active
<1>7. /\ DOMAIN finishing' = Connections
      /\ finishing'[c] = Current(Answer(request, failed, active))
      /\ \A d \in Connections : d # c => finishing'[d] = finishing[d]
  BY <1>3 DEF Typed
<1>8. /\ finishing'[c] \in AnswersOn(c) \cup {NoAnswer}
      /\ request.current =>
           /\ finishing'[c].kind = "configure" /\ finishing'[c].failed = failed
           /\ finishing'[c].active = active /\ finishing'[c].setting = request.setting
      /\ ~request.current => finishing'[c] = NoAnswer
  BY <1>2, <1>6, <1>7, AnswerTyped
<1>9. (failed <=> ~Obeys(c, request)) /\ (active <=> lag' # None)
  BY DEF failed, active
<1>. QED BY <1>1, <1>2, <1>3, <1>4, <1>5, <1>7, <1>8, <1>9

LEMMA StopRequestMoves ==
  ASSUME Typed, NEW c \in Connections, stop(c), NEW request, request = requests[c][1]
  PROVE  /\ Handles(c, "stop") /\ request \in RequestsOn(c) /\ request.kind = "stop"
         /\ c = client => HeldStop(c) /\ lag' = None /\ held' = {}
         /\ c # client => UNCHANGED <<lag, packets>>
         /\ DOMAIN finishing' = Connections
         /\ finishing'[c] \in AnswersOn(c) \cup {NoAnswer}
         /\ request.current =>
              finishing'[c].kind = "stop" /\ finishing'[c].failed = (c # client)
         /\ ~request.current => finishing'[c] = NoAnswer
         /\ \A d \in Connections : d # c => finishing'[d] = finishing[d]
         /\ UNCHANGED <<filter, client, link, mail>>
<1>1. Handles(c, "stop") /\ UNCHANGED <<filter, client, link, mail>>
  BY DEF stop
<1>2. request \in RequestsOn(c) /\ request.kind = "stop" /\ Head(requests[c]) = request
  BY <1>1, HandlesMoves
<1>3. finishing' = [finishing EXCEPT ![c] = Current(Answer(request, c # client, lag' # None))]
  BY <1>2 DEF stop
<1>4. /\ DOMAIN finishing' = Connections
      /\ finishing'[c] = Current(Answer(request, c # client, lag' # None))
      /\ \A d \in Connections : d # c => finishing'[d] = finishing[d]
  BY <1>3 DEF Typed
<1>5. (c # client) \in BOOLEAN /\ (lag' # None) \in BOOLEAN
  OBVIOUS
<1>. DEFINE failed == c # client
            active == lag' # None
<1>6. /\ finishing'[c] \in AnswersOn(c) \cup {NoAnswer}
      /\ request.current => finishing'[c].kind = "stop" /\ finishing'[c].failed = (c # client)
      /\ ~request.current => finishing'[c] = NoAnswer
  <2>1. finishing'[c] = Current(Answer(request, failed, active))
    BY <1>4
  <2>2. failed \in BOOLEAN /\ active \in BOOLEAN
    BY <1>5
  <2>. HIDE DEF failed, active
  <2>3. /\ finishing'[c] \in AnswersOn(c) \cup {NoAnswer}
        /\ request.current => finishing'[c].kind = "stop" /\ finishing'[c].failed = failed
        /\ ~request.current => finishing'[c] = NoAnswer
    BY <1>2, <2>1, <2>2, AnswerTyped
  <2>. QED BY <2>3 DEF failed
<1>7. c = client => HeldStop(c) /\ lag' = None /\ held' = {}
  BY StopMoves, Delayed DEF stop
<1>8. c # client => UNCHANGED <<lag, packets>>
  BY DEF stop, capture
<1>. QED BY <1>1, <1>2, <1>4, <1>6, <1>7, <1>8

LEMMA HeartbeatMoves ==
  ASSUME Typed, NEW c \in Connections, heartbeat(c), NEW request, request = requests[c][1]
  PROVE  /\ Handles(c, "heartbeat") /\ request \in RequestsOn(c) /\ request.kind = "heartbeat"
         /\ UNCHANGED <<filter, client, lag, packets, finishing, link>>
         /\ \E answer \in AnswersOn(c) \cup {NoAnswer} :
              /\ Send(answer)
              /\ answer # NoAnswer => ~running /\ request.current /\ answer.kind = "heartbeat"
<1>1. Handles(c, "heartbeat") /\ UNCHANGED <<filter, client, lag, packets, finishing, link>>
  BY DEF heartbeat
<1>2. /\ request \in RequestsOn(c) /\ request.kind = "heartbeat" /\ Head(requests[c]) = request
      /\ request.current \in BOOLEAN
  BY <1>1, HandlesMoves, Shapes
<1>3. Send(IF running THEN NoAnswer ELSE Current(Answer(request, FALSE, FALSE)))
  BY <1>2 DEF heartbeat
<1>4. Current(Answer(request, FALSE, FALSE)) \in AnswersOn(c) \cup {NoAnswer}
  BY <1>2, AnswerTyped
<1>5. ~request.current => Current(Answer(request, FALSE, FALSE)) = NoAnswer
  BY <1>2, AnswerTyped
<1>6. request.current => Current(Answer(request, FALSE, FALSE)).kind = "heartbeat"
  BY <1>2, AnswerTyped
<1>7. CASE running
  BY <1>1, <1>2, <1>3, <1>7
<1>8. CASE ~running
  BY <1>1, <1>2, <1>3, <1>4, <1>5, <1>6, <1>8
<1>. QED BY <1>7, <1>8

(* An answer that is sent reaches the host's main queue or nobody.         *)
LEMMA SendAnswers ==
  ASSUME NEW c \in Connections, NEW answer \in AnswersOn(c) \cup {NoAnswer}, Send(answer)
  PROVE  /\ mail' = mail \/ (mail' = mail \cup {answer} /\ answer \in AnswersOn(c) /\ link[c] = "open")
         /\ \A d : LostMail(d) \in mail' => LostMail(d) \in mail
         /\ \A d : d # c => Replies(d)' = Replies(d)
         /\ \A m \in Replies(c)' : m \in Replies(c) \/ (m = answer /\ answer # NoAnswer)
<1>1. mail' = mail \/ (mail' = mail \cup {answer} /\ answer \in AnswersOn(c) /\ link[c] = "open")
  BY Shapes DEF Send
<1>2. answer # NoAnswer => answer.on = c /\ answer.kind # "lost"
  BY Shapes DEF Kinds, Commands
<1>3. \A d : LostMail(d) \in mail' => LostMail(d) \in mail
  BY <1>1, <1>2, Shapes
<1>4. ASSUME NEW d, d # c PROVE Replies(d)' = Replies(d)
  BY <1>1, <1>2, <1>4, Shapes DEF Replies
<1>5. \A m \in Replies(c)' : m \in Replies(c) \/ (m = answer /\ answer # NoAnswer)
  BY <1>1, Shapes DEF Replies
<1>. QED BY <1>1, <1>3, <1>4, <1>5

LEMMA ConnectionBase ==
  ASSUME Base, NEW c \in Connections, ProviderConnection(c), UNCHANGED host
  PROVE  Base'
<1>0. /\ UNCHANGED connection
      /\ Typed /\ \A d \in Connections : Ends(d)
      /\ None \notin Connections /\ c \in Threads
      /\ \A m \in mail : MailTyped(m)
  BY MacProviderAssumption, Delayed DEF host, command, Base, Links, Typed, MailTyped
<1>. DEFINE request == requests[c][1]
<1>1. CASE Accept(c)
  <2>1. CASE filter = "on" /\ client = None
    <3>1. /\ client' = c /\ link' = [link EXCEPT ![c] = "open"]
          /\ UNCHANGED <<requests, mail, filter, capture, packets, finishing>>
      BY <1>1, <2>1 DEF Accept
    <3>2. Typed'
      BY <1>0, <3>1 DEF Typed, capture, packets
    <3>3. ASSUME NEW d \in Connections PROVE Ends(d)'
      BY <1>0, <1>1, <2>1, <3>1 DEF Accept, Ends, Typed, Replies
    <3>. QED BY <2>1, <3>1, <3>2, <3>3 DEF Base, Links, capture, packets, running
  <2>2. CASE ~(filter = "on" /\ client = None)
    <3>1. /\ link' = [link EXCEPT ![c] = "unused"]
          /\ requests' = [requests EXCEPT ![c] = <<>>]
          /\ mail' = mail \cup {LostMail(c)}
          /\ UNCHANGED <<client, filter, capture, packets, finishing>>
      BY <1>1, <2>2 DEF Accept
    <3>2. \A m \in mail' : MailTyped(m)
      BY <1>0, <3>1 DEF MailTyped
    <3>3. Typed'
      BY <1>0, <3>1, <3>2, QueueEmpty DEF Typed, MailTyped, capture, packets
    <3>4. ASSUME NEW d \in Connections PROVE Ends(d)'
      <4>1. Replies(d)' = Replies(d) /\ (LostMail(d) \in mail' => LostMail(d) \in mail \/ d = c)
        BY <3>1, Shapes DEF Replies
      <4>. QED BY <1>0, <1>1, <3>1, <4>1 DEF Accept, Ends, Typed
    <3>. QED BY <3>1, <3>3, <3>4 DEF Base, Links, capture, packets, running
  <2>. QED BY <2>1, <2>2
<1>2. CASE configure(c)
  <2>1. /\ Handles(c, "configure") /\ request \in RequestsOn(c)
        /\ Applies(c, request) =>
             HeldTick(c, request.setting) /\ lag' = request.setting /\ lag' # None
        /\ ~Applies(c, request) => UNCHANGED <<lag, packets>>
        /\ DOMAIN finishing' = Connections
        /\ finishing'[c] \in AnswersOn(c) \cup {NoAnswer}
        /\ request.current => finishing'[c].kind = "configure"
        /\ ~request.current => finishing'[c] = NoAnswer
        /\ \A d \in Connections : d # c => finishing'[d] = finishing[d]
        /\ UNCHANGED <<filter, client, link, mail>>
    BY <1>0, <1>2, ConfigureMoves
  <2>2. /\ link[c] \in {"open", "cut"}
        /\ DOMAIN requests' = Connections
        /\ requests'[c] \in Seq(RequestsOn(c))
        /\ \A d \in Connections : d # c => requests'[d] = requests[d]
    BY <1>0, <2>1, HandlesMoves
  <2>3. /\ held' \subseteq Packets /\ age' \in [Packets -> Nat]
        /\ delivering' \in [Threads -> SUBSET Packets] /\ lag' \in Settings \cup {None}
    <3>1. CASE Applies(c, request)
      BY <1>0, <2>1, <3>1, Shapes, TickMoves
    <3>2. CASE ~Applies(c, request)
      BY <1>0, <2>1, <3>2 DEF packets, Typed
    <3>. QED BY <3>1, <3>2
  <2>4. Typed'
    <3>1. finishing'[c].kind # "heartbeat"
      BY <2>1, Shapes
    <3>2. ASSUME NEW d \in Connections
          PROVE  /\ requests'[d] \in Seq(RequestsOn(d)) /\ finishing'[d].kind # "heartbeat"
                 /\ finishing'[d] \in AnswersOn(d) \cup {NoAnswer}
      BY <1>0, <2>1, <2>2, <3>1 DEF Typed
    <3>. QED BY <1>0, <2>1, <2>2, <2>3, <3>2 DEF Typed
  <2>5. ASSUME NEW d \in Connections PROVE Ends(d)'
    BY <1>0, <2>1, <2>2 DEF Ends, Replies
  <2>6. (running' => client' \in Connections) /\ (~running' => held' = {})
    BY <1>0, <2>1 DEF Base, Links, Applies, Obeys, packets, running
  <2>. QED BY <2>4, <2>5, <2>6 DEF Base, Links
<1>3. CASE stop(c)
  <2>1. /\ Handles(c, "stop") /\ request \in RequestsOn(c)
        /\ c = client => HeldStop(c) /\ lag' = None /\ held' = {}
        /\ c # client => UNCHANGED <<lag, packets>>
        /\ DOMAIN finishing' = Connections
        /\ finishing'[c] \in AnswersOn(c) \cup {NoAnswer}
        /\ request.current => finishing'[c].kind = "stop"
        /\ ~request.current => finishing'[c] = NoAnswer
        /\ \A d \in Connections : d # c => finishing'[d] = finishing[d]
        /\ UNCHANGED <<filter, client, link, mail>>
    BY <1>0, <1>3, StopRequestMoves
  <2>2. /\ link[c] \in {"open", "cut"}
        /\ DOMAIN requests' = Connections
        /\ requests'[c] \in Seq(RequestsOn(c))
        /\ \A d \in Connections : d # c => requests'[d] = requests[d]
    BY <1>0, <2>1, HandlesMoves
  <2>3. /\ held' \subseteq Packets /\ age' \in [Packets -> Nat]
        /\ delivering' \in [Threads -> SUBSET Packets] /\ lag' \in Settings \cup {None}
    <3>1. CASE c = client
      BY <1>0, <2>1, <3>1, StopMoves
    <3>2. CASE c # client
      BY <1>0, <2>1, <3>2 DEF packets, Typed
    <3>. QED BY <3>1, <3>2
  <2>4. Typed'
    <3>1. finishing'[c].kind # "heartbeat"
      BY <2>1, Shapes
    <3>2. ASSUME NEW d \in Connections
          PROVE  /\ requests'[d] \in Seq(RequestsOn(d)) /\ finishing'[d].kind # "heartbeat"
                 /\ finishing'[d] \in AnswersOn(d) \cup {NoAnswer}
      BY <1>0, <2>1, <2>2, <3>1 DEF Typed
    <3>. QED BY <1>0, <2>1, <2>2, <2>3, <3>2 DEF Typed
  <2>5. ASSUME NEW d \in Connections PROVE Ends(d)'
    BY <1>0, <2>1, <2>2 DEF Ends, Replies
  <2>6. (running' => client' \in Connections) /\ (~running' => held' = {})
    BY <1>0, <2>1 DEF Base, Links, packets, running
  <2>. QED BY <2>4, <2>5, <2>6 DEF Base, Links
<1>4. CASE heartbeat(c)
  <2>1. Handles(c, "heartbeat") /\ UNCHANGED <<filter, client, lag, packets, finishing, link>>
    BY <1>0, <1>4, HeartbeatMoves
  <2>2. PICK answer \in AnswersOn(c) \cup {NoAnswer} : Send(answer)
    BY <1>0, <1>4, HeartbeatMoves
  <2>3. /\ link[c] \in {"open", "cut"}
        /\ DOMAIN requests' = Connections
        /\ requests'[c] \in Seq(RequestsOn(c))
        /\ \A d \in Connections : d # c => requests'[d] = requests[d]
    BY <1>0, <2>1, HandlesMoves
  <2>4. \A m \in mail' : MailTyped(m)
    BY <1>0, <2>2, SendAnswers DEF MailTyped
  <2>5. Typed'
    BY <1>0, <2>1, <2>3, <2>4 DEF Typed, MailTyped, packets
  <2>6. ASSUME NEW d \in Connections PROVE Ends(d)'
    BY <1>0, <2>1, <2>2, <2>3, SendAnswers DEF Ends
  <2>. QED BY <2>1, <2>5, <2>6 DEF Base, Links, packets, running
<1>5. CASE Reply(c)
  <2>1. /\ finishing[c] \in AnswersOn(c) \cup {NoAnswer} /\ Send(finishing[c])
        /\ finishing' = [finishing EXCEPT ![c] = NoAnswer]
        /\ UNCHANGED <<filter, client, capture, packets, link, requests>>
    BY <1>0, <1>5 DEF Reply, Typed
  <2>2. \A m \in mail' : MailTyped(m)
    BY <1>0, <2>1, SendAnswers DEF MailTyped
  <2>3. Typed'
    BY <1>0, <2>1, <2>2, Shapes DEF Typed, MailTyped, capture, packets
  <2>4. ASSUME NEW d \in Connections PROVE Ends(d)'
    <3>1. finishing[c] # NoAnswer /\ (finishing'[d] = finishing[d] \/ finishing'[d] = NoAnswer)
      BY <1>0, <1>5, <2>1 DEF Reply, Typed
    <3>2. (LostMail(d) \in mail' => LostMail(d) \in mail) /\ (d # c => Replies(d)' = Replies(d))
      BY <2>1, SendAnswers
    <3>. QED BY <1>0, <2>1, <3>1, <3>2 DEF Ends
  <2>. QED BY <2>1, <2>3, <2>4 DEF Base, Links, capture, packets, running
<1>6. CASE Lost(c)
  <2>1. /\ link[c] = "cut"
        /\ c = client => HeldStop(c) /\ client' = None
        /\ c # client => UNCHANGED <<capture, packets, client>>
        /\ link' = [link EXCEPT ![c] = "unused"]
        /\ requests' = [requests EXCEPT ![c] = <<>>]
        /\ finishing' = [finishing EXCEPT ![c] = NoAnswer]
        /\ mail' = mail
    BY <1>6 DEF Lost
  <2>2. /\ held' \subseteq Packets /\ age' \in [Packets -> Nat]
        /\ delivering' \in [Threads -> SUBSET Packets] /\ lag' \in Settings \cup {None}
        /\ c = client => ~running' /\ held' = {}
    <3>1. CASE c = client
      BY <1>0, <2>1, <3>1, StopMoves
    <3>2. CASE c # client
      BY <1>0, <2>1, <3>2 DEF capture, packets, Typed
    <3>. QED BY <3>1, <3>2
  <2>3. Typed'
    BY <1>0, <2>1, <2>2, QueueEmpty, Shapes DEF Typed
  <2>4. ASSUME NEW d \in Connections PROVE Ends(d)'
    BY <1>0, <2>1 DEF Ends, Replies, Typed
  <2>5. (running' => client' \in Connections) /\ (~running' => held' = {})
    BY <1>0, <2>1, <2>2 DEF Base, Links, capture, packets, running
  <2>. QED BY <2>3, <2>4, <2>5 DEF Base, Links
<1>. QED BY <1>1, <1>2, <1>3, <1>4, <1>5, <1>6 DEF ProviderConnection

LEMMA RequestFresh ==
  ASSUME NEW start \in BOOLEAN, NEW current \in BOOLEAN
  PROVE  /\ \A setting \in Settings : Request("configure", setting, start) \in Fresh
         /\ Request("stop", None, FALSE) \in Fresh
         /\ [Request("heartbeat", None, FALSE) EXCEPT !.current = current] \in Fresh
  BY DEF Request, Fresh, Kinds, Commands

LEMMA CommandBase ==
  ASSUME Base, NEW message \in Fresh, Command(message)
  PROVE  Base'
<1>0. Typed /\ (\A d \in Connections : Ends(d)) /\ None \notin Connections
  BY MacProviderAssumption DEF Base, Links
<1>1. /\ mail' = Losses /\ finishing' = [d \in Connections |-> NoAnswer]
      /\ SendRequest(message, OlderRequests)
      /\ UNCHANGED <<client, capture, packets>>
  BY DEF Command, NobodyAnswers
<1>2. /\ DOMAIN OlderRequests = Connections
      /\ \A d \in Connections :
           /\ OlderRequests[d] \in Seq(RequestsOn(d))
           /\ requests[d] = <<>> => OlderRequests[d] = <<>>
  BY <1>0, OlderTyped
<1>sent. Sent(message, OlderRequests)
  BY <1>0, <1>1, <1>2, SendMoves
<1>3. /\ connection' \in Connections
      /\ connection # None => connection' = connection /\ link' = link
      /\ connection = None =>
           connection' \in FreeConnections /\ link' = [link EXCEPT ![connection'] = "new"]
      /\ DOMAIN requests' = Connections
      /\ \A d \in Connections :
           /\ requests'[d] \in Seq(RequestsOn(d))
           /\ ~(d = connection' /\ link'[d] \in {"new", "open"}) => requests'[d] = OlderRequests[d]
  BY <1>sent DEF Sent
<1>4. \A m \in mail' : MailTyped(m)
  BY <1>0, <1>1 DEF Losses, Typed, MailTyped
<1>5. Typed'
  <2>1. /\ lag' = lag /\ held' = held /\ age' = age /\ delivering' = delivering
        /\ client' = client /\ finishing' = [d \in Connections |-> NoAnswer]
    BY <1>1 DEF capture, packets
  <2>2. DOMAIN link' = Connections
    BY <1>0, <1>3 DEF Typed
  <2>3. ASSUME NEW d \in Connections
        PROVE  link'[d] \in {"unused", "new", "open", "cut"}
    BY <1>0, <1>3 DEF Typed, FreeConnections
  <2>4. \A m \in mail' : \E d \in Connections : m = LostMail(d) \/ m \in AnswersOn(d)
    BY <1>4 DEF MailTyped
  <2>5. NoAnswer.kind # "heartbeat"
    BY Shapes
  <2>. QED BY <1>0, <1>3, <2>1, <2>2, <2>3, <2>4, <2>5 DEF Typed
<1>6. ASSUME NEW d \in Connections PROVE Ends(d)'
  <2>1. Replies(d)' = {} /\ finishing'[d] = NoAnswer /\ (LostMail(d) \in mail' => LostMail(d) \in mail)
    BY <1>1 DEF Replies, Losses
  <2>2. link'[d] = "unused" => requests'[d] = <<>>
    BY <1>0, <1>2, <1>3 DEF Ends, Typed, FreeConnections
  <2>3. CASE connection # None
    BY <1>0, <1>1, <1>3, <2>1, <2>2, <2>3 DEF Ends
  <2>4. CASE connection = None
    <3>1. /\ connection' \in Connections /\ client # connection' /\ LostMail(connection') \notin mail
          /\ link'[d] = IF d = connection' THEN "new" ELSE link[d]
      BY <1>0, <1>3, <2>4 DEF FreeConnections, Typed
    <3>. QED BY <1>0, <1>1, <2>1, <2>2, <2>4, <3>1 DEF Ends
  <2>. QED BY <2>3, <2>4
<1>. QED BY <1>1, <1>5, <1>6 DEF Base, Links, capture, packets, running

(* The host lets go of its connection.                                     *)
LEMMA LetGoBase ==
  ASSUME Base,
         IF connection = None THEN UNCHANGED <<link, requests>> ELSE Invalidate(connection),
         mail' \subseteq mail, connection' = None,
         UNCHANGED <<client, capture, packets>>,
         finishing' \in {finishing, NobodyAnswers}
  PROVE  Base'
<1>0. Typed /\ (\A d \in Connections : Ends(d)) /\ None \notin Connections
  BY MacProviderAssumption DEF Base, Links
<1>1. /\ DOMAIN finishing' = Connections
      /\ \A d \in Connections : finishing'[d] = finishing[d] \/ finishing'[d] = NoAnswer
  BY <1>0 DEF NobodyAnswers, Typed
<1>2. CASE connection = None
  <2>1. Typed'
    BY <1>0, <1>1, <1>2, Shapes DEF Typed, capture, packets
  <2>2. \A d \in Connections : Ends(d)'
    BY <1>0, <1>1, <1>2 DEF Ends, Replies
  <2>. QED BY <2>1, <2>2 DEF Base, Links, capture, packets, running
<1>3. CASE connection # None
  <2>1. connection \in Connections /\ Invalidate(connection)
    BY <1>0, <1>3 DEF Typed
  <2>2. /\ DOMAIN link' = Connections /\ DOMAIN requests' = Connections
        /\ link'[connection] \in {"unused", "cut"}
        /\ \A d \in Connections : d # connection => link'[d] = link[d] /\ requests'[d] = requests[d]
        /\ requests'[connection] \in {requests[connection], <<>>}
        /\ link'[connection] = "unused" => requests'[connection] = <<>>
        /\ client = connection => link'[connection] = "cut"
    BY <2>1, InvalidateMoves
  <2>3. \A d \in Connections : requests'[d] \in Seq(RequestsOn(d))
    BY <1>0, <2>1, <2>2, QueueEmpty DEF Typed
  <2>4. Typed'
    BY <1>0, <1>1, <2>1, <2>2, <2>3, Shapes DEF Typed, capture, packets
  <2>5. ASSUME NEW d \in Connections PROVE Ends(d)'
    BY <1>0, <1>1, <2>1, <2>2 DEF Ends, Replies, Typed
  <2>. QED BY <2>4, <2>5 DEF Base, Links, capture, packets, running
<1>. QED BY <1>2, <1>3

LEMMA UserBase ==
  ASSUME Base, UserStep
  PROVE  Base'
<1>1. ASSUME NEW step, NEW start \in BOOLEAN, move(step, start) PROVE Base'
  BY <1>1, RequestFresh, CommandBase DEF move
<1>2. CASE hostStop
  BY <1>2, RequestFresh, CommandBase DEF hostStop
<1>3. ASSUME NEW sequence, import(sequence) PROVE Base'
  BY <1>3, LinksKept DEF import, Base, Typed, Links, provider, capture, packets, channel, command, running
<1>4. CASE HostQuits
  BY <1>4, LetGoBase DEF HostQuits
<1>. QED BY <1>1, <1>2, <1>3, <1>4 DEF UserStep

LEMMA SystemBase ==
  ASSUME Base, SystemStep
  PROVE  Base'
<1>1. ASSUME NEW what, AskSystem(what) PROVE Base'
  BY <1>1, LinksKept DEF AskSystem, Base, Typed, Links, provider, capture, packets, channel, running
<1>2. CASE PreferencesRemoved
  BY <1>2, LetGoBase DEF PreferencesRemoved, provider
<1>3. CASE SystemAnswers
  BY <1>3, LinksKept DEF SystemAnswers, Base, Typed, Links, provider, capture, packets, channel, running
<1>. QED BY <1>1, <1>2, <1>3 DEF SystemStep

LEMMA HostStepBase ==
  ASSUME Base, HostStep
  PROVE  Base'
<1>0. /\ Typed /\ (\A d \in Connections : Ends(d)) /\ None \notin Connections
      /\ \A m \in mail : MailTyped(m)
  BY MacProviderAssumption DEF Base, Links, Typed, MailTyped
<1>1. CASE sendHeartbeat
  <2>. DEFINE beat == [Request("heartbeat", None, FALSE) EXCEPT !.current = ~busy]
  <2>1. /\ connection # None /\ SendRequest(beat, requests)
        /\ UNCHANGED <<provider, mail>>
    BY <1>1 DEF sendHeartbeat
  <2>2. beat \in Fresh
    <3>1. (~busy) \in BOOLEAN
      OBVIOUS
    <3>. QED BY <3>1, RequestFresh, Zenon
  <2>. HIDE DEF beat
  <2>3. /\ connection' = connection /\ link' = link
        /\ DOMAIN requests' = Connections
        /\ \A d \in Connections :
             /\ requests'[d] \in Seq(RequestsOn(d))
             /\ ~(d = connection' /\ link'[d] \in {"new", "open"}) => requests'[d] = requests[d]
    <3>1. DOMAIN requests = Connections /\ \A d \in Connections : requests[d] \in Seq(RequestsOn(d))
      BY <1>0 DEF Typed
    <3>sent. Sent(beat, requests)
      BY <1>0, <2>1, <2>2, <3>1, SendMoves
    <3>. QED BY <2>1, <3>sent DEF Sent
  <2>4. Typed'
    BY <1>0, <2>1, <2>3 DEF Typed, provider, capture, packets
  <2>5. ASSUME NEW d \in Connections PROVE Ends(d)'
    BY <1>0, <2>1, <2>3 DEF Ends, Replies, provider
  <2>. QED BY <2>1, <2>4, <2>5 DEF Base, Links, provider, capture, packets, running
<1>2. CASE CommandTimesOut
  <2>1. CASE busy /\ connection # None
    <3>1. /\ connection \in Connections /\ Invalidate(connection)
          /\ mail' = mail \cup {LostMail(connection)} /\ UNCHANGED <<provider, connection>>
      BY <1>0, <1>2, <2>1 DEF CommandTimesOut, Typed
    <3>2. /\ DOMAIN link' = Connections /\ DOMAIN requests' = Connections
          /\ link'[connection] \in {"unused", "cut"}
          /\ \A d \in Connections : d # connection => link'[d] = link[d] /\ requests'[d] = requests[d]
          /\ requests'[connection] \in {requests[connection], <<>>}
          /\ link'[connection] = "unused" => requests'[connection] = <<>>
          /\ client = connection => link'[connection] = "cut"
      BY <3>1, InvalidateMoves
    <3>3. \A d \in Connections : requests'[d] \in Seq(RequestsOn(d))
      BY <1>0, <3>1, <3>2, QueueEmpty DEF Typed
    <3>4. \A m \in mail' : MailTyped(m)
      BY <1>0, <3>1 DEF MailTyped
    <3>5. Typed'
      BY <1>0, <3>1, <3>2, <3>3, <3>4 DEF Typed, MailTyped, provider, capture, packets
    <3>6. ASSUME NEW d \in Connections PROVE Ends(d)'
      <4>1. /\ LostMail(d) \in mail' => LostMail(d) \in mail \/ d = connection
            /\ Replies(d)' = Replies(d)
        BY <3>1, Shapes DEF Replies
      <4>. QED BY <1>0, <3>1, <3>2, <4>1 DEF Ends, Typed, provider
    <3>. QED BY <3>1, <3>5, <3>6 DEF Base, Links, provider, capture, packets, running
  <2>2. CASE ~(busy /\ connection # None)
    BY <1>2, <2>2, LinksKept
       DEF CommandTimesOut, Base, Typed, Links, provider, capture, packets, channel, running
  <2>. QED BY <2>1, <2>2
<1>3. ASSUME NEW m \in mail, ConnectionLost(m) PROVE Base'
  <2>1. /\ m = LostMail(connection) /\ connection' = None
        /\ requests' = OlderRequests /\ mail' = {} /\ finishing' = [d \in Connections |-> NoAnswer]
        /\ UNCHANGED <<client, capture, packets, link>>
    BY <1>3 DEF ConnectionLost, NobodyAnswers
  <2>2. connection \in Connections /\ link[connection] \in {"cut", "unused"}
    BY <1>0, <2>1, Shapes DEF MailTyped, Kinds, Commands, Ends
  <2>3. /\ DOMAIN OlderRequests = Connections
        /\ \A d \in Connections :
             /\ OlderRequests[d] \in Seq(RequestsOn(d))
             /\ requests[d] = <<>> => OlderRequests[d] = <<>>
    BY <1>0, OlderTyped
  <2>4. Typed'
    BY <1>0, <2>1, <2>3, Shapes DEF Typed, capture, packets
  <2>5. ASSUME NEW d \in Connections PROVE Ends(d)'
    BY <1>0, <2>1, <2>2, <2>3 DEF Ends
  <2>. QED BY <2>1, <2>4, <2>5 DEF Base, Links, capture, packets, running
<1>4. ASSUME NEW m \in mail, Configured(m) \/ Stopped(m) \/ Beaten(m) PROVE Base'
  BY <1>4, LinksKept
     DEF Configured, Stopped, Beaten, Takes, Base, Typed, Links, provider, capture, packets, command, running
<1>. QED BY <1>1, <1>2, <1>3, <1>4 DEF HostStep, TakeMail

LEMMA BaseStep ==
  ASSUME Base, [Next]_vars
  PROVE  Base'
<1>1. CASE UserStep \/ SystemStep \/ HostStep
  BY <1>1, UserBase, SystemBase, HostStepBase
<1>2. CASE ProviderStep
  BY <1>2, FilterBase, PacketsBase, ConnectionBase DEF ProviderStep
<1>3. CASE UNCHANGED vars
  BY <1>3, LinksKept
     DEF vars, Base, Typed, Links, provider, capture, packets, channel, host, command, running
<1>. QED BY <1>1, <1>2, <1>3 DEF Next

LEMMA BaseInit == Init => Base
<1>. SUFFICES ASSUME Init PROVE Base
  OBVIOUS
<1>1. Typed
  BY QueueEmpty, Shapes DEF Init, ProviderInit, HostInit, Typed
<1>2. \A c \in Connections : Ends(c)
  BY MacProviderAssumption DEF Init, ProviderInit, HostInit, Ends, Replies
<1>. QED BY <1>1, <1>2 DEF Init, ProviderInit, Base, Links, running

-----------------------------------------------------------------------------
(* What follows an obeyed Stop.                                            *)

(* A step that starts nothing and answers nothing.                         *)
LEMMA StoppingKept ==
  ASSUME NEW c, StoppingOn(c),
         StopIsLast(requests[c])',
         NoneOf(requests[c], {"configure"}) => NoneOf(requests[c], {"configure"})',
         finishing'[c] = finishing[c] \/ finishing'[c] = NoAnswer,
         \A m \in Replies(c)' : m \in Replies(c) \/ m.kind = "heartbeat",
         client' = c => client = c,
         ~running => ~running',
         ~running /\ InHand = {} => InHand' = {}
  PROVE  StoppingOn(c)'
<1>1. ASSUME NEW m \in Answers(c)', c = client', m.kind = "stop", ~m.failed
      PROVE  ~running' /\ NoneOf(requests[c], {"configure"})'
  BY <1>1, Shapes DEF StoppingOn, Answers
<1>2. ASSUME NEW m \in Replies(c)', c = client', m.kind = "stop", ~m.failed
      PROVE  InHand' = {}
  BY <1>2, Shapes DEF StoppingOn, Answers
<1>. QED BY <1>1, <1>2 DEF StoppingOn

LEMMA NothingAsked ==
  ASSUME NEW c, requests'[c] = <<>>, finishing'[c] = NoAnswer,
         \A m \in Replies(c)' : m \in Replies(c),
         client' = c => Replies(c) = {}
  PROVE  StoppingOn(c)'
<1>1. StopIsLast(requests'[c])
  BY QueueEmpty
<1>. QED BY <1>1, Shapes DEF StoppingOn, Answers

LEMMA FilterStopping ==
  ASSUME Base, Stopping, ProviderFilter, UNCHANGED host
  PROVE  Stopping'
<1>. SUFFICES ASSUME NEW c \in Connections PROVE StoppingOn(c)'
  BY DEF Stopping
<1>0. Typed /\ StoppingOn(c) /\ c # None /\ c # Other /\ "filter" \in Threads
  BY MacProviderAssumption, Delayed DEF Base, Stopping
<1>1. CASE StartFilter \/ FilterStopped \/ OtherConnects \/ OtherQuits
  <2>1. /\ UNCHANGED <<capture, packets, finishing, channel>>
        /\ client' = c => client = c
    BY <1>0, <1>1 DEF StartFilter, FilterStopped, OtherConnects, OtherQuits
  <2>. QED BY <1>0, <2>1, StoppingKept DEF StoppingOn, capture, packets, channel, running, InHand, Replies
<1>2. CASE StopFilter
  <2>1. HeldStop("filter") /\ client' = None /\ UNCHANGED <<finishing, requests>>
    BY <1>2 DEF StopFilter, channel
  <2>2. Replies(c)' = Replies(c)
    BY <1>2, Shapes DEF StopFilter, channel, Replies
  <2>3. ~running' /\ (InHand = {} => InHand' = {})
    BY <1>0, <2>1, StopMoves
  <2>. QED BY <1>0, <2>1, <2>2, <2>3, StoppingKept DEF StoppingOn
<1>3. CASE ProviderDies
  <2>1. /\ client' = None /\ requests'[c] = <<>> /\ finishing'[c] = NoAnswer
        /\ Replies(c)' = Replies(c)
    BY <1>3, Shapes DEF ProviderDies, Replies
  <2>. QED BY <1>0, <2>1, NothingAsked
<1>. QED BY <1>1, <1>2, <1>3 DEF ProviderFilter

LEMMA PacketsStopping ==
  ASSUME Base, Stopping, ProviderPackets, UNCHANGED host
  PROVE  Stopping'
<1>. SUFFICES ASSUME NEW c \in Connections PROVE StoppingOn(c)'
  BY DEF Stopping
<1>0. Typed /\ StoppingOn(c) /\ "timer" \in Threads
  BY Delayed DEF Base, Stopping
<1>1. UNCHANGED <<client, finishing, channel>>
  BY DEF ProviderPackets, TimerTick, TimePasses, ContactAges, HoldPacket, AllowPackets
<1>2. (~running => ~running') /\ (~running /\ InHand = {} => InHand' = {})
  <2>1. CASE TimerTick
    <3>1. HeldTick("timer", lag') /\ lag' \in {lag, None}
      BY <2>1 DEF TimerTick, HeldStop, HeldTick
    <3>2. lag' \in Settings \cup {None}
      BY <1>0, <3>1 DEF Typed
    <3>. QED BY <1>0, <3>1, <3>2, TickMoves DEF running
  <2>2. CASE TimePasses \/ ContactAges
    BY <2>2 DEF TimePasses, ContactAges, capture, packets, running, InHand
  <2>3. ASSUME NEW p \in Packets, HoldPacket(p) PROVE running /\ running'
    <3>1. DelayFor(None, p) = 0
      BY DEF DelayFor
    <3>. QED BY <2>3, <3>1 DEF HoldPacket, capture, running
  <2>4. ASSUME NEW t \in Threads, AllowPackets(t), InHand = {} PROVE InHand' = {}
    <3>1. held = {} /\ \A u \in Threads : delivering[u] = {}
      BY <2>4, NothingInHand
    <3>. QED BY <2>4, <3>1 DEF AllowPackets
  <2>5. ASSUME NEW t \in Threads, AllowPackets(t) PROVE running' = running
    BY <2>5 DEF AllowPackets, capture, running
  <2>. QED BY <2>1, <2>2, <2>3, <2>4, <2>5 DEF ProviderPackets
<1>. QED BY <1>0, <1>1, <1>2, StoppingKept DEF StoppingOn, channel, Replies

(* The queue of another connection than the client's starts nothing.       *)
LEMMA ConnectionStopping ==
  ASSUME Base, Base', Stopping, NEW c \in Connections, ProviderConnection(c), UNCHANGED host
  PROVE  Stopping'
<1>. SUFFICES ASSUME NEW d \in Connections PROVE StoppingOn(d)'
  BY DEF Stopping
<1>0. /\ Typed /\ StoppingOn(c) /\ StoppingOn(d) /\ Ends(c) /\ Ends(d)
      /\ c # None /\ c \in Threads /\ requests[c] \in Seq(RequestsOn(c))
      /\ finishing[c] \in AnswersOn(c) \cup {NoAnswer}
  BY MacProviderAssumption, Delayed DEF Base, Links, Typed, Stopping
<1>. DEFINE request == requests[c][1]
<1>1. CASE Accept(c)
  <2>1. CASE filter = "on" /\ client = None
    <3>1. client' = c /\ UNCHANGED <<requests, mail, capture, packets, finishing>>
      BY <1>1, <2>1 DEF Accept
    <3>2. finishing[c] = NoAnswer /\ Replies(c) = {}
      BY <1>0, <1>1 DEF Accept, Ends
    <3>3. c = d => StoppingOn(d)'
      BY <1>0, <3>1, <3>2, Shapes DEF StoppingOn, Answers, Replies
    <3>4. c # d => StoppingOn(d)'
      BY <1>0, <3>1, StoppingKept DEF StoppingOn, capture, packets, running, InHand, Replies
    <3>. QED BY <3>3, <3>4
  <2>2. CASE ~(filter = "on" /\ client = None)
    <3>1. /\ requests' = [requests EXCEPT ![c] = <<>>] /\ mail' = mail \cup {LostMail(c)}
          /\ UNCHANGED <<client, capture, packets, finishing>>
      BY <1>1, <2>2 DEF Accept
    <3>2. Replies(d)' = Replies(d)
      BY <3>1, Shapes DEF Replies
    <3>3. requests'[d] = requests[d] \/ requests'[d] = <<>>
      BY <1>0, <3>1 DEF Typed
    <3>. QED BY <1>0, <3>1, <3>2, <3>3, QueueEmpty, StoppingKept
         DEF StoppingOn, capture, packets, running, InHand
  <2>. QED BY <2>1, <2>2
<1>2. CASE configure(c)
  <2>1. /\ Handles(c, "configure") /\ request.kind = "configure"
        /\ Applies(c, request) => HeldTick(c, request.setting)
        /\ ~Applies(c, request) => UNCHANGED <<lag, packets>>
        /\ finishing'[c] = NoAnswer \/ finishing'[c].kind = "configure"
        /\ \A e \in Connections : e # c => finishing'[e] = finishing[e]
        /\ UNCHANGED <<filter, client, link, mail>>
    BY <1>0, <1>2, ConfigureMoves, Shapes
  <2>2. /\ requests[c] # <<>> /\ 1 \in 1 .. Len(requests[c])
        /\ requests'[c] = Tail(requests[c])
        /\ \A e \in Connections : e # c => requests'[e] = requests[e]
    BY <1>0, <2>1, HandlesMoves
  <2>3. CASE d = c
    <3>1. ~NoneOf(requests[c], {"configure"}) /\ StopIsLast(requests[c])'
      BY <1>0, <2>1, <2>2, <2>3, QueueTail DEF NoneOf, StoppingOn
    <3>. QED BY <1>0, <2>1, <2>3, <3>1, Shapes DEF StoppingOn, Answers, Replies
  <2>4. CASE d # c /\ client # d
    BY <1>0, <2>1, <2>2, <2>4 DEF StoppingOn
  <2>5. CASE d # c /\ client = d
    <3>1. ~Applies(c, request)
      BY <2>5 DEF Applies, Obeys
    <3>2. UNCHANGED <<lag, packets>>
      BY <2>1, <3>1
    <3>3. requests'[d] = requests[d] /\ finishing'[d] = finishing[d] /\ client' = client /\ mail' = mail
      BY <2>1, <2>2, <2>5
    <3>4. running' = running /\ InHand' = InHand /\ Replies(d)' = Replies(d)
      BY <3>2, <3>3 DEF packets, running, InHand, Replies
    <3>. HIDE DEF request
    <3>. QED BY <1>0, <3>3, <3>4, StoppingKept DEF StoppingOn
  <2>. QED BY <2>3, <2>4, <2>5
<1>3. CASE stop(c)
  <2>1. /\ Handles(c, "stop") /\ request \in RequestsOn(c) /\ request.kind = "stop"
        /\ c = client => HeldStop(c)
        /\ c # client => UNCHANGED <<lag, packets>>
        /\ request.current =>
             finishing'[c].kind = "stop" /\ finishing'[c].failed = (c # client)
        /\ ~request.current => finishing'[c] = NoAnswer
        /\ \A e \in Connections : e # c => finishing'[e] = finishing[e]
        /\ UNCHANGED <<filter, client, link, mail>>
    BY <1>0, <1>3, StopRequestMoves
  <2>2. /\ requests[c] # <<>> /\ requests'[c] = Tail(requests[c])
        /\ \A e \in Connections : e # c => requests'[e] = requests[e]
    BY <1>0, <2>1, HandlesMoves
  <2>3. (~running => ~running') /\ (~running /\ InHand = {} => InHand' = {})
    <3>1. CASE c = client
      BY <1>0, <2>1, <3>1, StopMoves
    <3>2. CASE c # client
      BY <2>1, <3>2 DEF packets, running, InHand
    <3>. QED BY <3>1, <3>2
  <2>4. CASE d = c /\ client = c
    <3>1. ~running' /\ (InHand = {} => InHand' = {})
      BY <1>0, <2>1, <2>4, StopMoves
    <3>2. /\ StopIsLast(requests[c])'
          /\ NoneOf(requests[c], {"configure"}) => NoneOf(requests[c], {"configure"})'
          /\ request.current => NoneOf(requests[c], {"configure"})'
      BY <1>0, <2>1, <2>2, QueueTail DEF StoppingOn
    <3>. QED BY <1>0, <2>1, <2>4, <3>1, <3>2, Shapes DEF StoppingOn, Answers, Replies
  <2>5. CASE d = c /\ client # c
    <3>1. StopIsLast(requests[c])'
      BY <1>0, <2>1, <2>2, QueueTail DEF StoppingOn
    <3>. QED BY <2>1, <2>5, <3>1 DEF StoppingOn
  <2>6. CASE d # c
    BY <1>0, <2>1, <2>2, <2>3, <2>6, StoppingKept DEF StoppingOn, Replies
  <2>. QED BY <2>4, <2>5, <2>6
<1>4. CASE heartbeat(c)
  <2>1. Handles(c, "heartbeat") /\ UNCHANGED <<filter, client, lag, packets, finishing, link>>
    BY <1>0, <1>4, HeartbeatMoves
  <2>2. PICK answer \in AnswersOn(c) \cup {NoAnswer} :
          Send(answer) /\ (answer # NoAnswer => answer.kind = "heartbeat")
    BY <1>0, <1>4, HeartbeatMoves
  <2>3. /\ requests[c] # <<>> /\ requests'[c] = Tail(requests[c])
        /\ \A e \in Connections : e # c => requests'[e] = requests[e]
    BY <1>0, <2>1, HandlesMoves
  <2>4. \A m \in Replies(d)' : m \in Replies(d) \/ m.kind = "heartbeat"
    BY <2>2, SendAnswers
  <2>5. /\ StopIsLast(requests[d])'
        /\ NoneOf(requests[d], {"configure"}) => NoneOf(requests[d], {"configure"})'
    BY <1>0, <2>3, QueueTail DEF StoppingOn
  <2>. QED BY <1>0, <2>1, <2>4, <2>5, StoppingKept DEF packets, running, InHand
<1>5. CASE Reply(c)
  <2>1. /\ finishing[c] # NoAnswer /\ Send(finishing[c])
        /\ finishing[c].kind = "stop" => AllDelivered
        /\ finishing' = [finishing EXCEPT ![c] = NoAnswer]
        /\ UNCHANGED <<filter, client, capture, packets, link, requests>>
    BY <1>5 DEF Reply
  <2>2. CASE d # c
    <3>1. Replies(d)' = Replies(d) /\ finishing'[d] = finishing[d]
      BY <1>0, <2>1, <2>2, SendAnswers DEF Typed
    <3>. QED BY <1>0, <2>1, <3>1, StoppingKept DEF StoppingOn, capture, packets, running, InHand
  <2>3. CASE d = c
    <3>1. \A m \in Replies(c)' : m \in Replies(c) \/ m = finishing[c]
      BY <1>0, <2>1, SendAnswers
    <3>2. finishing'[c] = NoAnswer
      BY <1>0, <2>1 DEF Typed
    <3>3. \A m \in Answers(c)' : m \in Answers(c) \/ m = NoAnswer
      BY <3>1, <3>2 DEF Answers
    <3>4. ~running /\ AllDelivered => InHand = {}
      BY NothingInHand DEF Base, Links, AllDelivered
    <3>5. StopIsLast(requests[c])'
      BY <1>0, <2>1 DEF StoppingOn
    <3>6. InHand' = InHand /\ running' = running
      BY <2>1 DEF capture, packets, running, InHand
    <3>7. ASSUME NEW m \in Answers(c)', c = client', m.kind = "stop", ~m.failed
          PROVE  ~running' /\ NoneOf(requests[c], {"configure"})'
      BY <1>0, <2>1, <3>3, <3>6, <3>7, Shapes DEF StoppingOn
    <3>8. ASSUME NEW m \in Replies(c)', c = client', m.kind = "stop", ~m.failed
          PROVE  InHand' = {}
      <4>1. CASE m \in Replies(c)
        BY <1>0, <2>1, <3>6, <3>8, <4>1 DEF StoppingOn
      <4>2. CASE m = finishing[c]
        BY <1>0, <2>1, <3>4, <3>6, <3>8, <4>2 DEF StoppingOn, Answers
      <4>. QED BY <3>1, <3>8, <4>1, <4>2
    <3>. QED BY <2>3, <3>5, <3>7, <3>8 DEF StoppingOn
  <2>. QED BY <2>2, <2>3
<1>6. CASE Lost(c)
  <2>1. /\ c = client => HeldStop(c) /\ client' = None
        /\ c # client => UNCHANGED <<capture, packets, client>>
        /\ requests' = [requests EXCEPT ![c] = <<>>]
        /\ finishing' = [finishing EXCEPT ![c] = NoAnswer]
        /\ mail' = mail
    BY <1>6 DEF Lost
  <2>2. (~running => ~running') /\ (~running /\ InHand = {} => InHand' = {})
    BY <1>0, <2>1, StopMoves DEF capture, packets, running, InHand
  <2>3. /\ requests'[d] = requests[d] \/ requests'[d] = <<>>
        /\ finishing'[d] = finishing[d] \/ finishing'[d] = NoAnswer
    BY <1>0, <2>1 DEF Typed
  <2>4. d # None
    BY MacProviderAssumption
  <2>. QED BY <1>0, <2>1, <2>2, <2>3, <2>4, QueueEmpty, StoppingKept DEF StoppingOn, Replies
<1>. QED BY <1>1, <1>2, <1>3, <1>4, <1>5, <1>6 DEF ProviderConnection

(* Steps of the host alone.                                                *)
LEMMA AskedStopping ==
  ASSUME Base, Stopping, UNCHANGED <<client, capture, packets>>,
         finishing' \in {finishing, NobodyAnswers}, mail' \ Losses' \subseteq mail,
         \A c \in Connections : \/ requests'[c] \in {requests[c], OlderRequests[c], <<>>}
                                \/ \E r \in RequestsOn(c) : r.kind = "heartbeat" /\ requests'[c] = Append(requests[c], r)
  PROVE  Stopping'
<1>. SUFFICES ASSUME NEW c \in Connections PROVE StoppingOn(c)'
  BY DEF Stopping
<1>0. Typed /\ StoppingOn(c) /\ requests[c] \in Seq(RequestsOn(c))
  BY DEF Base, Typed, Stopping
<1>1. /\ StopIsLast(requests[c])'
      /\ NoneOf(requests[c], {"configure"}) => NoneOf(requests[c], {"configure"})'
  <2>1. CASE requests'[c] \in {requests[c], <<>>}
    BY <1>0, <2>1, QueueEmpty DEF StoppingOn
  <2>2. CASE requests'[c] = OlderRequests[c]
    <3>1. requests'[c] = Older(requests[c])
      BY <1>0, <2>2, OlderTyped
    <3>. QED BY <1>0, <3>1, QueueOlder
  <2>3. ASSUME NEW r \in RequestsOn(c), r.kind = "heartbeat", requests'[c] = Append(requests[c], r)
        PROVE  /\ StopIsLast(requests[c])'
               /\ NoneOf(requests[c], {"configure"}) => NoneOf(requests[c], {"configure"})'
    BY <1>0, <2>3, QueueAppend DEF StoppingOn
  <2>. QED BY <2>1, <2>2, <2>3
<1>2. finishing'[c] = finishing[c] \/ finishing'[c] = NoAnswer
  BY DEF NobodyAnswers
<1>3. \A m \in Replies(c)' : m \in Replies(c)
  BY DEF Replies, Losses
<1>. QED BY <1>0, <1>1, <1>2, <1>3, StoppingKept DEF capture, packets, running, InHand

LEMMA CommandStopping ==
  ASSUME Base, Stopping, NEW message \in Fresh, Command(message)
  PROVE  Stopping'
<1>. SUFFICES ASSUME NEW c \in Connections PROVE StoppingOn(c)'
  BY DEF Stopping
<1>0. Typed /\ requests[c] \in Seq(RequestsOn(c))
  BY DEF Base, Typed
<1>1. mail' = Losses /\ finishing'[c] = NoAnswer /\ SendRequest(message, OlderRequests)
  BY DEF Command, NobodyAnswers
<1>2. /\ DOMAIN OlderRequests = Connections
      /\ \A d \in Connections :
           OlderRequests[d] = Older(requests[d]) /\ OlderRequests[d] \in Seq(RequestsOn(d))
  BY <1>0, OlderTyped
<1>3. StopIsLast(requests[c])'
  <2>sent. Sent(message, OlderRequests)
    BY <1>0, <1>1, <1>2, SendMoves
  <2>1. /\ [message EXCEPT !.on = connection'] \in RequestsOn(connection')
        /\ requests'[c] = IF c = connection' /\ link'[c] \in {"new", "open"}
                          THEN Append(OlderRequests[c], [message EXCEPT !.on = c])
                          ELSE OlderRequests[c]
    BY <2>sent DEF Sent
  <2>2. CASE requests'[c] = OlderRequests[c]
    <3>1. requests'[c] = Older(requests[c])
      BY <1>2, <2>2
    <3>. QED BY <1>0, <3>1, QueueOlder
  <2>3. CASE c = connection' /\ requests'[c] = Append(OlderRequests[c], [message EXCEPT !.on = c])
    <3>1. /\ requests'[c] = Append(Older(requests[c]), [message EXCEPT !.on = c])
          /\ [message EXCEPT !.on = c] \in RequestsOn(c)
      BY <1>2, <2>1, <2>3
    <3>. QED BY <1>0, <3>1, OlderAppend
  <2>. QED BY <2>1, <2>2, <2>3
<1>4. Replies(c)' = {}
  BY <1>1 DEF Replies, Losses
<1>. QED BY <1>1, <1>3, <1>4, Shapes DEF StoppingOn, Answers

LEMMA InvalidateAsks ==
  ASSUME Base, NEW c \in Connections, Invalidate(c)
  PROVE  \A d \in Connections : requests'[d] \in {requests[d], <<>>}
  BY InvalidateMoves

LEMMA StoppingStep ==
  ASSUME Base, Base', Stopping, [Next]_vars
  PROVE  Stopping'
<1>0. Typed
  BY DEF Base
<1>1. CASE UserStep
  <2>1. ASSUME NEW step, NEW start \in BOOLEAN, move(step, start) PROVE Stopping'
    BY <2>1, RequestFresh, CommandStopping DEF move
  <2>2. CASE hostStop
    BY <2>2, RequestFresh, CommandStopping DEF hostStop
  <2>3. ASSUME NEW sequence, import(sequence) PROVE Stopping'
    BY <2>3, AskedStopping DEF import, provider, channel, Losses
  <2>4. CASE HostQuits
    <3>1. \A d \in Connections : requests'[d] \in {requests[d], <<>>}
      BY <1>0, <2>4, InvalidateAsks DEF HostQuits, Typed
    <3>. QED BY <2>4, <3>1, AskedStopping DEF HostQuits, Losses
  <2>. QED BY <1>1, <2>1, <2>2, <2>3, <2>4 DEF UserStep
<1>2. CASE SystemStep
  <2>1. ASSUME NEW what, AskSystem(what) PROVE Stopping'
    BY <2>1, AskedStopping DEF AskSystem, provider, channel, Losses
  <2>2. CASE SystemAnswers
    BY <2>2, AskedStopping DEF SystemAnswers, provider, channel, Losses
  <2>3. CASE PreferencesRemoved
    <3>1. \A d \in Connections : requests'[d] \in {requests[d], <<>>}
      BY <1>0, <2>3, InvalidateAsks DEF PreferencesRemoved, Typed
    <3>. QED BY <2>3, <3>1, AskedStopping DEF PreferencesRemoved, provider, Losses
  <2>. QED BY <1>2, <2>1, <2>2, <2>3 DEF SystemStep
<1>3. CASE HostStep
  <2>1. CASE sendHeartbeat
    <3>. DEFINE beat == [Request("heartbeat", None, FALSE) EXCEPT !.current = ~busy]
    <3>1. connection # None /\ SendRequest(beat, requests) /\ UNCHANGED <<provider, mail>>
      BY <2>1 DEF sendHeartbeat
    <3>2. beat \in Fresh
      <4>1. (~busy) \in BOOLEAN
        OBVIOUS
      <4>. QED BY <4>1, RequestFresh, Zenon
    <3>3. beat.kind = "heartbeat"
      BY DEF Request
    <3>. HIDE DEF beat
    <3>4. DOMAIN requests = Connections /\ \A d \in Connections : requests[d] \in Seq(RequestsOn(d))
      BY <1>0 DEF Typed
    <3>sent. Sent(beat, requests)
      BY <1>0, <3>1, <3>2, <3>4, SendMoves
    <3>5. /\ connection' = connection /\ [beat EXCEPT !.on = connection'] \in RequestsOn(connection')
          /\ \A d \in Connections :
               requests'[d] = IF d = connection' /\ link'[d] \in {"new", "open"}
                              THEN Append(requests[d], [beat EXCEPT !.on = d])
                              ELSE requests[d]
      BY <3>1, <3>sent DEF Sent
    <3>6. ASSUME NEW d \in Connections
          PROVE  \/ requests'[d] = requests[d]
                 \/ \E r \in RequestsOn(d) : r.kind = "heartbeat" /\ requests'[d] = Append(requests[d], r)
      <4>1. [beat EXCEPT !.on = d].kind = "heartbeat"
        BY <3>2, <3>3 DEF Fresh
      <4>. QED BY <3>5, <4>1
    <3>. QED BY <3>1, <3>6, AskedStopping DEF provider, Losses
  <2>2. CASE CommandTimesOut
    <3>1. \A d \in Connections : requests'[d] \in {requests[d], <<>>}
      BY <1>0, <2>2, InvalidateAsks DEF CommandTimesOut, channel, Typed
    <3>. QED BY <2>2, <3>1, AskedStopping, Shapes DEF CommandTimesOut, provider, channel, Losses
  <2>3. ASSUME NEW m \in mail, ConnectionLost(m) PROVE Stopping'
    BY <2>3, AskedStopping DEF ConnectionLost, Losses
  <2>4. ASSUME NEW m \in mail, Configured(m) \/ Stopped(m) \/ Beaten(m) PROVE Stopping'
    BY <2>4, AskedStopping DEF Configured, Stopped, Beaten, Takes, provider, Losses
  <2>. QED BY <1>3, <2>1, <2>2, <2>3, <2>4 DEF HostStep, TakeMail
<1>4. CASE ProviderStep
  BY <1>4, FilterStopping, PacketsStopping, ConnectionStopping DEF ProviderStep
<1>5. CASE UNCHANGED vars
  BY <1>5, AskedStopping DEF vars, provider, channel, Losses
<1>. QED BY <1>1, <1>2, <1>3, <1>4, <1>5 DEF Next

LEMMA StoppingInit == Init => Stopping
  BY QueueEmpty, Shapes DEF Init, ProviderInit, Stopping, StoppingOn, Answers, Replies

(* docs/MACOS.md:93: when the answer to Stop arrives, nothing is delayed   *)
(* or still to be allowed, however the settings, the connections and the   *)
(* system's answers were interleaved with it.                              *)
THEOREM StopIsFlushedHolds == Spec => []StopIsFlushed
<1>1. Init => Base /\ Stopping
  BY BaseInit, StoppingInit
<1>2. Base /\ Stopping /\ [Next]_vars => (Base /\ Stopping)'
  BY BaseStep, StoppingStep
<1>3. Base /\ Stopping => StopIsFlushed
  <2>. SUFFICES ASSUME Base, Stopping, NEW m \in mail, m.kind = "stop", ~m.failed, m.on = client
                PROVE  InHand = {}
    BY DEF StopIsFlushed
  <2>1. PICK c \in Connections : m = LostMail(c) \/ m \in AnswersOn(c)
    BY DEF Base, Typed
  <2>2. c = client /\ m \in Replies(c)
    BY <2>1, Shapes DEF Replies
  <2>. QED BY <2>2 DEF Stopping, StoppingOn
<1>. QED BY <1>1, <1>2, <1>3, PTL DEF Spec

-----------------------------------------------------------------------------
(* What the host shows.                                                    *)

LEMMA SilentAnswers ==
  ASSUME NEW k, Silent(k)
  PROVE  \A m \in Answers(k) : m.kind # "configure" /\ m.kind # "stop"
  BY Shapes DEF Silent, Answers, Replied, Commands

(* A step that brings the host no answer, asks nothing and starts nothing  *)
(* on the host's connection.                                               *)
LEMMA AgreementKept ==
  ASSUME NEW k, AgreementOn(k),
         UNCHANGED <<shown, hostRunning>>,
         busy => busy' \/ Silent(k),
         requests'[k] = requests[k] \/ requests'[k] = <<>>,
         \/ finishing'[k] = finishing[k]
         \/ finishing'[k] = NoAnswer /\ link'[k] # "open",
         \A c \in Connections : c # k => Replies(c)' = {},
         Replies(k)' = Replies(k),
         link'[k] = "open" => ~running' \/ (link[k] = "open" /\ lag' \in {lag, None})
  PROVE  AgreementOn(k)'
<1>1. \A m \in Answers(k)' : m \in Answers(k) \/ m = NoAnswer
  BY DEF Answers
<1>2. NoAnswer.kind = "none"
  BY Shapes
<1>3. Replied(k)' = Replied(k)
  BY DEF Replied
<1>4. Single(k)'
  BY <1>1, <1>2, <1>3, QueueEmpty DEF AgreementOn, Single, About
<1>5. Silent(k) => Silent(k)'
  BY <1>3, QueueEmpty DEF Silent
<1>6. Beats(requests[k])' => Beats(requests[k])
  BY QueueEmpty
<1>7. ASSUME link'[k] = "open" PROVE Agrees(k)'
  <2>1. CASE ~running'
    BY <1>1, <1>2, <2>1 DEF Agrees
  <2>2. CASE running'
    <3>1. lag' = lag /\ running /\ finishing'[k] = finishing[k] /\ Agrees(k)
      BY <1>7, <2>2 DEF running, AgreementOn
    <3>. QED BY <3>1 DEF Agrees, Answers, running
  <2>. QED BY <2>1, <2>2
<1>. QED BY <1>4, <1>5, <1>6, <1>7 DEF AgreementOn

LEMMA FilterAgreement ==
  ASSUME Base, NEW k \in Connections, AgreementOn(k), ProviderFilter, UNCHANGED host
  PROVE  AgreementOn(k)'
<1>0. Typed /\ "filter" \in Threads /\ UNCHANGED <<shown, hostRunning, busy>>
  BY Delayed DEF Base, host, command
<1>1. CASE StartFilter \/ FilterStopped \/ OtherConnects \/ OtherQuits
  <2>1. UNCHANGED <<capture, finishing, channel>>
    BY <1>1 DEF StartFilter, FilterStopped, OtherConnects, OtherQuits
  <2>. QED BY <1>0, <2>1, AgreementKept DEF AgreementOn, capture, channel, Replies
<1>2. CASE StopFilter
  <2>1. HeldStop("filter") /\ UNCHANGED <<finishing, requests>>
    BY <1>2 DEF StopFilter, channel
  <2>2. \A c : Replies(c)' = Replies(c)
    BY <1>2, Shapes DEF StopFilter, channel, Replies
  <2>3. ~running'
    BY <1>0, <2>1, StopMoves
  <2>. QED BY <1>0, <2>1, <2>2, <2>3, AgreementKept DEF AgreementOn
<1>3. CASE ProviderDies
  <2>1. requests'[k] = <<>> /\ finishing'[k] = NoAnswer /\ link'[k] # "open"
    BY <1>3 DEF ProviderDies
  <2>2. \A c : Replies(c)' = Replies(c)
    BY <1>3, Shapes DEF ProviderDies, Replies
  <2>. QED BY <1>0, <2>1, <2>2, AgreementKept DEF AgreementOn
<1>. QED BY <1>1, <1>2, <1>3 DEF ProviderFilter

LEMMA PacketsAgreement ==
  ASSUME Base, NEW k, AgreementOn(k), ProviderPackets, UNCHANGED host
  PROVE  AgreementOn(k)'
<1>1. UNCHANGED <<finishing, channel>> /\ UNCHANGED <<shown, hostRunning, busy>>
  BY DEF ProviderPackets, TimerTick, TimePasses, ContactAges, HoldPacket, AllowPackets, host, command
<1>2. lag' \in {lag, None}
  BY DEF ProviderPackets, TimerTick, TimePasses, ContactAges, HoldPacket, AllowPackets, capture,
         HeldStop, HeldTick
<1>. QED BY <1>1, <1>2, AgreementKept DEF AgreementOn, channel, Replies, running

(* The queue of another connection than the host's.                        *)
LEMMA OthersAgreement ==
  ASSUME Base, NEW k \in Connections, k = connection, AgreementOn(k),
         NEW c \in Connections, c # k, ProviderConnection(c), UNCHANGED host
  PROVE  AgreementOn(k)'
<1>. DEFINE request == requests[c][1]
<1>0. /\ Typed /\ Ends(c) /\ Ends(k) /\ c \in Threads
      /\ UNCHANGED <<shown, hostRunning, busy>>
      /\ finishing[c] \in AnswersOn(c) \cup {NoAnswer}
      /\ link[c] # "open" /\ link[c] # "new"
      /\ \A d \in Connections : d # k => Replies(d) = {}
  BY Delayed DEF Base, Links, Typed, Ends, host, command, AgreementOn
<1>1. ~Accept(c)
  BY <1>0 DEF Accept
<1>2. CASE configure(c)
  <2>1. /\ Handles(c, "configure")
        /\ ~Applies(c, request) => UNCHANGED <<lag, packets>>
        /\ \A e \in Connections : e # c => finishing'[e] = finishing[e]
        /\ UNCHANGED <<filter, client, link, mail>>
    BY <1>0, <1>2, ConfigureMoves
  <2>2. requests'[k] = requests[k] /\ finishing'[k] = finishing[k]
    BY <1>0, <2>1, HandlesMoves
  <2>3. link[k] = "open" => lag' = lag
    BY <1>0, <2>1 DEF Ends, Applies, Obeys
  <2>4. \A d : Replies(d)' = Replies(d)
    BY <2>1 DEF Replies
  <2>. HIDE DEF request
  <2>. QED BY <1>0, <2>1, <2>2, <2>3, <2>4, AgreementKept
<1>3. CASE stop(c)
  <2>1. /\ Handles(c, "stop")
        /\ c # client => UNCHANGED <<lag, packets>>
        /\ \A e \in Connections : e # c => finishing'[e] = finishing[e]
        /\ UNCHANGED <<filter, client, link, mail>>
    BY <1>0, <1>3, StopRequestMoves
  <2>2. requests'[k] = requests[k] /\ finishing'[k] = finishing[k]
    BY <1>0, <2>1, HandlesMoves
  <2>3. link[k] = "open" => lag' = lag
    BY <1>0, <2>1 DEF Ends
  <2>4. \A d : Replies(d)' = Replies(d)
    BY <2>1 DEF Replies
  <2>. QED BY <1>0, <2>1, <2>2, <2>3, <2>4, AgreementKept
<1>4. CASE heartbeat(c)
  <2>1. Handles(c, "heartbeat") /\ UNCHANGED <<filter, client, lag, packets, finishing, link>>
    BY <1>0, <1>4, HeartbeatMoves
  <2>2. PICK answer \in AnswersOn(c) \cup {NoAnswer} : Send(answer)
    BY <1>0, <1>4, HeartbeatMoves
  <2>3. mail' = mail
    BY <1>0, <2>2, SendAnswers
  <2>4. requests'[k] = requests[k] /\ \A d : Replies(d)' = Replies(d)
    BY <1>0, <2>1, <2>3, HandlesMoves DEF Replies
  <2>. QED BY <1>0, <2>1, <2>4, AgreementKept
<1>5. CASE Reply(c)
  <2>1. /\ Send(finishing[c]) /\ finishing' = [finishing EXCEPT ![c] = NoAnswer]
        /\ UNCHANGED <<filter, client, capture, packets, link, requests>>
    BY <1>5 DEF Reply
  <2>2. mail' = mail
    BY <1>0, <2>1, SendAnswers
  <2>3. finishing'[k] = finishing[k] /\ \A d : Replies(d)' = Replies(d)
    BY <2>1, <2>2 DEF Replies
  <2>. QED BY <1>0, <2>1, <2>3, AgreementKept DEF capture
<1>6. CASE Lost(c)
  <2>1. /\ c # client => UNCHANGED <<capture, packets, client>>
        /\ requests'[k] = requests[k] /\ finishing'[k] = finishing[k] /\ link'[k] = link[k]
        /\ mail' = mail
    BY <1>6 DEF Lost
  <2>2. link[k] = "open" => lag' = lag
    BY <1>0, <2>1 DEF Ends, capture
  <2>3. \A d : Replies(d)' = Replies(d)
    BY <2>1 DEF Replies
  <2>. QED BY <1>0, <2>1, <2>2, <2>3, AgreementKept
<1>. QED BY <1>1, <1>2, <1>3, <1>4, <1>5, <1>6 DEF ProviderConnection

(* A command that is in the queue of connection k is alone there.          *)
LEMMA CommandAlone ==
  ASSUME NEW k, AgreementOn(k), NEW i \in 1 .. Len(requests[k]), requests[k][i].kind \in Commands
  PROVE  /\ requests[k][i].current /\ About(requests[k][i])
         /\ finishing[k] = NoAnswer /\ Replied(k) = {} /\ OneCommand(requests[k])
         /\ busy /\ ~Beats(requests[k]) /\ \A m \in Replies(k) : m.kind # "heartbeat"
<1>1. ~NoneOf(requests[k], Commands)
  BY DEF NoneOf
<1>. QED BY <1>1 DEF AgreementOn, Single, Silent

(* Its queue takes it and prepares the answer.                             *)
LEMMA CommandTaken ==
  ASSUME NEW k, AgreementOn(k), requests[k] \in Seq(RequestsOn(k)), requests[k] # <<>>,
         requests[k][1].kind \in Commands,
         requests'[k] = Tail(requests[k]),
         About(finishing[k])', finishing'[k].kind # "heartbeat",
         UNCHANGED <<mail, busy>>,
         link'[k] = "open" => Agrees(k)'
  PROVE  AgreementOn(k)'
<1>1. 1 \in 1 .. Len(requests[k])
  BY QueueHead
<1>2. /\ Replied(k) = {} /\ OneCommand(requests[k])
      /\ busy /\ ~Beats(requests[k]) /\ \A m \in Replies(k) : m.kind # "heartbeat"
  BY <1>1, CommandAlone
<1>3. OneCommand(requests[k])' /\ NoneOf(requests[k], Commands)' /\ ~Beats(requests[k])'
  BY <1>2, QueueTail
<1>4. \A c : Replies(c)' = Replies(c) /\ Replied(c)' = Replied(c)
  BY DEF Replies, Replied
<1>5. \A m \in Replies(k)' : m.kind \notin Commands
  BY <1>2, <1>4 DEF Replied
<1>6. \A m \in Answers(k)' : About(m)'
  BY <1>5 DEF Answers, About, Commands
<1>7. Single(k)'
  BY <1>2, <1>3, <1>4, <1>6 DEF Single, NoneOf
<1>. QED BY <1>2, <1>3, <1>4, <1>7 DEF AgreementOn

LEMMA OwnAgreement ==
  ASSUME Base, Base', NEW k \in Connections, AgreementOn(k), ProviderConnection(k), UNCHANGED host
  PROVE  AgreementOn(k)'
<1>. DEFINE request == requests[k][1]
<1>0. /\ Typed /\ Ends(k) /\ k \in Threads
      /\ UNCHANGED <<shown, hostRunning, busy>>
      /\ requests[k] \in Seq(RequestsOn(k))
      /\ finishing[k] \in AnswersOn(k) \cup {NoAnswer} /\ finishing[k].kind # "heartbeat"
      /\ \A d \in Connections : d # k => Replies(d) = {}
  BY Delayed DEF Base, Links, Typed, host, command, AgreementOn
<1>1. CASE Accept(k)
  <2>1. /\ finishing' = finishing /\ lag' = lag
        /\ mail' = mail \/ mail' = mail \cup {LostMail(k)}
        /\ requests'[k] = requests[k] \/ requests'[k] = <<>>
        /\ link'[k] = "open" => client = None
    BY <1>0, <1>1 DEF Accept, capture, Typed
  <2>2. client = None => ~running
    BY MacProviderAssumption DEF Base, Links
  <2>3. \A d : Replies(d)' = Replies(d)
    BY <2>1, Shapes DEF Replies
  <2>. QED BY <1>0, <2>1, <2>2, <2>3, AgreementKept DEF running
<1>2. CASE configure(k)
  <2>1. /\ Handles(k, "configure") /\ request.kind = "configure"
        /\ Applies(k, request) => lag' = request.setting /\ lag' # None
        /\ ~Applies(k, request) => lag' = lag
        /\ request.current =>
             /\ finishing'[k].kind = "configure"
             /\ finishing'[k].failed <=> ~Obeys(k, request)
             /\ finishing'[k].active <=> lag' # None
             /\ finishing'[k].setting = request.setting
        /\ UNCHANGED <<filter, client, link, mail>>
    BY <1>0, <1>2, ConfigureMoves
  <2>2. requests[k] # <<>> /\ 1 \in 1 .. Len(requests[k]) /\ requests'[k] = Tail(requests[k])
    BY <1>0, <2>1, HandlesMoves
  <2>3. /\ request.current /\ About(request)
        /\ finishing[k] = NoAnswer /\ Replied(k) = {} /\ \A m \in Replies(k) : m.kind # "heartbeat"
    BY <2>1, <2>2, CommandAlone DEF Commands
  <2>4. \A m \in Answers(k) : m.kind # "configure"
    BY <2>3, Shapes DEF Answers, Replied, Commands
  <2>5. \A m \in Answers(k)' : m = finishing'[k] \/ m \in Replies(k)
    BY <2>1 DEF Answers, Replies
  <2>6. finishing'[k] \in Answers(k)'
    BY DEF Answers
  <2>7. Replies(k)' = Replies(k)
    BY <2>1 DEF Replies
  <2>8. ASSUME link'[k] = "open" PROVE Agrees(k)'
    <3>1. Agrees(k)
      BY <2>1, <2>8 DEF AgreementOn
    <3>2. CASE Applies(k, request)
      <4>1. ~finishing'[k].failed /\ finishing'[k].active /\ finishing'[k].setting = lag'
        BY <2>1, <2>3, <3>2 DEF Applies
      <4>. QED BY <2>1, <2>3, <2>4, <2>5, <2>6, <2>7, <4>1 DEF Agrees, Answers
    <3>3. CASE ~Applies(k, request) /\ Obeys(k, request)
      <4>1. ~running'
        BY <2>1, <3>3 DEF Applies, running
      <4>. QED BY <4>1 DEF Agrees
    <3>4. CASE ~Obeys(k, request)
      <4>1. lag' = lag /\ finishing'[k].failed
        BY <2>1, <2>3, <3>4 DEF Applies
      <4>. QED BY <1>0, <2>3, <2>4, <2>5, <2>7, <3>1, <4>1 DEF Agrees, Answers, running
    <3>. QED BY <3>2, <3>3, <3>4
  <2>9. About(finishing[k])'
    BY <1>0, <2>1, <2>3 DEF About
  <2>. QED BY <1>0, <2>1, <2>2, <2>3, <2>8, <2>9, CommandTaken DEF Commands
<1>3. CASE stop(k)
  <2>1. /\ Handles(k, "stop") /\ request.kind = "stop"
        /\ k = client => lag' = None
        /\ request.current => finishing'[k].kind = "stop"
        /\ UNCHANGED <<filter, client, link, mail>>
    BY <1>0, <1>3, StopRequestMoves
  <2>2. requests[k] # <<>> /\ 1 \in 1 .. Len(requests[k]) /\ requests'[k] = Tail(requests[k])
    BY <1>0, <2>1, HandlesMoves
  <2>3. request.current
    BY <2>1, <2>2, CommandAlone DEF Commands
  <2>4. ASSUME link'[k] = "open" PROVE Agrees(k)'
    BY <1>0, <2>1, <2>4 DEF Ends, Agrees, running
  <2>5. About(finishing[k])'
    BY <2>1, <2>3 DEF About
  <2>. QED BY <1>0, <2>1, <2>2, <2>3, <2>4, <2>5, CommandTaken DEF Commands
<1>4. CASE heartbeat(k)
  <2>1. /\ Handles(k, "heartbeat") /\ request.kind = "heartbeat"
        /\ UNCHANGED <<filter, client, lag, packets, finishing, link>>
    BY <1>0, <1>4, HeartbeatMoves
  <2>2. PICK answer \in AnswersOn(k) \cup {NoAnswer} :
          /\ Send(answer)
          /\ answer # NoAnswer => ~running /\ request.current /\ answer.kind = "heartbeat"
    BY <1>0, <1>4, HeartbeatMoves
  <2>3. requests[k] # <<>> /\ 1 \in 1 .. Len(requests[k]) /\ requests'[k] = Tail(requests[k])
    BY <1>0, <2>1, HandlesMoves
  <2>4. /\ \A d : d # k => Replies(d)' = Replies(d)
        /\ \A m \in Replies(k)' : m \in Replies(k) \/ (m = answer /\ answer # NoAnswer)
        /\ mail \subseteq mail'
    BY <2>2, SendAnswers
  <2>5. Replied(k)' = Replied(k)
    BY <2>2, <2>4, Shapes DEF Replied, Replies, Commands
  <2>6. \A m \in Answers(k)' : m \in Answers(k) \/ m.kind = "heartbeat"
    BY <2>1, <2>2, <2>4 DEF Answers
  <2>7. \A m \in Answers(k) : m \in Answers(k)'
    BY <2>1, <2>4 DEF Answers, Replies
  <2>8. Single(k)'
    <3>1. /\ OneCommand(requests[k])'
          /\ NoneOf(requests[k], Commands) => NoneOf(requests[k], Commands)'
      BY <1>0, <2>3, QueueTail DEF AgreementOn, Single
    <3>2. \A i \in 1 .. Len(requests'[k]) : \E j \in 1 .. Len(requests[k]) : requests'[k][i] = requests[k][j]
      BY <1>0, <2>3, QueueHead
    <3>3. \A m \in Answers(k)' : About(m)'
      BY <1>0, <2>6 DEF AgreementOn, Single, About
    <3>4. \A i \in 1 .. Len(requests'[k]) :
            requests'[k][i].kind \in Commands => requests'[k][i].current /\ About(requests[k][i])'
      BY <1>0, <3>2 DEF AgreementOn, Single, About
    <3>5. /\ NoneOf(requests[k], Commands)' \/ (finishing'[k] = NoAnswer /\ Replied(k)' = {})
          /\ finishing'[k] = NoAnswer \/ Replied(k)' = {}
          /\ \A m, n \in Replied(k)' : m = n
      BY <2>1, <2>5, <3>1 DEF AgreementOn, Single
    <3>. QED BY <3>1, <3>3, <3>4, <3>5 DEF Single
  <2>9. Silent(k) => Silent(k)'
    BY <1>0, <2>1, <2>3, <2>5, QueueTail DEF Silent
  <2>10. Beats(requests[k])' => Beats(requests[k])
    BY <1>0, <2>3, QueueTail
  <2>11. answer # NoAnswer => Beats(requests[k])
    BY <2>1, <2>2, <2>3 DEF Beats
  <2>12. ASSUME link'[k] = "open" PROVE Agrees(k)'
    <3>1. Agrees(k) /\ running' = running
      BY <2>1, <2>12 DEF AgreementOn, running
    <3>2. \A m \in Answers(k)' : m.kind = "configure" => m \in Answers(k)
      BY <2>6
    <3>3. \A m \in Replies(k)' : m.kind = "heartbeat" => ~running'
      BY <2>2, <2>4, <3>1 DEF Agrees
    <3>. QED BY <1>0, <2>1, <2>7, <3>1, <3>2, <3>3 DEF Agrees
  <2>. QED BY <1>0, <2>4, <2>8, <2>9, <2>10, <2>11, <2>12 DEF AgreementOn
<1>5. CASE Reply(k)
  <2>1. /\ finishing[k] # NoAnswer /\ Send(finishing[k])
        /\ finishing' = [finishing EXCEPT ![k] = NoAnswer]
        /\ UNCHANGED <<filter, client, capture, packets, link, requests>>
    BY <1>5 DEF Reply
  <2>2. finishing'[k] = NoAnswer
    BY <1>0, <2>1 DEF Typed
  <2>3. CASE link[k] # "open"
    <3>1. mail' = mail
      BY <1>0, <2>1, <2>3, SendAnswers
    <3>2. \A d : Replies(d)' = Replies(d)
      BY <3>1 DEF Replies
    <3>. QED BY <1>0, <2>1, <2>2, <2>3, <3>2, AgreementKept
  <2>4. CASE link[k] = "open"
    <3>1. /\ finishing[k] \in AnswersOn(k) /\ finishing[k].on = k /\ finishing[k].kind \in Commands
          /\ mail' = mail \cup {finishing[k]}
      BY <1>0, <2>1, <2>4, Shapes DEF Send, Kinds
    <3>2. /\ \A d : d # k => Replies(d)' = Replies(d)
          /\ Replies(k)' = Replies(k) \cup {finishing[k]}
      BY <3>1, Shapes DEF Replies, Commands
    <3>3. Replied(k) = {} /\ NoneOf(requests[k], Commands) /\ busy
      BY <2>1 DEF AgreementOn, Single, Silent
    <3>4. Replied(k)' = {finishing[k]}
      BY <3>1, <3>2, <3>3 DEF Replied
    <3>5. \A m \in Answers(k)' : m \in Answers(k) \/ m = NoAnswer
      BY <2>2, <3>2 DEF Answers
    <3>6. \A m \in Answers(k) : m \in Answers(k)'
      BY <3>2 DEF Answers
    <3>7. Single(k)'
      BY <1>0, <2>1, <2>2, <3>3, <3>4, <3>5, Shapes DEF AgreementOn, Single, About
    <3>8. ~Silent(k)
      BY <2>1 DEF Silent
    <3>9. ~Beats(requests[k])' /\ \A m \in Replies(k)' : m.kind # "heartbeat"
      BY <1>0, <2>1, <3>2, <3>8 DEF AgreementOn
    <3>10. Agrees(k)'
      <4>1. Agrees(k) /\ running' = running /\ lag' = lag
        BY <2>1, <2>4 DEF AgreementOn, running, capture
      <4>. QED BY <1>0, <3>5, <3>6, <3>9, <4>1, Shapes DEF Agrees
    <3>. QED BY <1>0, <3>2, <3>3, <3>7, <3>9, <3>10 DEF AgreementOn
  <2>. QED BY <2>3, <2>4
<1>6. CASE Lost(k)
  <2>1. /\ link'[k] = "unused" /\ requests'[k] = <<>> /\ finishing'[k] = NoAnswer /\ mail' = mail
    BY <1>0, <1>6 DEF Lost, Typed
  <2>2. \A d : Replies(d)' = Replies(d)
    BY <2>1 DEF Replies
  <2>. QED BY <1>0, <2>1, <2>2, AgreementKept
<1>. QED BY <1>1, <1>2, <1>3, <1>4, <1>5, <1>6 DEF ProviderConnection

(* A new command, about the preset that is shown.                          *)
LEMMA CommandAgreement ==
  ASSUME Base, Agreement, NEW message \in Fresh, Command(message),
         message.kind \in Commands, message.current, About(message)
  PROVE  Agreement'
<1>0. Typed /\ None \notin Connections
  BY MacProviderAssumption DEF Base
<1>1. /\ ~busy /\ busy' /\ mail' = Losses /\ finishing' = NobodyAnswers
      /\ SendRequest(message, OlderRequests) /\ UNCHANGED <<lag, shown, hostRunning>>
  BY DEF Command, capture
<1>2. /\ DOMAIN OlderRequests = Connections
      /\ \A d \in Connections :
           OlderRequests[d] = Older(requests[d]) /\ OlderRequests[d] \in Seq(RequestsOn(d))
  BY <1>0, OlderTyped
<1>sent. Sent(message, OlderRequests)
  BY <1>0, <1>1, <1>2, SendMoves
<1>3. PICK k \in Connections : k = connection'
  BY <1>sent DEF Sent
<1>. DEFINE r == [message EXCEPT !.on = k]
<1>4. /\ connection # None => k = connection /\ link' = link
      /\ connection = None =>
           k \in FreeConnections /\ link' = [link EXCEPT ![k] = "new"]
      /\ r \in RequestsOn(k)
      /\ requests'[k] = Append(OlderRequests[k], r) \/ requests'[k] = OlderRequests[k]
  <2>1. /\ connection # None => connection' = connection /\ link' = link
        /\ connection = None =>
             connection' \in FreeConnections /\ link' = [link EXCEPT ![connection'] = "new"]
    BY <1>sent DEF Sent
  <2>2. [message EXCEPT !.on = connection'] \in RequestsOn(connection')
    BY <1>sent DEF Sent
  <2>3. requests'[k] = IF k = connection' /\ link'[k] \in {"new", "open"}
                       THEN Append(OlderRequests[k], [message EXCEPT !.on = k])
                       ELSE OlderRequests[k]
    BY <1>sent, <1>3 DEF Sent
  <2>. QED BY <1>3, <2>1, <2>2, <2>3
<1>5. NoneOf(requests[k], Commands) /\ requests[k] \in Seq(RequestsOn(k))
  <2>1. CASE connection = None
    BY <1>0, <1>3, <1>4, <2>1, QueueEmpty DEF FreeConnections, Base, Links, Ends, Typed
  <2>2. CASE connection # None
    BY <1>0, <1>1, <1>3, <1>4, <2>2 DEF Agreement, AgreementOn, Silent, Typed
  <2>. QED BY <2>1, <2>2
<1>6. finishing'[k] = NoAnswer /\ \A d : Replies(d)' = {} /\ Replied(d)' = {}
  BY <1>1, <1>4, <1>3 DEF NobodyAnswers, Replies, Replied, Losses
<1>7. /\ Older(requests[k]) \in Seq(RequestsOn(k)) /\ OlderRequests[k] = Older(requests[k])
      /\ NoneOf(Older(requests[k]), Commands) /\ ~Beats(Older(requests[k]))
  BY <1>2, <1>3, <1>4, <1>5, QueueOlder
<1>8. r.kind \in Commands /\ r.current /\ About(r)' /\ r.kind # "heartbeat"
  BY <1>1 DEF Fresh, About, Commands
<1>. DEFINE q == requests'[k]
<1>9. OneCommand(q) /\ ~Beats(q)
      /\ \A i \in 1 .. Len(q) : q[i].kind \in Commands => q[i].current /\ About(requests[k][i])'
  <2>1. CASE q = Append(OlderRequests[k], r)
    <3>1. /\ OneCommand(q)
          /\ Beats(q) => Beats(Older(requests[k])) \/ (r.current /\ r.kind = "heartbeat")
          /\ \A i \in 1 .. Len(q) : i \in 1 .. Len(Older(requests[k])) \/ i = Len(Older(requests[k])) + 1
          /\ \A i \in 1 .. Len(Older(requests[k])) : q[i] = Older(requests[k])[i]
          /\ q[Len(Older(requests[k])) + 1] = r
      <4>. DEFINE older == Older(requests[k])
      <4>1. older \in Seq(RequestsOn(k)) /\ NoneOf(older, Commands) /\ q = Append(older, r)
        BY <1>7, <2>1
      <4>2. r \in RequestsOn(k)
        BY <1>4
      <4>. HIDE DEF older, q, r
      <4>3. /\ OneCommand(q)
            /\ Beats(q) => Beats(older) \/ (r.current /\ r.kind = "heartbeat")
            /\ \A i \in 1 .. Len(q) : i \in 1 .. Len(older) \/ i = Len(older) + 1
            /\ \A i \in 1 .. Len(older) : q[i] = older[i]
            /\ q[Len(older) + 1] = r
        BY <4>1, <4>2, QueueAppend
      <4>. QED BY <4>3 DEF older
    <3>2. \A i \in 1 .. Len(q) : q[i].kind \in Commands => q[i] = r
      BY <1>7, <3>1 DEF NoneOf
    <3>3. About(r)' => \A i \in 1 .. Len(q) : q[i] = r => About(requests[k][i])'
      BY DEF About
    <3>. HIDE DEF q, r
    <3>. QED BY <3>3, <1>7, <1>8, <3>1, <3>2
  <2>2. CASE q = OlderRequests[k]
    BY <1>7, <2>2, QueueEmpty DEF NoneOf, OneCommand
  <2>. QED BY <1>3, <1>4, <2>1, <2>2
<1>10. Single(k)'
  BY <1>6, <1>9, Shapes DEF Single, Answers, About
<1>11. ASSUME link'[k] = "open" PROVE Agrees(k)'
  <2>1. connection # None /\ k = connection /\ link[k] = "open"
    BY <1>0, <1>3, <1>4, <1>11 DEF Typed, FreeConnections
  <2>2. Agrees(k) /\ Silent(k)
    BY <1>1, <2>1 DEF Agreement, AgreementOn
  <2>3. running => hostRunning /\ shown = lag
    BY <2>2, SilentAnswers DEF Agrees
  <2>. QED BY <1>1, <1>6, <2>3, Shapes DEF Agrees, Answers, running
<1>. HIDE DEF r
<1>12. AgreementOn(k)'
  BY <1>1, <1>6, <1>9, <1>10, <1>11 DEF AgreementOn
<1>. QED BY <1>3, <1>12 DEF Agreement

LEMMA SettingPair == \A setting \in Settings : setting = <<setting[1], setting[2]>>
  BY DEF Settings

(* An answer to a command is the only one.                                 *)
LEMMA AnswerTaken ==
  ASSUME Base, NEW k \in Connections, AgreementOn(k), NEW m \in mail, m.kind \in Commands,
         mail' = mail \ {m}, ~busy', UNCHANGED <<link, requests, finishing>>,
         link'[k] = "open" => Agrees(k)'
  PROVE  AgreementOn(k)'
<1>1. m \in Replied(k) /\ \A c : Replies(c)' = Replies(c) \ {m}
  <2>1. PICK c \in Connections : m = LostMail(c) \/ m \in AnswersOn(c)
    BY DEF Base, Typed
  <2>2. m \in Replies(c)
    BY <2>1, Shapes DEF Replies, Commands
  <2>. QED BY <2>2 DEF AgreementOn, Replied, Replies
<1>2. finishing[k] = NoAnswer /\ NoneOf(requests[k], Commands) /\ Replied(k) = {m}
  BY <1>1 DEF AgreementOn, Single
<1>3. Replied(k)' = {} /\ NoneOf(requests[k], Commands)' /\ finishing'[k] = NoAnswer
  BY <1>1, <1>2 DEF Replied
<1>4. Silent(k)'
  BY <1>3 DEF Silent
<1>5. \A n \in Answers(k)' : n.kind # "configure"
  BY <1>4, SilentAnswers, Shapes DEF Answers, Silent, Replied, Commands
<1>6. Single(k)'
  BY <1>3, <1>5 DEF Single, NoneOf, OneCommand, About
<1>. QED BY <1>1, <1>4, <1>6 DEF AgreementOn

LEMMA MailAgreement ==
  ASSUME Base, Base', Stopping, NEW k \in Connections, connection = k, AgreementOn(k),
         NEW m \in mail, Configured(m) \/ Stopped(m) \/ Beaten(m)
  PROVE  AgreementOn(k)'
<1>0. Typed /\ Ends(k)
  BY DEF Base, Links
<1>1. PICK c \in Connections : m = LostMail(c) \/ m \in AnswersOn(c)
  BY DEF Base, Typed
<1>2. m \in Replies(k) /\ m \in AnswersOn(k)
  BY <1>1, Shapes DEF Configured, Stopped, Beaten, Replies, AgreementOn
<1>3. /\ mail' = mail \ {m} /\ UNCHANGED <<lag, client, link, requests, finishing>>
      /\ running' = running
  BY DEF Configured, Stopped, Beaten, Takes, provider, capture, running
<1>4. /\ \A n \in Answers(k)' : n \in Answers(k)
      /\ \A n \in Replies(k)' : n \in Replies(k) /\ n # m
      /\ \A n \in Answers(k) : n # m => n \in Answers(k)'
      /\ \A d : d # k => Replies(d)' = Replies(d)
  BY <1>2, <1>3 DEF Answers, Replies
<1>5. CASE Configured(m)
  <2>1. /\ m.kind = "configure" /\ ~busy'
        /\ m.failed => UNCHANGED <<shown, hostRunning>>
        /\ ~m.failed => shown' = <<shown[1], m.setting[2]>> /\ (hostRunning' = m.active)
    BY <1>5 DEF Configured
  <2>2. ASSUME link'[k] = "open" PROVE Agrees(k)'
    <3>1. Agrees(k)
      BY <1>3, <2>2 DEF AgreementOn
    <3>2. m \in Answers(k) /\ \A n \in Answers(k) : n.kind = "configure" => n = m
      BY <1>2, <2>1, Shapes DEF Answers, AgreementOn, Single, Replied, Commands
    <3>3. m \notin Replies(k)' /\ finishing'[k].kind # "configure"
      BY <1>2, <1>3, <1>4, <2>1, Shapes DEF AgreementOn, Single, Replied, Commands
    <3>4. running' => hostRunning' /\ shown' = lag'
      <4>1. CASE m.failed
        BY <1>3, <2>1, <3>1, <3>2, <4>1 DEF Agrees
      <4>2. CASE ~m.failed /\ running
        <5>1. m.active /\ m.setting = lag /\ shown[1] = m.setting[1] /\ m.setting \in Settings
          BY <1>0, <2>1, <3>1, <3>2, <4>2 DEF Agrees, AgreementOn, Single, About, Typed, running
        <5>2. m.setting = <<m.setting[1], m.setting[2]>>
          BY <5>1, SettingPair
        <5>. QED BY <1>3, <2>1, <4>2, <5>1, <5>2
      <4>. QED BY <1>3, <4>1, <4>2
    <3>5. \A n \in Answers(k)' : n.kind # "configure"
      BY <1>4, <3>2, <3>3 DEF Answers
    <3>. QED BY <1>3, <1>4, <3>1, <3>4, <3>5 DEF Agrees
  <2>. QED BY <1>3, <2>1, <2>2, AnswerTaken DEF Commands
<1>6. CASE Stopped(m)
  <2>1. /\ m.kind = "stop" /\ ~busy' /\ UNCHANGED shown
        /\ m.failed => hostRunning' = hostRunning
    BY <1>6 DEF Stopped
  <2>2. ASSUME link'[k] = "open" PROVE Agrees(k)'
    <3>1. Agrees(k) /\ client = k
      BY <1>0, <1>3, <2>2 DEF AgreementOn, Ends
    <3>2. m \in Answers(k) /\ \A n \in Answers(k) : n.kind # "configure"
      BY <1>2, <2>1, Shapes DEF Answers, AgreementOn, Single, Replied, Commands
    <3>3. CASE m.failed
      BY <1>3, <1>4, <2>1, <3>1, <3>2, <3>3 DEF Agrees
    <3>4. CASE ~m.failed
      <4>1. ~running
        BY <2>1, <3>1, <3>2, <3>4 DEF Stopping, StoppingOn
      <4>. QED BY <1>3, <1>4, <4>1 DEF Agrees
    <3>. QED BY <3>3, <3>4
  <2>. QED BY <1>3, <2>1, <2>2, AnswerTaken DEF Commands
<1>7. CASE Beaten(m)
  <2>1. m.kind = "heartbeat" /\ UNCHANGED <<shown, busy>>
    BY <1>7 DEF Beaten, command
  <2>2. Silent(k)
    BY <1>2, <2>1 DEF AgreementOn
  <2>3. Replied(k)' = Replied(k)
    BY <1>3, <2>1 DEF Replied, Replies, Commands
  <2>4. Silent(k)'
    BY <1>3, <2>2, <2>3 DEF Silent
  <2>5. Single(k)'
    BY <1>3, <1>4, <2>1, <2>3 DEF AgreementOn, Single, About
  <2>6. ASSUME link'[k] = "open" PROVE Agrees(k)'
    <3>1. ~running'
      BY <1>2, <1>3, <2>1, <2>6 DEF AgreementOn, Agrees
    <3>. QED BY <3>1 DEF Agrees
  <2>. QED BY <1>4, <2>4, <2>5, <2>6 DEF AgreementOn
<1>. QED BY <1>5, <1>6, <1>7

LEMMA ImportAgreement ==
  ASSUME Typed, NEW k \in Connections, AgreementOn(k), NEW sequence, import(sequence)
  PROVE  AgreementOn(k)'
<1>1. /\ ~busy /\ ~hostRunning /\ hostRunning' = hostRunning /\ busy' = busy
      /\ UNCHANGED <<lag, link, requests, mail, finishing>>
  BY DEF import, provider, capture, channel, command
<1>2. Silent(k)
  BY <1>1 DEF AgreementOn
<1>3. \A d : Replies(d)' = Replies(d) /\ Replied(d)' = Replied(d) /\ Answers(d)' = Answers(d)
  BY <1>1 DEF Replies, Replied, Answers
<1>4. \A m \in Answers(k) : m.kind # "configure"
  BY <1>2, SilentAnswers
<1>5. Silent(k)' /\ Single(k)'
  BY <1>1, <1>2, <1>3, <1>4 DEF Silent, Single, About, NoneOf, AgreementOn
<1>6. ASSUME link'[k] = "open" PROVE Agrees(k)'
  BY <1>1, <1>3, <1>4, <1>6 DEF AgreementOn, Agrees, running
<1>. QED BY <1>3, <1>5, <1>6 DEF AgreementOn

LEMMA BeatAgreement ==
  ASSUME Base, NEW k \in Connections, connection = k, AgreementOn(k), sendHeartbeat
  PROVE  AgreementOn(k)'
<1>. DEFINE beat == [Request("heartbeat", None, FALSE) EXCEPT !.current = ~busy]
            r == [beat EXCEPT !.on = k]
<1>0. Typed /\ None \notin Connections
  BY MacProviderAssumption DEF Base
<1>1. /\ SendRequest(beat, requests)
      /\ UNCHANGED <<lag, finishing, mail, busy, shown, hostRunning>>
  BY DEF sendHeartbeat, provider, capture
<1>2. beat \in Fresh
  <2>1. (~busy) \in BOOLEAN
    OBVIOUS
  <2>. QED BY <2>1, RequestFresh, Zenon
<1>3. r.kind = "heartbeat" /\ (r.current <=> ~busy)
  BY DEF Request
<1>. HIDE DEF beat
<1>4. /\ DOMAIN requests = Connections /\ requests[k] \in Seq(RequestsOn(k))
      /\ \A d \in Connections : requests[d] \in Seq(RequestsOn(d))
  BY <1>0 DEF Typed
<1>5. /\ link' = link /\ r \in RequestsOn(k)
      /\ requests'[k] = Append(requests[k], r) \/ requests'[k] = requests[k]
  <2>sent. Sent(beat, requests)
    BY <1>0, <1>1, <1>2, <1>4, SendMoves
  <2>1. /\ connection' = k /\ link' = link /\ [beat EXCEPT !.on = connection'] \in RequestsOn(connection')
        /\ \A d \in Connections :
             requests'[d] = IF d = connection' /\ link'[d] \in {"new", "open"}
                            THEN Append(requests[d], [beat EXCEPT !.on = d])
                            ELSE requests[d]
    BY <1>0, <2>sent DEF Sent
  <2>. QED BY <2>1
<1>. HIDE DEF r
<1>6. \A d : Replies(d)' = Replies(d) /\ Replied(d)' = Replied(d) /\ Answers(d)' = Answers(d)
  BY <1>1 DEF Replies, Replied, Answers
<1>. DEFINE q == requests'[k]
<1>7. /\ OneCommand(requests[k]) => OneCommand(q)
      /\ NoneOf(requests[k], Commands) => NoneOf(q, Commands)
      /\ Beats(q) => Beats(requests[k]) \/ ~busy
      /\ \A i \in 1 .. Len(q) : q[i].kind \in Commands => i \in 1 .. Len(requests[k]) /\ q[i] = requests[k][i]
  <2>1. CASE q = Append(requests[k], r)
    BY <1>3, <1>4, <1>5, <2>1, QueueAppend DEF Commands
  <2>2. CASE q = requests[k]
    BY <2>2
  <2>. QED BY <1>5, <2>1, <2>2
<1>8. Single(k)'
  <2>1. OneCommand(requests[k])' /\ \A m \in Answers(k)' : About(m)'
    BY <1>1, <1>6, <1>7 DEF AgreementOn, Single, About
  <2>2. \A i \in 1 .. Len(q) : q[i].kind \in Commands => q[i].current /\ About(requests[k][i])'
    BY <1>1, <1>7 DEF AgreementOn, Single, About
  <2>3. /\ NoneOf(requests[k], Commands)' \/ (finishing'[k] = NoAnswer /\ Replied(k)' = {})
        /\ finishing'[k] = NoAnswer \/ Replied(k)' = {}
        /\ \A m, n \in Replied(k)' : m = n
    BY <1>1, <1>6, <1>7 DEF AgreementOn, Single
  <2>. QED BY <2>1, <2>2, <2>3 DEF Single
<1>9. Silent(k) => Silent(k)'
  BY <1>1, <1>6, <1>7 DEF Silent
<1>10. link'[k] = "open" => Agrees(k)'
  BY <1>1, <1>5, <1>6 DEF AgreementOn, Agrees, running
<1>. QED BY <1>1, <1>6, <1>7, <1>8, <1>9, <1>10 DEF AgreementOn

(* A step of the host's after which no command is in flight, or none that  *)
(* was not before.                                                         *)
LEMMA HostAgreement ==
  ASSUME Base, NEW k \in Connections, connection = k, AgreementOn(k), ~LateApproval,
         \/ \E what : AskSystem(what)
         \/ SystemAnswers
         \/ CommandTimesOut
         \/ UNCHANGED vars
  PROVE  AgreementOn(k)'
<1>0. Typed
  BY DEF Base
<1>1. /\ UNCHANGED <<lag, finishing, shown, hostRunning>>
      /\ \A d : Replies(d)' = Replies(d)
  BY Shapes DEF AskSystem, SystemAnswers, CommandTimesOut, vars, provider, channel, capture,
                host, command, Replies
<1>2. busy => busy' \/ Silent(k)
  <2>1. CASE SystemAnswers
    <3>1. \A m \in Around : m.kind \notin Commands
      BY <2>1 DEF SystemAnswers, CommandInFlight, Commands
    <3>2. finishing[k] \in Around /\ (\A m \in Replies(k) : m \in Around)
          /\ \A i \in 1 .. Len(requests[k]) : requests[k][i] \in Around
      <4>1. \A i \in 1 .. Len(requests[k]) : requests[k][i] \in ToSet(requests[k])
        BY DEF ToSet
      <4>. QED BY <4>1 DEF Around, Replies
    <3>3. finishing[k] = NoAnswer
      BY <1>0, <3>1, <3>2, Shapes DEF Typed, Kinds
    <3>. QED BY <3>1, <3>2, <3>3 DEF Silent, NoneOf, Replied
  <2>2. CASE ~SystemAnswers
    BY <2>2 DEF AskSystem, CommandTimesOut, vars, host, command
  <2>. QED BY <2>1, <2>2
<1>3. /\ requests'[k] = requests[k] \/ requests'[k] = <<>>
      /\ link'[k] = "open" => link[k] = "open"
  <2>1. CASE CommandTimesOut /\ busy /\ connection # None
    <3>1. Invalidate(k)
      BY <2>1 DEF CommandTimesOut
    <3>. QED BY <3>1, InvalidateMoves
  <2>2. CASE ~(CommandTimesOut /\ busy /\ connection # None)
    BY <2>2 DEF AskSystem, SystemAnswers, CommandTimesOut, vars, channel
  <2>. QED BY <2>1, <2>2
<1>. QED BY <1>1, <1>2, <1>3, AgreementKept DEF AgreementOn

LEMMA AgreementStep ==
  ASSUME Base, Base', Stopping, Agreement, ~LateApproval, [Next]_vars
  PROVE  Agreement'
<1>1. CASE UserStep /\ ~HostQuits /\ ~\E sequence : import(sequence)
  <2>1. ASSUME NEW step, NEW start \in BOOLEAN, move(step, start) PROVE Agreement'
    <3>. DEFINE message == Request("configure", <<shown[1], step>>, start)
    <3>1. Command(message) /\ <<shown[1], step>> \in Settings
      BY <2>1 DEF move
    <3>2. message \in Fresh
      BY <3>1, RequestFresh
    <3>3. message.kind \in Commands /\ message.current /\ About(message)
      BY DEF Request, Commands, About
    <3>. QED BY <3>1, <3>2, <3>3, CommandAgreement
  <2>2. CASE hostStop
    <3>. DEFINE message == Request("stop", None, FALSE)
    <3>1. message.kind \in Commands /\ message.current /\ About(message)
      BY DEF Request, Commands, About
    <3>. QED BY <2>2, <3>1, RequestFresh, CommandAgreement DEF hostStop
  <2>. QED BY <1>1, <2>1, <2>2 DEF UserStep
<1>2. CASE HostQuits \/ PreferencesRemoved \/ \E m \in mail : ConnectionLost(m)
  BY <1>2 DEF HostQuits, PreferencesRemoved, ConnectionLost, Agreement
<1>3. ASSUME connection = None,
             [Next]_vars, ~(UserStep /\ ~HostQuits /\ ~\E sequence : import(sequence)),
             ~(HostQuits \/ PreferencesRemoved \/ \E m \in mail : ConnectionLost(m))
      PROVE  connection' = None
  BY <1>3 DEF Next, UserStep, SystemStep, HostStep, ProviderStep, TakeMail, import, AskSystem,
              SystemAnswers, sendHeartbeat, CommandTimesOut, Configured, Stopped, Beaten,
              vars, host, command
<1>4. ASSUME NEW k \in Connections, connection = k, AgreementOn(k),
             ~(UserStep /\ ~HostQuits /\ ~\E sequence : import(sequence)),
             ~(HostQuits \/ PreferencesRemoved \/ \E m \in mail : ConnectionLost(m))
      PROVE  Agreement'
  <2>1. CASE \E sequence : import(sequence)
    <3>1. connection' = k
      BY <1>4, <2>1 DEF import, command
    <3>. QED BY <1>4, <2>1, <3>1, ImportAgreement DEF Agreement, Base
  <2>2. CASE sendHeartbeat
    <3>1. connection' = k
      BY <1>4, <2>2 DEF sendHeartbeat, SendRequest
    <3>. QED BY <1>4, <2>2, <3>1, BeatAgreement DEF Agreement
  <2>3. ASSUME NEW m \in mail, Configured(m) \/ Stopped(m) \/ Beaten(m) PROVE Agreement'
    <3>1. connection' = k
      BY <1>4, <2>3 DEF Configured, Stopped, Beaten, command
    <3>. QED BY <1>4, <2>3, <3>1, MailAgreement DEF Agreement
  <2>4. CASE \/ \E what : AskSystem(what)
             \/ SystemAnswers
             \/ CommandTimesOut
             \/ UNCHANGED vars
    <3>1. connection' = k
      BY <1>4, <2>4 DEF AskSystem, SystemAnswers, CommandTimesOut, vars, host, command
    <3>. QED BY <1>4, <2>4, <3>1, HostAgreement DEF Agreement
  <2>5. CASE ProviderStep
    <3>1. connection' = k /\ UNCHANGED host
      BY <1>4, <2>5 DEF ProviderStep, host, command
    <3>2. AgreementOn(k)'
      BY <1>4, <2>5, <3>1, FilterAgreement, PacketsAgreement, OthersAgreement, OwnAgreement
         DEF ProviderStep
    <3>. QED BY <3>1, <3>2 DEF Agreement
  <2>. QED BY <1>4, <2>1, <2>2, <2>3, <2>4, <2>5 DEF Next, UserStep, SystemStep, HostStep, TakeMail
<1>5. connection \in Connections \cup {None}
  BY DEF Base, Typed
<1>. QED BY <1>1, <1>2, <1>3, <1>4, <1>5 DEF Agreement

(* docs/MACOS.md:88: an idle host shows a running provider as running, by  *)
(* the preset and step it delays by, whatever was refused, timed out or    *)
(* answered late before; the system's own answers have to be in time.      *)
THEOREM IdleHostAgreesHolds ==
  ASSUME ~LateApproval
  PROVE  Spec => []IdleHostAgrees
<1>1. Init => Base /\ Stopping /\ Agreement
  <2>1. Init => Agreement
    BY DEF Init, HostInit, Agreement
  <2>. QED BY <2>1, BaseInit, StoppingInit
<1>2. Base /\ Stopping /\ Agreement /\ [Next]_vars => (Base /\ Stopping /\ Agreement)'
  BY BaseStep, StoppingStep, AgreementStep
<1>3. Base /\ Stopping /\ Agreement => IdleHostAgrees
  <2>. SUFFICES ASSUME Agreement, ~busy, connection # None, link[connection] = "open", running
                PROVE  hostRunning /\ shown = lag
    BY DEF IdleHostAgrees
  <2>1. Silent(connection) /\ Agrees(connection)
    BY DEF Agreement, AgreementOn
  <2>. QED BY <2>1, SilentAnswers DEF Agrees
<1>. QED BY <1>1, <1>2, <1>3, PTL DEF Spec
=============================================================================
