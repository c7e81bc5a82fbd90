----------------------------- MODULE MacProvider -----------------------------
(***************************************************************************)
(* The packet filter of the macOS prototype                                *)
(* (platform/macos/provider.m, backends/macos/held_packets.c): an          *)
(* extension process of its own that delays packets for the one host       *)
(* application connected to it.                                            *)
(*                                                                         *)
(* Everything withState does under the state lock is one step.  What it    *)
(* takes out of the queue is allowed behind the lock, while other threads  *)
(* go on: the timer, the call that stops the filter and one serial queue   *)
(* for each connection.                                                    *)
(*                                                                         *)
(* The clock is two ages: how long a packet has been held, and whether     *)
(* the last contact lies more than ten seconds back.                       *)
(***************************************************************************)
EXTENDS Naturals, Sequences, SequencesExt, FiniteSets

CONSTANTS
  Packets,      (* bound of the model: packets held at the same time      *)
  Outbound,     (* those among them that leave the machine                *)
  HeldLimit,    (* MAC_HELD_LIMIT                                         *)
  Sequences,    (* presets the user may import                            *)
  StepCount,    (* the number of steps of each                            *)
  Lag,          (* delay of a step by direction, 0 where nothing is       *)
                (* delayed                                                *)
  Target,       (* the traffic a preset selects                           *)
  Connections,  (* bound of the model: connections known at one time      *)
  Other,        (* the connection of another copy of the application      *)
  None          (* no connection, and no setting                          *)

Settings == UNION {{s} \X (1 .. StepCount[s]) : s \in Sequences}

Delays == {Lag[s][way] : s \in Settings, way \in {"inbound", "outbound"}}

ASSUME MacProviderAssumption ==
  /\ Outbound \subseteq Packets
  /\ HeldLimit \in Nat \ {0}
  /\ StepCount \in [Sequences -> Nat \ {0}]
  /\ Lag \in [Settings -> [inbound : Nat, outbound : Nat]]
  /\ DOMAIN Target = Sequences
  /\ IsFiniteSet(Delays)
  /\ "timer" \notin Connections /\ "filter" \notin Connections
  /\ Other \notin Connections \cup {None}
  /\ None \notin Connections /\ None \notin Settings

VARIABLES
  filter,      (* off, on (available) or stopping                         *)
  client,      (* the connection that controls the provider               *)
  lag,         (* the preset and step in force, None unless running       *)
  overdue,     (* now - lastContact > 10000, of a running session         *)
  held, age,   (* packets held back, and how long                         *)
  delivering,  (* packets a thread has taken out and not yet allowed      *)
  finishing,   (* what a connection's queue answers once it has delivered *)
  link,        (* XPC connections                                         *)
  requests,    (* messages of each connection on their way                *)
  mail         (* blocks on their way to the host's main queue            *)

packets == <<held, age, delivering>>
capture == <<lag, overdue>>
channel == <<link, requests, mail>>
provider == <<filter, client, capture, packets, finishing>>

Threads == {"timer", "filter"} \cup Connections

running == lag # None

NoAnswer == [kind |-> "none"]

(* A block that tells the host its connection is lost.                     *)
LostMail(c) == [kind |-> "lost", on |-> c]

-----------------------------------------------------------------------------
(* held_packets.c                                                          *)

MaxDelay == CHOOSE d \in Delays : \A e \in Delays : e <= d

(* With the setting None nothing is delayed.                              *)
DelayFor(setting, p) ==
  IF setting = None THEN 0
  ELSE Lag[setting][IF p \in Outbound THEN "outbound" ELSE "inbound"]

(* A delay that is removed leaves what it held behind.                     *)
ReadyNever(setting, p) ==
  setting # None => DelayFor(setting, p) > 0 /\ age[p] >= DelayFor(setting, p)

Ready(setting, p) == age[p] >= DelayFor(setting, p)

(* macHeldTick in thread t, under the setting in force from now on.        *)
HeldTick(t, setting) ==
  /\ lag' = setting
  /\ held' = {p \in held : ~Ready(setting, p)}
  /\ delivering' = [delivering EXCEPT ![t] = held \ held']
  /\ age' = [p \in Packets |-> IF p \in held' THEN age[p] ELSE 0]

(* macHeldStop: admission is disabled, and everything is due.              *)
HeldStop(t) ==
  /\ HeldTick(t, None)
  /\ overdue' = FALSE

InHand == held \cup UNION {delivering[t] : t \in Threads}

AllDelivered == \A t \in Threads : delivering[t] = {}

-----------------------------------------------------------------------------
ProviderInit ==
  /\ filter = "off"
  /\ client = None
  /\ lag = None
  /\ overdue = FALSE
  /\ held = {}
  /\ age = [p \in Packets |-> 0]
  /\ delivering = [t \in Threads |-> {}]
  /\ finishing = [c \in Connections |-> NoAnswer]
  /\ link = [c \in Connections |-> "unused"]
  /\ requests = [c \in Connections |-> <<>>]
  /\ mail = {}

(* startFilterWithCompletionHandler, called by the system.                 *)
StartFilter ==
  /\ filter = "off"
  /\ filter' = "on"
  /\ UNCHANGED <<client, capture, packets, finishing, channel>>

(* stopFilterWithReason: everything is let go and the client cut off.      *)
StopFilter ==
  /\ filter = "on"
  /\ delivering["filter"] = {}
  /\ filter' = "stopping"
  /\ HeldStop("filter")
  /\ client' = None
  /\ IF client \notin Connections THEN UNCHANGED channel
     ELSE /\ link' = [link EXCEPT ![client] = "cut"]
          /\ mail' = IF link[client] = "open" THEN mail \cup {LostMail(client)} ELSE mail
          /\ UNCHANGED requests
  /\ UNCHANGED finishing

(* dispatch_group_notify runs the system's completion.                     *)
FilterStopped ==
  /\ filter = "stopping"
  /\ AllDelivered
  /\ filter' = "off"
  /\ UNCHANGED <<client, capture, packets, finishing, channel>>

(* The process dies, with whatever it retained, and every host hears it.   *)
ProviderDies ==
  /\ filter # "off"
  /\ filter' = "off"
  /\ client' = None
  /\ lag' = None
  /\ overdue' = FALSE
  /\ held' = {}
  /\ age' = [p \in Packets |-> 0]
  /\ delivering' = [t \in Threads |-> {}]
  /\ finishing' = [c \in Connections |-> NoAnswer]
  /\ link' = [c \in Connections |-> "unused"]
  /\ requests' = [c \in Connections |-> <<>>]
  /\ mail' = mail \cup {LostMail(c) : c \in {d \in Connections : link[d] \in {"new", "open"}}}

-----------------------------------------------------------------------------
(* The packet handler holds a packet that the preset selects.  One that    *)
(* passes changes nothing.                                                 *)
HoldPacket(p) ==
  /\ p \notin InHand
  /\ filter = "on"
  /\ DelayFor(lag, p) > 0
  /\ Cardinality(held) < HeldLimit
  /\ held' = held \cup {p}
  /\ UNCHANGED <<filter, client, capture, age, delivering, finishing, channel>>

(* Thread t has allowed the packets it took out.                           *)
AllowPackets(t) ==
  /\ delivering[t] # {}
  /\ delivering' = [delivering EXCEPT ![t] = {}]
  /\ UNCHANGED <<filter, client, capture, held, age, finishing, channel>>

(* Without the watchdog.                                                   *)
TickOnly ==
  /\ filter = "on"
  /\ delivering["timer"] = {}
  /\ HeldTick("timer", lag)
  /\ UNCHANGED <<overdue, filter, client, finishing, channel>>

(* The timer's handler, every 2 ms: the watchdog, then the queue.          *)
TimerTick ==
  /\ filter = "on"
  /\ delivering["timer"] = {}
  /\ IF overdue THEN HeldStop("timer") ELSE HeldTick("timer", lag) /\ UNCHANGED overdue
  /\ UNCHANGED <<filter, client, finishing, channel>>

TimePasses ==
  /\ \E p \in held : age[p] < MaxDelay
  /\ age' = [p \in Packets |-> IF p \in held /\ age[p] < MaxDelay THEN age[p] + 1 ELSE age[p]]
  /\ UNCHANGED <<filter, client, capture, held, delivering, finishing, channel>>

ContactAges ==
  /\ running /\ ~overdue
  /\ overdue' = TRUE
  /\ UNCHANGED <<filter, client, lag, packets, finishing, channel>>

-----------------------------------------------------------------------------
(* shouldAcceptNewConnection: one client at a time.  Without a listener    *)
(* nobody accepts.                                                         *)
Accept(c) ==
  /\ link[c] = "new"
  /\ IF filter = "on" /\ client = None
     THEN /\ client' = c
          /\ link' = [link EXCEPT ![c] = "open"]
          /\ UNCHANGED <<requests, mail>>
     ELSE /\ link' = [link EXCEPT ![c] = "unused"]
          /\ requests' = [requests EXCEPT ![c] = <<>>]
          /\ mail' = mail \cup {LostMail(c)}
          /\ UNCHANGED client
  /\ UNCHANGED <<filter, capture, packets, finishing>>

(* The other copy only connects and quits: a bound of the model.           *)
OtherConnects ==
  /\ filter = "on" /\ client = None
  /\ client' = Other
  /\ UNCHANGED <<filter, capture, packets, finishing, channel>>

OtherQuits ==
  /\ client = Other
  /\ client' = None
  /\ UNCHANGED <<filter, capture, packets, finishing, channel>>

(* The queue of connection c has allowed what it took out and answered     *)
(* configure; the answer to stop waits elsewhere (dispatch_group_notify).  *)
QueueIdle(c) == delivering[c] = {} /\ finishing[c].kind # "configure"

(* The queue of connection c takes the next message.  What was sent before *)
(* a connection was cut may still be handled.                              *)
Handles(c, kind) ==
  /\ link[c] \in {"open", "cut"}
  /\ QueueIdle(c)
  /\ requests[c] # <<>>
  /\ Head(requests[c]).kind = kind
  /\ requests' = [requests EXCEPT ![c] = Tail(@)]

(* Messages are numbered, and the host compares the number in an answer    *)
(* with its own: only whether it is still the current one is kept.  A      *)
(* block that brings an old number does nothing at the host, and neither   *)
(* does one for a connection that is gone: they are left out.              *)
Current(answer) == IF answer.current THEN answer ELSE NoAnswer

Send(answer) ==
  mail' = IF answer # NoAnswer /\ link[answer.on] = "open" THEN mail \cup {answer} ELSE mail

Answer(request, failed, active) ==
  [kind |-> request.kind, on |-> request.on, current |-> request.current,
   setting |-> request.setting, failed |-> failed, active |-> active]

(* configure: the whole request is taken or nothing of it.  What the host  *)
(* has parsed and resolved with the same code resolves here.               *)
configure(c) ==
  /\ Handles(c, "configure")
  /\ LET request == Head(requests[c])
         setting == request.setting
         ok == /\ c = client
               /\ filter = "on"
               /\ running => Target[setting[1]] = Target[lag[1]]
         applies == ok /\ (running \/ request.start)
     IN  /\ IF applies THEN HeldTick(c, setting) ELSE UNCHANGED <<lag, packets>>
         /\ overdue' = (overdue /\ ~ok)
         /\ finishing' = [finishing EXCEPT ![c] = Current(Answer(request, ~ok, lag' # None))]
  /\ UNCHANGED <<filter, client, link, mail>>

stop(c) ==
  /\ Handles(c, "stop")
  /\ IF c = client THEN HeldStop(c) ELSE UNCHANGED <<capture, packets>>
  /\ finishing' = [finishing EXCEPT
       ![c] = Current(Answer(Head(requests[c]), c # client, lag' # None))]
  /\ UNCHANGED <<filter, client, link, mail>>

(* Stop answered behind its own packets only.                              *)
ReplyEarly(c) ==
  /\ finishing[c] # NoAnswer
  /\ delivering[c] = {}
  /\ Send(finishing[c])
  /\ finishing' = [finishing EXCEPT ![c] = NoAnswer]
  /\ UNCHANGED <<filter, client, capture, packets, link, requests>>

(* The answer to configure follows the packets this call took out; the     *)
(* answer to stop follows everybody's.                                     *)
Reply(c) ==
  /\ finishing[c] # NoAnswer
  /\ IF finishing[c].kind = "stop" THEN AllDelivered ELSE delivering[c] = {}
  /\ Send(finishing[c])
  /\ finishing' = [finishing EXCEPT ![c] = NoAnswer]
  /\ UNCHANGED <<filter, client, capture, packets, link, requests>>

(* An answer that the session runs changes nothing at the host either.     *)
heartbeat(c) ==
  /\ Handles(c, "heartbeat")
  /\ overdue' = (overdue /\ c # client)
  /\ Send(IF running THEN NoAnswer ELSE Current(Answer(Head(requests[c]), FALSE, FALSE)))
  /\ UNCHANGED <<filter, client, lag, packets, finishing, link>>

(* A client that is forgotten with its session still running.              *)
LostRunning(c) ==
  /\ link[c] = "cut"
  /\ QueueIdle(c)
  /\ client' = IF c = client THEN None ELSE client
  /\ link' = [link EXCEPT ![c] = "unused"]
  /\ requests' = [requests EXCEPT ![c] = <<>>]
  /\ finishing' = [finishing EXCEPT ![c] = NoAnswer]
  /\ UNCHANGED <<filter, mail, capture, packets>>

(* The invalidation handler, last on the connection's queue.  Messages it  *)
(* overtakes are not delivered any more.                                   *)
Lost(c) ==
  /\ link[c] = "cut"
  /\ QueueIdle(c)
  /\ IF c = client THEN HeldStop(c) /\ client' = None
     ELSE UNCHANGED <<capture, packets, client>>
  /\ link' = [link EXCEPT ![c] = "unused"]
  /\ requests' = [requests EXCEPT ![c] = <<>>]
  /\ finishing' = [finishing EXCEPT ![c] = NoAnswer]
  /\ UNCHANGED <<filter, mail>>

-----------------------------------------------------------------------------
ProviderFilter ==
  StartFilter \/ StopFilter \/ FilterStopped \/ ProviderDies \/ OtherConnects \/ OtherQuits

ProviderConnection(c) ==
  Accept(c) \/ configure(c) \/ stop(c) \/ heartbeat(c) \/ Reply(c) \/ Lost(c)

ProviderPackets ==
  \/ TimerTick \/ TimePasses \/ ContactAges
  \/ \E p \in Packets : HoldPacket(p)
  \/ \E t \in Threads : AllowPackets(t)
=============================================================================
