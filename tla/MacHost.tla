------------------------------- MODULE MacHost -------------------------------
(***************************************************************************)
(* The macOS prototype as a whole: the host application                    *)
(* (platform/macos/host.m) over MacProvider.                               *)
(*                                                                         *)
(* The host never waits.  It sends a command, disables its buttons and     *)
(* goes on when a block on its main queue brings the answer, the loss of   *)
(* the connection or the end of ten seconds.                               *)
(***************************************************************************)
EXTENDS MacProvider

CONSTANT
  LateApproval  (* the system may answer Enable or Remove while a later    *)
                (* command is in flight                                    *)

ASSUME MacHostAssumption == LateApproval \in BOOLEAN

VARIABLES
  connection,  (* the host's end, or None                                 *)
  shown,       (* the preset and step the host shows, or None             *)
  hostRunning, (* its running                                             *)
  busy,        (* buttons are disabled                                    *)
  timed,       (* the ten seconds of the current command are not over     *)
  system       (* what the host has asked of the system                   *)

command == <<connection, busy, timed>>
host == <<command, shown, hostRunning, system>>
vars == <<provider, channel, host>>

HostInit ==
  /\ connection = None
  /\ shown = None
  /\ hostRunning = FALSE
  /\ busy = FALSE
  /\ timed = FALSE
  /\ system = None

Init == ProviderInit /\ HostInit

-----------------------------------------------------------------------------
(* What may still reach the host, or reach the provider from it.           *)
Around ==
  mail \cup {finishing[c] : c \in Connections} \cup UNION {ToSet(requests[c]) : c \in Connections}

CommandInFlight == \E m \in Around : m.kind \in {"configure", "stop"}

(* ++requestNumber: whatever is still around has an older number.          *)
OlderRequests == [c \in Connections |->
  [i \in DOMAIN requests[c] |-> [requests[c][i] EXCEPT !.current = FALSE]]]

NobodyAnswers == [c \in Connections |-> NoAnswer]

Losses == {m \in mail : m.kind = "lost"}

FreeConnections ==
  {c \in Connections :
     /\ c # connection /\ c # client
     /\ link[c] = "unused"
     /\ finishing[c] = NoAnswer
     /\ delivering[c] = {}
     /\ LostMail(c) \notin mail}

(* One is as good as another.                                              *)
Pick(S) == CHOOSE x \in S : TRUE

Request(kind, setting, start) ==
  [kind |-> kind, on |-> None, setting |-> setting, start |-> start, current |-> TRUE]

(* proxy, and a message to it behind those already sent.  A connection     *)
(* that is lost takes none; its host is about to hear of the loss.         *)
SendRequest(message, sent) ==
  LET opens == connection = None
      to == IF opens THEN Pick(FreeConnections) ELSE connection
  IN  /\ opens => FreeConnections # {}
      /\ connection' = to
      /\ link' = IF opens THEN [link EXCEPT ![to] = "new"] ELSE link
      /\ requests' = IF link'[to] \in {"new", "open"}
                     THEN [sent EXCEPT ![to] = Append(@, [message EXCEPT !.on = to])]
                     ELSE sent

(* [connection invalidate]                                                 *)
Invalidate(c) ==
  /\ link' = [link EXCEPT ![c] = CASE @ = "open" -> "cut" [] @ = "new" -> "unused" [] OTHER -> @]
  /\ requests' = IF link[c] = "new" THEN [requests EXCEPT ![c] = <<>>] ELSE requests

(* beginCommand                                                            *)
Command(message) ==
  /\ ~busy
  /\ busy' = TRUE
  /\ timed' = TRUE
  /\ mail' = Losses
  /\ finishing' = NobodyAnswers
  /\ SendRequest(message, OlderRequests)
  /\ UNCHANGED <<filter, client, capture, packets, shown, hostRunning, system>>

(* Next, Previous and Reset, in presets that loop and presets that do not. *)
Moves(step, count) ==
  {1} \cup {IF step < count THEN step + 1 ELSE s : s \in {1, step}}
      \cup {IF step > 1 THEN step - 1 ELSE s : s \in {1, count}}

move(step, start) ==
  /\ shown # None
  /\ <<shown[1], step>> \in Settings
  /\ Command(Request("configure", <<shown[1], step>>, start))

hostStop == Command(Request("stop", None, FALSE))

import(sequence) ==
  /\ ~busy /\ ~hostRunning
  /\ shown' = <<sequence, 1>>
  /\ UNCHANGED <<provider, channel, command, hostRunning, system>>

(* The timer, every three seconds.  The answer to a heartbeat sent while a *)
(* command is in flight is not read.  At most one heartbeat is on its way: *)
(* a bound of the model.                                                   *)
sendHeartbeat ==
  /\ connection # None
  /\ \A m \in Around : m.kind # "heartbeat"
  /\ SendRequest([Request("heartbeat", None, FALSE) EXCEPT !.current = ~busy], requests)
  /\ UNCHANGED <<provider, mail, busy, timed, shown, hostRunning, system>>

(* The block beginCommand leaves behind for ten seconds later.             *)
CommandTimesOut ==
  /\ timed
  /\ timed' = FALSE
  /\ IF busy /\ connection # None
     THEN Invalidate(connection) /\ mail' = mail \cup {LostMail(connection)}
     ELSE UNCHANGED channel
  /\ UNCHANGED <<provider, connection, busy, shown, hostRunning, system>>

-----------------------------------------------------------------------------
(* Blocks on the main queue.                                               *)
Takes(m) ==
  /\ mail' = mail \ {m}
  /\ UNCHANGED <<provider, link, requests, system>>

ConnectionLost(m) ==
  /\ m = LostMail(connection)
  /\ connection' = None
  /\ busy' = FALSE
  /\ timed' = FALSE
  /\ hostRunning' = FALSE
  /\ requests' = OlderRequests
  /\ mail' = {}
  /\ finishing' = NobodyAnswers
  /\ UNCHANGED <<filter, client, capture, packets, link, shown, system>>

Configured(m) ==
  /\ m.kind = "configure"
  /\ Takes(m)
  /\ busy' = FALSE
  /\ IF m.failed THEN UNCHANGED <<shown, hostRunning>>
     ELSE /\ shown' = <<shown[1], m.setting[2]>>
          /\ hostRunning' = m.active
  /\ UNCHANGED <<connection, timed>>

Stopped(m) ==
  /\ m.kind = "stop"
  /\ Takes(m)
  /\ busy' = FALSE
  /\ hostRunning' = IF m.failed THEN hostRunning ELSE m.active
  /\ UNCHANGED <<connection, timed, shown>>

(* Compared with the connections before this one.                          *)
BeatenElsewhere(m) ==
  /\ m.kind = "heartbeat"
  /\ Takes(m)
  /\ hostRunning' = (hostRunning /\ (m.on = connection \/ busy))
  /\ UNCHANGED <<command, shown>>

(* The answer to a heartbeat that found no session running.                *)
Beaten(m) ==
  /\ m.kind = "heartbeat"
  /\ Takes(m)
  /\ hostRunning' = (hostRunning /\ (m.on # connection \/ busy))
  /\ UNCHANGED <<command, shown>>

TakeMail == \E m \in mail : ConnectionLost(m) \/ Configured(m) \/ Stopped(m) \/ Beaten(m)

-----------------------------------------------------------------------------
(* Enable and Remove.  The system answers when it likes, which enables the *)
(* buttons again; one request is open at a time, a bound of the model.     *)
AskSystem(what) ==
  /\ ~busy
  /\ system = None
  /\ busy' = TRUE
  /\ system' = what
  /\ UNCHANGED <<provider, channel, connection, timed, shown, hostRunning>>

SystemAnswers ==
  /\ system # None
  /\ LateApproval \/ ~CommandInFlight
  /\ system' = None
  /\ busy' = FALSE
  /\ UNCHANGED <<provider, channel, connection, timed, shown, hostRunning>>

(* The filter's configuration is gone: the host lets go of its connection  *)
(* and asks for the extension to be deactivated.                           *)
PreferencesRemoved ==
  /\ system = "removing"
  /\ system' = "deactivating"
  /\ IF connection = None THEN UNCHANGED <<link, requests>> ELSE Invalidate(connection)
  /\ mail' = mail \ Losses
  /\ connection' = None
  /\ hostRunning' = FALSE
  /\ UNCHANGED <<provider, busy, timed, shown>>

(* The host quits or dies, and is opened again.                            *)
HostQuits ==
  /\ shown # None \/ connection # None
  /\ IF connection = None THEN UNCHANGED <<link, requests>> ELSE Invalidate(connection)
  /\ mail' = {}
  /\ connection' = None /\ shown' = None /\ hostRunning' = FALSE
  /\ busy' = FALSE /\ timed' = FALSE /\ system' = None
  /\ finishing' = NobodyAnswers
  /\ UNCHANGED <<filter, client, capture, packets>>

-----------------------------------------------------------------------------
SystemStep == AskSystem("enabling") \/ AskSystem("removing") \/ PreferencesRemoved \/ SystemAnswers

UserStep ==
  \/ shown # None /\ move(shown[2], TRUE)
  \/ shown # None /\ \E step \in Moves(shown[2], StepCount[shown[1]]) : move(step, FALSE)
  \/ hostStop
  \/ \E sequence \in Sequences : import(sequence)
  \/ HostQuits

HostStep == sendHeartbeat \/ CommandTimesOut \/ TakeMail

ProviderStep ==
  /\ ProviderFilter \/ ProviderPackets \/ \E c \in Connections : ProviderConnection(c)
  /\ UNCHANGED host

Next == UserStep \/ SystemStep \/ HostStep \/ ProviderStep

Spec == Init /\ [][Next]_vars

(* Queues are served, timers fire and packets are allowed; nobody has to   *)
(* press a button or enable the filter, and the host may hang between two  *)
(* heartbeats.                                                             *)
FairSpec ==
  /\ Spec
  /\ WF_vars(CommandTimesOut)
  /\ SF_vars(TakeMail)
  /\ WF_vars(SystemAnswers)
  /\ WF_vars(TimerTick /\ UNCHANGED host)
  /\ WF_vars(TimePasses /\ UNCHANGED host)
  /\ WF_vars(ContactAges /\ UNCHANGED host)
  /\ \A t \in Threads : WF_vars(AllowPackets(t) /\ UNCHANGED host)
  /\ \A c \in Connections : WF_vars(ProviderConnection(c) /\ UNCHANGED host)

-----------------------------------------------------------------------------
(* docs/MACOS.md:88: "Errors/timeouts report uncertainty instead of        *)
(* pretending unacknowledged changes succeeded".  When nothing is under    *)
(* way on the connection the provider serves, a provider that delays       *)
(* traffic is shown as running, with the preset and step it delays by,     *)
(* whatever was refused, timed out or answered late before.                *)
IdleHostAgrees ==
  /\ ~busy /\ ~CommandInFlight
  /\ connection # None /\ connection = client
  /\ link[connection] = "open"
  /\ running
  => hostRunning /\ shown = lag

(* docs/MACOS.md:93: "Stop/provider-shutdown replies wait for outstanding  *)
(* allow calls".  When the answer to Stop arrives, nothing is delayed or   *)
(* still to be allowed.                                                    *)
StopIsFlushed ==
  \A m \in mail : m.kind = "stop" /\ ~m.failed /\ m.on = client => InHand = {}

(* docs/MACOS.md:89: "the provider flushes on disconnect or stops after    *)
(* roughly ten seconds without heartbeats".  A host that is not heard of   *)
(* any more, gone or only hanging, leaves nothing delayed.                 *)
HostSends == \E c \in Connections : Len(requests'[c]) > Len(requests[c])

AbsentHostLetsGo == <>[][~HostSends]_vars => <>[](~running /\ InHand = {})

(* Where no button is pressed any more, a host whose timer runs finds out  *)
(* that the provider has ended the delay it shows.                         *)
HostLearns ==
  <>[]~busy /\ []<><<sendHeartbeat>>_vars => <>[](hostRunning => running)

(* Whatever is done to the settings, a packet that is held back goes out.  *)
PacketsComeOut == \A p \in Packets : p \in InHand ~> p \notin InHand
=============================================================================
