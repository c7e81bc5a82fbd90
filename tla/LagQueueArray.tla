--------------------------- MODULE LagQueueArray ---------------------------
(***************************************************************************)
(* The array of backends/linux/lag_queue.c as the code keeps it: records   *)
(* with the arrival time in a fixed-size array, compacted in place by one  *)
(* loop per pass; it implements LagQueue.                                  *)
(*                                                                         *)
(* The clock is read modulo its origin: where it would pass LongAgo, the   *)
(* arrival times move back instead.  No accepted delay reaches LongAgo, so *)
(* what arrived before the origin is due all the same.                     *)
(***************************************************************************)
EXTENDS LagParameters, Sequences

LongAgo == LagMaxMs + 1

VARIABLES
  packets,  (* packets[0..count): id, outbound, arrived_ms; pos is ghost  *)
  lag,      (* the settings in force                                      *)
  now,      (* CLOCK_MONOTONIC                                            *)
  pushed    (* ghost: every packet pushed since the last initialisation   *)

vars == <<packets, lag, now, pushed>>

remaining(packet) ==
  LET delay == Delay(lag, packet.outbound)
      elapsed == IF now >= packet.arrived_ms THEN now - packet.arrived_ms ELSE 0
  IN  IF delay = 0 \/ elapsed >= delay THEN 0 ELSE delay - elapsed

(* Variant: the worker sleeps for the packet that waits longest.           *)
waitForLast ==
  LET longest[n \in 0 .. Len(packets)] ==
        IF n = 0 THEN -1
        ELSE IF longest[n - 1] < remaining(packets[n]) THEN remaining(packets[n])
        ELSE longest[n - 1]
  IN  longest[Len(packets)]

(* The running minimum of linuxLagQueueWait after n turns of its loop, -1  *)
(* for an empty array.                                                     *)
Shortest ==
  LET shortest[n \in 0 .. Len(packets)] ==
        IF n = 0 THEN -1
        ELSE IF shortest[n - 1] < 0 \/ remaining(packets[n]) < shortest[n - 1]
        THEN remaining(packets[n])
        ELSE shortest[n - 1]
  IN  shortest

wait == Shortest[Len(packets)]

(* Variant: the pass goes on behind a verdict that failed.                 *)
TurnGoesOn(drain, failing, pass, packet) ==
  IF packet.id # failing /\ (drain \/ remaining(packet) = 0) THEN pass
  ELSE [pass EXCEPT !.kept = Append(@, packet)]

(* One turn of the loop of linuxLagQueueProcess.  kept is the prefix being *)
(* rewritten; once a verdict fails the rest of the array is moved behind   *)
(* it unread.                                                              *)
Turn(drain, failing, pass, packet) ==
  IF pass.failed THEN [pass EXCEPT !.kept = Append(@, packet)]
  ELSE IF ~(drain \/ remaining(packet) = 0) THEN [pass EXCEPT !.kept = Append(@, packet)]
  ELSE IF packet.id = failing
       THEN [failed |-> TRUE, kept |-> Append(pass.kept, packet)]
       ELSE pass

(* The pass after n turns.                                                 *)
Passed(drain, failing) ==
  LET passed[n \in 0 .. Len(packets)] ==
        IF n = 0 THEN [failed |-> FALSE, kept |-> <<>>]
        ELSE Turn(drain, failing, passed[n - 1], packets[n])
  IN  passed

Kept(drain, failing) == Passed(drain, failing)[Len(packets)].kept

-----------------------------------------------------------------------------
Init ==
  /\ packets = <<>>
  /\ lag = lagSettingsDefault
  /\ now = 0
  /\ pushed = <<>>

linuxLagQueueInit ==
  /\ packets' = <<>>
  /\ lag' = lagSettingsDefault
  /\ pushed' = <<>>
  /\ UNCHANGED now

(* Variant: the wait of every held packet starts again.                    *)
ConfigureRestarts(s) ==
  /\ lagSettingsValidate(s)
  /\ lag' = s
  /\ packets' = [i \in DOMAIN packets |-> [packets[i] EXCEPT !.arrived_ms = now]]
  /\ UNCHANGED <<now, pushed>>

linuxLagQueueConfigure(s) ==
  /\ lagSettingsValidate(s)
  /\ lag' = s
  /\ UNCHANGED <<packets, now, pushed>>

linuxLagQueuePush(id, outbound) ==
  /\ Len(packets) # Capacity
  /\ \A i \in DOMAIN packets : packets[i].id # id
  /\ Len(pushed) < MaxPushes
  /\ packets' = Append(packets, [id |-> id, outbound |-> outbound,
                                 arrived_ms |-> now, pos |-> Len(pushed) + 1])
  /\ pushed' = Append(pushed, [id |-> id, outbound |-> outbound])
  /\ UNCHANGED <<lag, now>>

(* failing is the id whose verdict fails, or no id at all (0).             *)
linuxLagQueueProcess(drain, failing) ==
  /\ packets' = Kept(drain, failing)
  /\ UNCHANGED <<lag, now, pushed>>

Tick ==
  /\ now' = IF now < LongAgo THEN now + 1 ELSE LongAgo
  /\ packets' = IF now < LongAgo THEN packets
                ELSE [i \in DOMAIN packets |->
                        [packets[i] EXCEPT !.arrived_ms = IF @ = 0 THEN 0 ELSE @ - 1]]
  /\ UNCHANGED <<lag, pushed>>

(* The worker's pass over the queue in which every verdict succeeds.       *)
Release == linuxLagQueueProcess(FALSE, 0)

Next ==
  \/ linuxLagQueueInit
  \/ \E s \in Settings : linuxLagQueueConfigure(s)
  \/ \E id \in Ids, outbound \in BOOLEAN : linuxLagQueuePush(id, outbound)
  \/ \E drain \in BOOLEAN, failing \in Ids \cup {0} : linuxLagQueueProcess(drain, failing)
  \/ Tick

Spec == Init /\ [][Next]_vars

(* Time passes, and the worker comes back to the queue at least every      *)
(* 100 ms for as long as it runs (backend.c:265).                          *)
FairSpec == Spec /\ WF_vars(Tick) /\ WF_vars(Release)

-----------------------------------------------------------------------------
At(k) == packets[CHOOSE i \in DOMAIN packets : packets[i].pos = k]

ageBar ==
  [k \in {packets[i].pos : i \in DOMAIN packets} |->
     IF now - At(k).arrived_ms > LagMaxMs THEN LagMaxMs + 1 ELSE now - At(k).arrived_ms]

Q == INSTANCE LagQueue WITH age <- ageBar

(* The compacting loop, its early stop and its memmove do what LagQueue    *)
(* says of a set of positions: no pass loses, duplicates or reorders a     *)
(* packet, whichever verdict fails.                                        *)
ImplementsLagQueue == Q!Spec

(* Packets of one direction leave the queue in the order they came, across *)
(* live setting changes, failed verdicts and drains.                       *)
FifoPerDirection == Q!FifoPerDirection

(* A worker that sleeps for the computed wait never sleeps past the moment *)
(* a held packet becomes eligible, and does not wake up before one has:    *)
(* polling with this timeout neither adds delay nor spins.                 *)
WaitIsExact ==
  IF packets = <<>> THEN wait = -1
  ELSE /\ \A k \in Q!held, t \in 0 .. LagMaxMs : t < wait => Q!Remaining(k, ageBar[k] + t) > 0
       /\ \E k \in Q!held : Q!Remaining(k, ageBar[k] + wait) = 0

(* Whatever is asked of the settings, every held packet leaves: raising    *)
(* the delay again and again cannot hold a packet for ever.                *)
HeldEventuallyReleased == Q!HeldEventuallyReleased
=============================================================================
