------------------------------ MODULE LagQueue ------------------------------
(***************************************************************************)
(* The queue of packets the Linux backend is holding back                  *)
(* (backends/linux/lag_queue.c).                                           *)
(*                                                                         *)
(* A packet is known by its position in the order of pushes.  The array of *)
(* the code always lists held packets in that order, so the array is the   *)
(* set of held positions read upwards; module LagQueueArray holds the      *)
(* array itself and is shown to implement this one.                        *)
(*                                                                         *)
(* The code stamps a packet with the clock and compares the difference     *)
(* with the delay.  With a clock that never goes back only that difference *)
(* matters, so a held packet carries its age.  No accepted delay exceeds   *)
(* LagMaxMs, so ages beyond it are one: AgeCap.                            *)
(***************************************************************************)
EXTENDS LagParameters, Sequences, FiniteSets

AgeCap == LagMaxMs + 1

VARIABLES
  pushed,   (* history: every packet pushed, in order                     *)
  age,      (* the age of each held packet, by position                   *)
  lag       (* the settings in force                                      *)

vars == <<pushed, age, lag>>

held == DOMAIN age

Pushed == [id : Ids, outbound : BOOLEAN]

-----------------------------------------------------------------------------
(* How long packet k still has to wait when it is a old.                   *)
Remaining(k, a) ==
  LET delay == Delay(lag, pushed[k].outbound)
  IN  IF a >= delay THEN 0 ELSE delay - a

Eligible(drain) == {k \in held : drain \/ Remaining(k, age[k]) = 0}

AgesOf(S) == [k \in S |-> age[k]]

-----------------------------------------------------------------------------
Init ==
  /\ pushed = <<>>
  /\ age = [k \in {} |-> 0]
  /\ lag = lagSettingsDefault

(* linuxLagQueueInit on a queue in use: the backend opens or closes the    *)
(* kernel queue the ids belonged to.                                       *)
Reinit ==
  /\ pushed' = <<>>
  /\ age' = [k \in {} |-> 0]
  /\ lag' = lagSettingsDefault

Configure(s) ==
  /\ lagSettingsValidate(s)
  /\ lag' = s
  /\ UNCHANGED <<pushed, age>>

Added(id, outbound, new) ==
  /\ Len(pushed) < MaxPushes
  /\ pushed' = Append(pushed, [id |-> id, outbound |-> outbound])
  /\ age' = [k \in held \cup {Len(pushed) + 1} |-> IF k \in held THEN age[k] ELSE new]
  /\ UNCHANGED lag

IdIsFree(id) == \A k \in held : pushed[k].id # id

(* A refused push (the array is full, or the id is held) changes nothing.  *)
Push(id, outbound) ==
  Cardinality(held) # Capacity /\ IdIsFree(id) /\ Added(id, outbound, 0)

(* One pass.  Eligible packets are accepted in order up to the first whose *)
(* verdict fails; that one and everything after it stay.  No verdict fails *)
(* when failing is beyond the last position.                               *)
Process(drain, failing) ==
  /\ failing \in Eligible(drain) \cup {Len(pushed) + 1}
  /\ age' = AgesOf(held \ {k \in Eligible(drain) : k < failing})
  /\ UNCHANGED <<pushed, lag>>

Tick ==
  /\ age' = [k \in held |-> IF age[k] < AgeCap THEN age[k] + 1 ELSE AgeCap]
  /\ UNCHANGED <<pushed, lag>>

(* The worker's pass over the queue in which every verdict succeeds.       *)
Release == Process(FALSE, Len(pushed) + 1)

Next ==
  \/ Reinit
  \/ \E s \in Settings : Configure(s)
  \/ \E id \in Ids, outbound \in BOOLEAN : Push(id, outbound)
  \/ \E drain \in BOOLEAN, failing \in held \cup {Len(pushed) + 1} :
       Process(drain, failing)
  \/ Tick

Spec == Init /\ [][Next]_vars

(* Time passes, and the worker comes back to the queue at least every      *)
(* 100 ms for as long as it runs (backend.c:265).                          *)
FairSpec == Spec /\ WF_vars(Tick) /\ WF_vars(Release)

-----------------------------------------------------------------------------
TypeOK ==
  /\ pushed \in Seq(Pushed)
  /\ held \subseteq 1 .. Len(pushed)
  /\ age \in [held -> 0 .. AgeCap]
  /\ lag \in LagSettings
  /\ lagSettingsValidate(lag)

(* Packets of one direction leave the queue in the order they came, across *)
(* live setting changes, failed verdicts and drains: nothing a user does   *)
(* to the delay reorders one direction of a connection.                    *)
FifoPerDirection ==
  \A i, j \in 1 .. Len(pushed) :
    (i < j /\ pushed[i].outbound = pushed[j].outbound /\ i \in held) => j \in held

(* An earlier packet is never younger: what makes the order above hold.    *)
OlderFirst == \A i, j \in held : i < j => age[i] >= age[j]

(* The array never overflows, and no id stands in it twice, so no packet   *)
(* can be given two verdicts.                                              *)
HeldBounded == Cardinality(held) <= Capacity

IdsUnique == \A i, j \in held : pushed[i].id = pushed[j].id => i = j

(* Whatever is asked of the settings, every held packet leaves: raising    *)
(* the delay again and again cannot hold a packet for ever.                *)
HeldEventuallyReleased ==
  \A k \in 1 .. MaxPushes : k \in held ~> k \notin held
=============================================================================
