--------------------------- MODULE LagParameters ---------------------------
(* What the two models of the Linux lag queue are built over.              *)
EXTENDS Network

CONSTANTS
  Ids,         (* the packet ids the kernel hands out                     *)
  Settings,    (* the settings callers ask for, invalid ones among them   *)
  Capacity,    (* LINUX_LAG_QUEUE_CAPACITY                                *)
  MaxPushes    (* bound of the model: pushes between two initialisations  *)

ASSUME LagQueueAssumption ==
  /\ Settings \subseteq LagSettings
  /\ Capacity \in Nat \ {0}
  /\ MaxPushes \in Nat
=============================================================================
