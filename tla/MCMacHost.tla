----------------------------- MODULE MCMacHost -----------------------------
(* A preset of two steps, each delaying another direction, and one of a    *)
(* single step over other traffic.                                         *)
EXTENDS MacHost

MCStepCount == [s \in Sequences |-> IF s = "a" THEN 2 ELSE 1]

MCLag ==
  [s \in Settings |->
     [inbound |-> IF s = <<"a", 2>> THEN 0 ELSE 1,
      outbound |-> IF s = <<"a", 1>> THEN 0 ELSE 1]]

MCTarget == [s \in Sequences |-> s]
=============================================================================
