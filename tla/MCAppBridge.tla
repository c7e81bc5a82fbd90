----------------------------- MODULE MCAppBridge -----------------------------
(* A plain sequence of one step and one of two that needs a baseline, of   *)
(* different traffic; Quick Controls shares the traffic of each.  Two ids  *)
(* and two servers: one may be selected while the other appears.           *)
EXTENDS AppBridge, TLC

CONSTANTS plain, ping, noDelay, delay, i1, i2, p1, p2, b1, b2

MCTraffic == plain :> "in" @@ ping :> "out" @@ noDelay :> "in" @@ delay :> "out"
MCSteps == plain :> 1 @@ ping :> 2

(* Neither ids nor servers are told apart, and baselines only compared.    *)
MCSymmetry == Permutations({i1, i2}) \cup Permutations({p1, p2})
                \cup Permutations({b1, b2})
=============================================================================
