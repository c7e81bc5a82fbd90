---------------------------- MODULE MCController ----------------------------
(* Presets with one selection and with another, to be replaced while       *)
(* capture runs.  Of those that aim at a ping, Rising splits an even or an *)
(* odd millisecond and is refused for a low baseline, because its second   *)
(* step is beyond the limit; Lowering is below, at or above its baseline.  *)
(* Mismatched and Excluded delay a direction they do not capture, and are  *)
(* refused.                                                                *)
EXTENDS Controller

All == Untargeted
Udp == [Untargeted EXCEPT !.protocol = "udp", !.direction = "inbound"]
Wrong == [Untargeted EXCEPT !.remote_port = 1]

Both(in, out) ==
  [enabled |-> TRUE, inbound |-> TRUE, outbound |-> TRUE, inbound_ms |-> in, outbound_ms |-> out]

Step(k, t, in, out) == [kind |-> k, target_ms |-> t, inbound_ms |-> in, outbound_ms |-> out]

Delays(target, policy, loop, steps) ==
  [target |-> target, mode |-> "added_delay", policy |-> policy, loop |-> loop, steps |-> steps]

Looped == Delays(All, "both", TRUE, <<Step("delay", 0, 1, 0), Step("delay", 0, 0, 1)>>)
Single == Delays(Udp, "inbound", FALSE, <<Step("delay", 0, 1, 0)>>)
Mismatched == Delays(Udp, "outbound", FALSE, <<Step("delay", 0, 0, 1)>>)

Pings(target, policy, steps) ==
  [target |-> target, mode |-> "target_ping", policy |-> policy, loop |-> FALSE, steps |-> steps]

Rising == Pings(All, "both", <<Step("lowest", 0, 0, 0), Step("target", 3, 0, 0)>>)
Lowering == Pings(Udp, "inbound", <<Step("target", 2, 0, 0), Step("target", 1, 0, 0)>>)
Excluded == Pings(Udp, "both", <<Step("target", 2, 0, 0)>>)

MCPresets == {Looped, Single, Mismatched, Rising, Lowering, Excluded}
MCTargets == {All, Udp, Wrong}
MCBaselines == {[has |-> FALSE, ms |-> 0]} \cup [has : {TRUE}, ms : 0 .. 2]
Asked == {Both(1, 1), Both(2, 0)}
MCSettings == Asked \cup {lagSettingsDefault}
=============================================================================
