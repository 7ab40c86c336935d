------------------------- MODULE MCUplinkPipeline -------------------------
(* Small instances of UplinkPipeline: values of the constants that a .cfg  *)
(* cannot write down.                                                      *)
EXTENDS UplinkPipeline

CONSTANTS u1, u2, dev, dec, broken, none, push, share

OneDevice == [u \in Uplink |-> dev]

(* The decoder throws on the second message; the device also has a raw     *)
(* connection to the same target.                                          *)
TwoRoutes == {<<dev, dec, push>>, <<dev, none, push>>}
ThrowsOnSecond == {<<u2, dec>>}

(* A decoder that throws on everything next to a working one.              *)
WithBroken == {<<dev, dec, push>>, <<dev, broken, push>>}
ThrowsAlways == {<<u, broken>> : u \in Uplink}
=============================================================================
