---------------------------- MODULE MCIkeMobike ----------------------------
(* IkeMobike with two addresses: one packet in flight in each direction     *)
(* (MCIkeMobike.cfg), and two, so that a copy can take the other path       *)
(* (MCIkeMobikeAgree.cfg).                                                  *)
EXTENDS IkeMobike
=============================================================================
