-------------------------- MODULE MCOpenVpnSession --------------------------
(* Instances of OpenVpnSession: one start with two stop requests, for safety *)
(* and liveness (MCOpenVpnSession.cfg); two starts, whose threads may run at *)
(* once, with one stop request (MCOpenVpnReplace.cfg).                       *)
EXTENDS OpenVpnSession
=============================================================================
