--------------------------- MODULE MCIkev2Session ---------------------------
(* Ikev2Session with two connect requests, enough for a switch of profiles  *)
(* with events of the old session still queued.                             *)
EXTENDS Ikev2Session
=============================================================================
