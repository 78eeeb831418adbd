--------------------------- MODULE MCReplayWindow ---------------------------
(* ReplayWindow with four ids, which may roll over once: a window of two    *)
(* over UDP, in short and in long form, with and without a limit of time,   *)
(* and TCP.                                                                 *)
EXTENDS ReplayWindow

MCOptions ==
  [long_form : BOOLEAN, seq_backtrack : {0, 2}, time_backtrack : {0, 1}]
=============================================================================
