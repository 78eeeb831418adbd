--------------------------- MODULE MCOpenVpnHold ---------------------------
(***************************************************************************)
(* OpenVpnHold for TLC. The two networks are interchangeable, but they are *)
(* numbers and few, so no symmetry is declared.                            *)
(***************************************************************************)
EXTENDS OpenVpnHold

TwoNetworks == {1, 2}
=============================================================================
