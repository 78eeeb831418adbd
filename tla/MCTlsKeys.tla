----------------------------- MODULE MCTlsKeys -----------------------------
(* Instances of TlsKeys: a network that loses but keeps the order            *)
(* (MCTlsKeys.cfg), and one that reorders and duplicates (MCTlsKeysUdp.cfg). *)
EXTENDS TlsKeys
=============================================================================
